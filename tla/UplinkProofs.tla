---------------------------- MODULE UplinkProofs ----------------------------
(***************************************************************************)
(* Theorems about Uplink, for every size of the packets and of the buffer, *)
(* any number of sessions, of packets in each, and of damaged bytes.       *)
(***************************************************************************)
EXTENDS Uplink, SequenceTheorems, TLAPS

\* A byte of a packet, position 0 when it is damaged.
Byte == Session \X Nat \X Nat \X Sizes

\* Types, and what the framing loop keeps of its two indices.
TypeInv ==
  /\ peer \in Session \cup {NoPeer} /\ waiting \in Seq(Session)
  /\ inbound \in [Session -> Seq(Byte)] /\ sent \in [Session -> Nat]
  /\ phase \in {"idle", "polled", "receiving", "draining"}
  /\ rx_buffer \in Seq(Byte) /\ consumed \in 0 .. Len(rx_buffer)
  /\ phase # "draining" => consumed = 0
  /\ handled \in Seq(Session \X Nat)
  /\ ground \in [Session -> {"new", "up", "gone", "refused"}]
  /\ fresh \in SUBSET Session /\ damaged \in SUBSET Session

\* Every connection is taken at most once, and nothing comes from one before.
Untaken(s) == ground[s] = "new" \/ \E k \in DOMAIN waiting : waiting[k] = s

TakenInv ==
  /\ \A j, k \in DOMAIN waiting : j < k => waiting[j] # waiting[k]
  /\ \A k \in DOMAIN waiting : ground[waiting[k]] # "new"
  /\ \A s \in Session :
       /\ \A k \in DOMAIN inbound[s] : inbound[s][k][1] = s
       /\ Untaken(s) =>
            /\ s # peer /\ s \notin fresh
            /\ \A k \in DOMAIN rx_buffer : rx_buffer[k][1] # s
            /\ \A k \in DOMAIN handled : handled[k][1] # s
       /\ ground[s] = "new" => inbound[s] = <<>> /\ sent[s] = 0

\* The first bytes of packets come in the order the packets were sent: those in
\* the buffer, then those not received yet, all of them behind what was handled.
RestInOrder ==
  \A j, k \in consumed + 1 .. Len(rx_buffer) :
    j < k /\ rx_buffer[j][1] = rx_buffer[k][1] /\ rx_buffer[j][3] = 1 /\ rx_buffer[k][3] = 1
      => rx_buffer[j][2] < rx_buffer[k][2]
InboundInOrder ==
  \A s \in Session : \A k \in DOMAIN inbound[s] :
    inbound[s][k][3] = 1 =>
      /\ inbound[s][k][2] <= sent[s]
      /\ \A j \in DOMAIN inbound[s] :
           j < k /\ inbound[s][j][3] = 1 => inbound[s][j][2] < inbound[s][k][2]
      /\ \A j \in consumed + 1 .. Len(rx_buffer) :
           rx_buffer[j][1] = s /\ rx_buffer[j][3] = 1 => rx_buffer[j][2] < inbound[s][k][2]
      /\ \A h \in DOMAIN handled : handled[h][1] = s => handled[h][2] < inbound[s][k][2]
HandledBefore ==
  \A k \in DOMAIN handled :
    /\ handled[k][2] <= sent[handled[k][1]]
    /\ \A j \in consumed + 1 .. Len(rx_buffer) :
         rx_buffer[j][1] = handled[k][1] /\ rx_buffer[j][3] = 1 => handled[k][2] < rx_buffer[j][2]
RestIsSent ==
  \A j \in DOMAIN rx_buffer : rx_buffer[j][3] = 1 => rx_buffer[j][2] <= sent[rx_buffer[j][1]]

OrderInv ==
  RestInOrder /\ InboundInOrder /\ HandledBefore /\ RestIsSent /\ OnceAndInOrder

-----------------------------------------------------------------------------
\* A stream of session s whose first packet is number `first`: at every first
\* byte a packet begins, and the next one follows it.
StartsAt(S, x, s) ==
  /\ \A m \in 1 .. S[x][4] : x + m - 1 <= Len(S) => S[x + m - 1] = <<s, S[x][2], m, S[x][4]>>
  /\ x + S[x][4] <= Len(S) =>
       S[x + S[x][4]][3] = 1 /\ S[x + S[x][4]][2] = S[x][2] + 1

Framed(S, s, first) ==
  /\ S # <<>> => S[1][3] = 1 /\ S[1][2] = first
  /\ \A x \in DOMAIN S : S[x][3] = 1 => StartsAt(S, x, s)

\* Such a stream ends where packet number `last` ends.
Complete(S, first, last) ==
  /\ S = <<>> => first = last + 1
  /\ \A x \in DOMAIN S : S[x][3] = 1 =>
       /\ x + S[x][4] - 1 <= Len(S)
       /\ x + S[x][4] - 1 = Len(S) => S[x][2] = last

\* What is still to be framed of the peer's stream.
Rest   == SubSeq(rx_buffer, consumed + 1, Len(rx_buffer))
Stream == Rest \o inbound[peer]

FramedFrom(S, s, first) ==
  Framed(S, s, first) /\ (ground[s] \in {"new", "up"} => Complete(S, first, sent[s]))

UntakenFramed == \A s \in Session \ damaged : Untaken(s) => FramedFrom(inbound[s], s, 1)
StreamFramed  == peer \in fresh \ damaged => FramedFrom(Stream, peer, Last(peer) + 1)
CleanInv      == UntakenFramed /\ StreamFramed

\* Between two pumps at most the beginning of one packet is in the buffer.
PartialInv ==
  phase # "draining" /\ peer \in fresh \ damaged /\ rx_buffer # <<>> =>
    Len(rx_buffer) < rx_buffer[1][4]

IInv == TypeInv /\ AlwaysRoom /\ TakenInv /\ OrderInv /\ CleanInv /\ PartialInv
-----------------------------------------------------------------------------
LEMMA Sizing ==
  /\ HeaderBytes \in Nat \ {0} /\ MaxPacketBytes \in Nat /\ RxBufferBytes \in Nat
  /\ HeaderBytes <= MaxPacketBytes /\ MaxPacketBytes < RxBufferBytes
  /\ Sizes \subseteq Nat /\ \A n \in Sizes : HeaderBytes <= n /\ n <= MaxPacketBytes
BY UplinkAssumption

LEMMA ByteFields ==
  ASSUME NEW b \in Byte
  PROVE  /\ b[1] \in Session /\ b[2] \in Nat /\ b[3] \in Nat /\ b[4] \in Sizes /\ b[4] \in Nat
         /\ b = <<b[1], b[2], b[3], b[4]>>
<1>1. \E s \in Session, i \in Nat, k \in Nat, n \in Sizes : b = <<s, i, k, n>>
  BY DEF Byte
<1>2. PICK s \in Session, i \in Nat, k \in Nat, n \in Sizes : b = <<s, i, k, n>>
  BY <1>1
<1> QED
  BY <1>2, Sizing

\* A header that is read is inside the buffer, and so are the sizes it may claim.
LEMMA TotalsAreSizes ==
  ASSUME TypeInv, Available >= HeaderBytes
  PROVE  /\ consumed + 1 \in 1 .. Len(rx_buffer) /\ At(1) \in Byte
         /\ Totals \subseteq HeaderBytes .. MaxPacketBytes + 1
<1>1. /\ consumed \in Nat /\ Len(rx_buffer) \in Nat
      /\ consumed + HeaderBytes <= Len(rx_buffer) /\ HeaderBytes \in Nat \ {0}
  BY Sizing DEF TypeInv, Available
<1>2. consumed + 1 \in 1 .. Len(rx_buffer)
  BY <1>1
<1>3. rx_buffer \in Seq(Byte)
  BY DEF TypeInv
<1>4. At(1) \in Byte
  BY <1>2, <1>3 DEF At
<1>5. At(1)[4] \in HeaderBytes .. MaxPacketBytes + 1
  BY <1>4, ByteFields, Sizing
<1>6. Totals \subseteq HeaderBytes .. MaxPacketBytes + 1
  BY <1>5 DEF Totals
<1> QED
  BY <1>2, <1>4, <1>6

\* One turn of the framing loop takes at least one byte and none that is not there.
DrainEffect ==
  /\ phase = "draining" /\ Available >= HeaderBytes
  /\ UNCHANGED <<waiting, ground, inbound, phase, rx_buffer, sent, fresh, damaged>>
  /\ peer' \in {peer, NoPeer}
  /\ consumed' \in consumed + 1 .. Len(rx_buffer)
  /\ \/ UNCHANGED handled
     \/ /\ At(1)[3] = 1 /\ handled' = Append(handled, <<At(1)[1], At(1)[2]>>)
        /\ At(1)[4] <= Available /\ consumed' = consumed + At(1)[4]

LEMMA PeerMayGo == ASSUME MayFindPeerGone PROVE peer' \in {peer, NoPeer}
BY DEF MayFindPeerGone, ClosePeer

LEMMA DrainTakes == ASSUME TypeInv, DrainOne PROVE DrainEffect
<1>1. /\ phase = "draining" /\ Available >= HeaderBytes
      /\ UNCHANGED <<waiting, ground, inbound, phase, rx_buffer, sent, fresh, damaged>>
      /\ peer' \in {peer, NoPeer}
  BY PeerMayGo DEF DrainOne
<1>2. /\ consumed + 1 \in 1 .. Len(rx_buffer) /\ At(1) \in Byte
      /\ Totals \subseteq HeaderBytes .. MaxPacketBytes + 1
      /\ consumed \in Nat /\ Len(rx_buffer) \in Nat
  BY <1>1, TotalsAreSizes DEF TypeInv
<1>3. PICK total \in Totals :
        \/ total > MaxPacketBytes /\ Reject(1)
        \/ total <= MaxPacketBytes /\ total <= Available
             /\ IF ParsesAs(total) THEN Accept(total) ELSE Reject(total)
  BY DEF DrainOne
<1>4. total \in Nat \ {0}
  BY <1>2, <1>3, Sizing
<1>5. CASE total > MaxPacketBytes /\ Reject(1)
  <2>1. consumed' = consumed + 1 /\ UNCHANGED handled
    BY <1>5 DEF Reject
  <2>2. consumed' \in consumed + 1 .. Len(rx_buffer)
    BY <1>2, <2>1
  <2> QED
    BY <1>1, <2>1, <2>2 DEF DrainEffect
<1>6. CASE total <= Available /\ Reject(total)
  <2>1. consumed' = consumed + total /\ UNCHANGED handled
    BY <1>6 DEF Reject
  <2>2. consumed' \in consumed + 1 .. Len(rx_buffer)
    BY <1>2, <1>4, <1>6, <2>1 DEF Available
  <2> QED
    BY <1>1, <2>1, <2>2 DEF DrainEffect
<1>7. CASE total <= Available /\ ParsesAs(total) /\ Accept(total)
  <2>1. /\ consumed' = consumed + total /\ handled' = Append(handled, <<At(1)[1], At(1)[2]>>)
        /\ At(1)[4] = total
    BY <1>7 DEF Accept, ParsesAs
  <2>2. At(1)[3] = 1
    <3>1. 1 \in 1 .. total
      BY <1>4
    <3>2. At(1) = <<At(1)[1], At(1)[2], 1, At(1)[4]>>
      BY <1>7, <3>1 DEF ParsesAs, Aligned
    <3>3. PICK b \in Byte : b = At(1)
      BY <1>2
    <3>4. b = <<b[1], b[2], 1, b[4]>> /\ b = <<b[1], b[2], b[3], b[4]>>
      BY <3>2, <3>3, ByteFields
    <3> QED
      BY <3>3, <3>4
  <2>3. consumed' \in consumed + 1 .. Len(rx_buffer)
    BY <1>2, <1>4, <1>7, <2>1 DEF Available
  <2> QED
    BY <1>1, <1>7, <2>1, <2>2, <2>3 DEF DrainEffect
<1> QED
  BY <1>3, <1>5, <1>6, <1>7

\* When nothing more can be framed, less than a packet is left, and it moves to
\* the front; the buffer is never found full.
FinishEffect ==
  /\ phase = "draining" /\ phase' = "idle" /\ consumed' = 0 /\ Available < MaxPacketBytes
  /\ UNCHANGED <<waiting, ground, inbound, peer, sent, handled, fresh, damaged>>
  /\ rx_buffer' = Rest

LEMMA RestIsASequence ==
  ASSUME TypeInv
  PROVE  /\ Rest \in Seq(Byte) /\ Len(Rest) = Available /\ Available \in Nat
         /\ \A k \in 1 .. Available :
              Rest[k] = rx_buffer[consumed + k] /\ consumed + k \in consumed + 1 .. Len(rx_buffer)
         /\ consumed = 0 => Rest = rx_buffer
<1>1. rx_buffer \in Seq(Byte) /\ consumed \in 0 .. Len(rx_buffer) /\ Len(rx_buffer) \in Nat
  BY DEF TypeInv
<1>2. /\ Rest \in Seq(Byte) /\ Len(Rest) = Available /\ Available \in Nat
      /\ \A k \in 1 .. Available : Rest[k] = rx_buffer[consumed + k]
  BY <1>1 DEF Rest, Available
<1>3. \A k \in 1 .. Available : consumed + k \in consumed + 1 .. Len(rx_buffer)
  BY <1>1 DEF Available
<1>4. consumed = 0 => Rest = rx_buffer
  BY <1>1, SubSeqFull DEF Rest
<1> QED
  BY <1>2, <1>3, <1>4

LEMMA FinishTakes == ASSUME TypeInv, AlwaysRoom, FinishDrain PROVE FinishEffect
<1>1. /\ consumed \in Nat /\ Len(rx_buffer) \in Nat /\ Available \in Nat
      /\ Available = Len(rx_buffer) - consumed
  BY RestIsASequence DEF TypeInv, Available
<1>2. Available < MaxPacketBytes
  <2>1. CASE Available < HeaderBytes
    BY <1>1, <2>1, Sizing
  <2>2. CASE Available >= HeaderBytes
    <3>1. PICK total \in Totals : total <= MaxPacketBytes /\ Available < total
      BY <2>2 DEF FinishDrain, Waits
    <3>2. total \in Nat
      BY <2>2, <3>1, TotalsAreSizes, Sizing
    <3> QED
      BY <1>1, <3>1, <3>2, Sizing
  <2> QED
    BY <1>1, <2>1, <2>2, Sizing
<1>3. ~(consumed = 0 /\ Len(rx_buffer) = RxBufferBytes)
  BY <1>1, <1>2, Sizing
<1>4. rx_buffer' = Rest /\ UNCHANGED peer
  BY <1>3, RestIsASequence DEF FinishDrain, Leftover, Rest
<1> QED
  BY <1>2, <1>4 DEF FinishDrain, past, FinishEffect

-----------------------------------------------------------------------------
\* The other steps of a pump, and those of the ground, by what they change.
Kept == UNCHANGED <<sent, handled, damaged>>

PollEffect ==
  /\ phase = "idle" /\ phase' = "polled" /\ Kept /\ UNCHANGED <<rx_buffer, consumed>>
  /\ \/ /\ UNCHANGED <<waiting, ground, inbound, fresh>> /\ peer' \in {peer, NoPeer}
     \/ /\ waiting # <<>> /\ waiting' = Tail(waiting) /\ UNCHANGED fresh
        /\ ground'  = [ground EXCEPT ![Head(waiting)] = "refused"]
        /\ inbound' = [inbound EXCEPT ![Head(waiting)] = <<>>]
        /\ peer' \in {peer, NoPeer}
     \/ /\ waiting # <<>> /\ waiting' = Tail(waiting) /\ peer' = Head(waiting)
        /\ UNCHANGED <<ground, inbound>>
        /\ \/ rx_buffer = <<>> /\ fresh' = fresh \cup {Head(waiting)}
           \/ rx_buffer # <<>> /\ fresh' = fresh

LEMMA PollTakes == ASSUME Poll PROVE PollEffect
<1>1. CASE NobodyWaits /\ MayFindPeerGone /\ UNCHANGED fresh
  BY <1>1, PeerMayGo DEF Poll, NobodyWaits, PollEffect, Kept
<1>2. CASE RefuseSecond /\ MayFindPeerGone /\ UNCHANGED fresh
  BY <1>2, PeerMayGo DEF Poll, RefuseSecond, PollEffect, Kept
<1>3. CASE AcceptPeer /\ fresh' = IF rx_buffer = <<>> THEN fresh \cup {peer'} ELSE fresh
  BY <1>3 DEF Poll, AcceptPeer, PollEffect, Kept
<1> QED
  BY <1>1, <1>2, <1>3 DEF Poll

SampleEffect ==
  /\ phase = "polled" /\ phase' \in {"receiving", "idle"} /\ Kept
  /\ UNCHANGED <<waiting, ground, inbound, consumed, fresh>> /\ peer' \in {peer, NoPeer}
  /\ rx_buffer' = rx_buffer \/ (rx_buffer' = <<>> /\ peer = NoPeer)

LEMMA SampleTakes == ASSUME SampleConnection PROVE SampleEffect
<1>1. peer' \in {peer, NoPeer}
  BY PeerMayGo DEF SampleConnection
<1> QED
  BY <1>1 DEF SampleConnection, SampleEffect, Kept, connected

ReceiveEffect ==
  /\ phase = "receiving" /\ phase' = "draining" /\ Kept
  /\ UNCHANGED <<waiting, ground, consumed, fresh>>
  /\ \/ UNCHANGED <<inbound, rx_buffer>> /\ peer' \in {peer, NoPeer}
     \/ /\ UNCHANGED peer /\ peer # NoPeer
        /\ \E n \in 1 .. Room :
             /\ n \in 1 .. Len(inbound[peer])
             /\ rx_buffer' = rx_buffer \o SubSeq(inbound[peer], 1, n)
             /\ inbound' = [inbound EXCEPT ![peer] = SubSeq(@, n + 1, Len(@))]

LEMMA ReceiveTakes == ASSUME Receive PROVE ReceiveEffect
<1>1. /\ phase = "receiving" /\ phase' = "draining" /\ Kept /\ UNCHANGED <<consumed, fresh>>
  BY DEF Receive, past, Kept
<1>2. CASE \E n \in 1 .. Room :
             RecvBytes(n) /\ rx_buffer' = rx_buffer \o SubSeq(inbound[peer], 1, n)
  BY <1>1, <1>2 DEF RecvBytes, connected, ReceiveEffect
<1>3. CASE (RecvClosed \/ RecvNothing) /\ UNCHANGED rx_buffer
  BY <1>1, <1>3 DEF RecvClosed, RecvNothing, ClosePeer, connections, ReceiveEffect
<1>4. CASE UNCHANGED <<connections, rx_buffer>>
  BY <1>1, <1>4 DEF connections, ReceiveEffect
<1> QED
  BY <1>2, <1>3, <1>4 DEF Receive

ConnectEffect(s) ==
  /\ ground[s] = "new" /\ ground' = [ground EXCEPT ![s] = "up"]
  /\ waiting' = Append(waiting, s)
  /\ Kept /\ UNCHANGED <<peer, inbound, phase, rx_buffer, consumed, fresh>>

CloseEffect(s) ==
  /\ ground[s] = "up" /\ ground' = [ground EXCEPT ![s] = "gone"]
  /\ inbound' = inbound \/ inbound' = [inbound EXCEPT ![s] = <<>>]
  /\ Kept /\ UNCHANGED <<peer, waiting, phase, rx_buffer, consumed, fresh>>

LEMMA GroundActs ==
  ASSUME GroundConnectsOrLeaves
  PROVE  \E s \in Session : ConnectEffect(s) \/ CloseEffect(s)
BY DEF GroundConnectsOrLeaves, GroundConnect, GroundClose, software, past, ConnectEffect,
       CloseEffect, Kept

\* A packet arrives whole or with one byte damaged.  Only its first byte, if any,
\* says that it is a first byte.
SendEffect(s, n, bytes) ==
  /\ ground[s] = "up" /\ inbound' = [inbound EXCEPT ![s] = @ \o bytes]
  /\ sent' = [sent EXCEPT ![s] = @ + 1]
  /\ Len(bytes) = n
  /\ \A k \in 1 .. n :
       bytes[k][1] = s /\ bytes[k][2] = sent[s] + 1 /\ (bytes[k][3] = 1 => k = 1)
  /\ \/ damaged' = damaged /\ bytes = Intact(s, sent[s] + 1, n)
     \/ damaged' = damaged \cup {s}
  /\ UNCHANGED <<peer, waiting, ground, phase, rx_buffer, consumed, handled, fresh>>

LEMMA IntactIsAPacket ==
  ASSUME NEW s \in Session, NEW i \in Nat, NEW n \in Sizes
  PROVE  /\ Intact(s, i, n) \in Seq(Byte) /\ Len(Intact(s, i, n)) = n /\ n \in Nat \ {0}
         /\ \A k \in 1 .. n : Intact(s, i, n)[k] = <<s, i, k, n>>
<1> DEFINE p == Intact(s, i, n)
<1>1. p = [k \in 1 .. n |-> <<s, i, k, n>>] /\ n \in Nat \ {0}
  BY Sizing DEF Intact
<1> HIDE DEF p
<1>2. \A k \in 1 .. n : <<s, i, k, n>> \in Byte
  BY DEF Byte
<1>3. p \in Seq(Byte) /\ Len(p) = n /\ \A k \in 1 .. n : p[k] = <<s, i, k, n>>
  BY <1>1, <1>2
<1> QED
  BY <1>1, <1>3 DEF p

LEMMA GroundSends ==
  ASSUME TypeInv, NEW s \in Session, GroundSendsPacket(s)
  PROVE  \E n \in Sizes, bytes \in Seq(Byte) : SendEffect(s, n, bytes)
<1>1. sent[s] + 1 \in Nat
  BY DEF TypeInv
<1>2. PICK n \in Sizes :
        LET bytes == Intact(s, sent[s] + 1, n)
        IN \/ GroundSend(s, bytes) /\ UNCHANGED damaged
           \/ /\ \E k \in 1 .. n : GroundSend(s, Damage(bytes, k))
              /\ damaged' = damaged \cup {s}
  BY DEF GroundSendsPacket
<1>3. PICK p \in Seq(Byte) :
        /\ p = Intact(s, sent[s] + 1, n) /\ Len(p) = n /\ n \in Nat \ {0}
        /\ \A k \in 1 .. n : p[k] = <<s, sent[s] + 1, k, n>>
  BY <1>1, IntactIsAPacket
<1>4. CASE GroundSend(s, p) /\ UNCHANGED damaged
  <2>1. SendEffect(s, n, p)
    BY <1>3, <1>4 DEF GroundSendsPacket, GroundSend, software, SendEffect
  <2> QED
    BY <2>1
<1>5. ASSUME NEW k \in 1 .. n, GroundSend(s, Damage(p, k)), damaged' = damaged \cup {s}
      PROVE  \E m \in Sizes, bytes \in Seq(Byte) : SendEffect(s, m, bytes)
  <2>1. PICK d : d = [p EXCEPT ![k] = <<s, sent[s] + 1, 0, n>>]
    OBVIOUS
  <2>2. Damage(p, k) = d
    <3>1. [p[k] EXCEPT ![3] = 0] = <<s, sent[s] + 1, 0, n>>
      BY <1>3
    <3> QED
      BY <2>1, <3>1 DEF Damage
  <2>3. <<s, sent[s] + 1, 0, n>> \in Byte
    BY <1>1 DEF Byte
  <2>4. /\ d \in Seq(Byte) /\ Len(d) = n
        /\ \A j \in 1 .. n : d[j] = IF j = k THEN <<s, sent[s] + 1, 0, n>> ELSE p[j]
    BY <1>3, <2>1, <2>3, ExceptSeq
  <2>5. \A j \in 1 .. n :
          d[j][1] = s /\ d[j][2] = sent[s] + 1 /\ (d[j][3] = 1 => j = 1)
    <3> TAKE j \in 1 .. n
    <3>1. CASE j = k
      <4>1. d[j] = <<s, sent[s] + 1, 0, n>>
        BY <2>4, <3>1
      <4> QED
        BY <4>1
    <3>2. CASE j # k
      <4>1. d[j] = <<s, sent[s] + 1, j, n>>
        BY <1>3, <2>4, <3>2
      <4> QED
        BY <4>1
    <3> QED
      BY <3>1, <3>2
  <2>6. SendEffect(s, n, d)
    BY <1>5, <2>2, <2>4, <2>5 DEF GroundSendsPacket, GroundSend, software, SendEffect
  <2> QED
    BY <2>4, <2>6
<1> QED
  BY <1>2, <1>3, <1>4, <1>5

-----------------------------------------------------------------------------
LEMMA NextActs ==
  ASSUME TypeInv, AlwaysRoom, Next
  PROVE  \/ PollEffect \/ SampleEffect \/ ReceiveEffect \/ DrainEffect \/ FinishEffect
         \/ \E s \in Session : ConnectEffect(s) \/ CloseEffect(s)
         \/ \E s \in Session, n \in Sizes, bytes \in Seq(Byte) : SendEffect(s, n, bytes)
BY PollTakes, SampleTakes, ReceiveTakes, DrainTakes, FinishTakes, GroundActs, GroundSends
   DEF Next, Pump

\* A connection that waits is that of a session.
LEMMA FirstWaiting ==
  ASSUME TypeInv, waiting # <<>>
  PROVE  /\ Head(waiting) \in Session /\ Tail(waiting) \in Seq(Session)
         /\ Len(waiting) \in Nat \ {0} /\ Len(Tail(waiting)) = Len(waiting) - 1
         /\ Head(waiting) = waiting[1] /\ 1 \in DOMAIN waiting
         /\ \A k \in 1 .. Len(waiting) - 1 :
              Tail(waiting)[k] = waiting[k + 1] /\ k + 1 \in DOMAIN waiting
<1>1. waiting \in Seq(Session)
  BY DEF TypeInv
<1> QED
  BY <1>1

\* What recv() takes from the peer and what it leaves.
LEMMA Received ==
  ASSUME TypeInv, NEW s \in Session, NEW n \in 1 .. Len(inbound[s])
  PROVE  LET taken == SubSeq(inbound[s], 1, n)
             left  == SubSeq(inbound[s], n + 1, Len(inbound[s]))
         IN /\ taken \in Seq(Byte) /\ left \in Seq(Byte)
            /\ Len(taken) = n /\ Len(left) = Len(inbound[s]) - n
            /\ \A k \in 1 .. n : taken[k] = inbound[s][k] /\ k \in DOMAIN inbound[s]
            /\ \A k \in 1 .. Len(left) :
                 left[k] = inbound[s][n + k] /\ n + k \in DOMAIN inbound[s]
            /\ rx_buffer \o taken \in Seq(Byte)
            /\ Len(rx_buffer \o taken) = Len(rx_buffer) + n
            /\ \A k \in 1 .. Len(rx_buffer) : (rx_buffer \o taken)[k] = rx_buffer[k]
            /\ \A k \in 1 .. n : (rx_buffer \o taken)[Len(rx_buffer) + k] = inbound[s][k]
            /\ taken \o left = inbound[s]
<1>1. inbound[s] \in Seq(Byte) /\ rx_buffer \in Seq(Byte)
  BY DEF TypeInv
<1>2. PICK q \in Seq(Byte) : q = inbound[s]
  BY <1>1
<1>3. PICK t \in Seq(Byte) : t = SubSeq(q, 1, n) /\ Len(t) = n /\ \A k \in 1 .. n : t[k] = q[k]
  <2>1. /\ SubSeq(q, 1, n) \in Seq(Byte) /\ Len(SubSeq(q, 1, n)) = n
        /\ \A k \in 1 .. n : SubSeq(q, 1, n)[k] = q[k]
    BY <1>2
  <2> QED
    BY <2>1
<1>4. PICK u \in Seq(Byte) :
        /\ u = SubSeq(q, n + 1, Len(q)) /\ Len(u) = Len(q) - n
        /\ \A k \in 1 .. Len(u) : u[k] = q[n + k] /\ n + k \in DOMAIN q
  <2>1. /\ SubSeq(q, n + 1, Len(q)) \in Seq(Byte)
        /\ Len(SubSeq(q, n + 1, Len(q))) = Len(q) - n
        /\ \A k \in 1 .. Len(q) - n : SubSeq(q, n + 1, Len(q))[k] = q[n + k]
    BY <1>2
  <2>2. \A k \in 1 .. Len(q) - n : n + k \in DOMAIN q
    BY <1>2
  <2> QED
    BY <2>1, <2>2
<1>5. t \o u = q
  BY <1>2, <1>3, <1>4
<1>6. /\ rx_buffer \o t \in Seq(Byte) /\ Len(rx_buffer \o t) = Len(rx_buffer) + n
      /\ \A k \in 1 .. Len(rx_buffer) : (rx_buffer \o t)[k] = rx_buffer[k]
      /\ \A k \in 1 .. n : (rx_buffer \o t)[Len(rx_buffer) + k] = t[k]
  BY <1>1, <1>3
<1>7. \A k \in 1 .. n : k \in DOMAIN q
  BY <1>2
<1> QED
  BY <1>2, <1>3, <1>4, <1>5, <1>6, <1>7

LEMMA SessionsArePeers == Session \subseteq Nat \ {0} /\ NoPeer \notin Session
BY SessionsAssumption DEF Session, NoPeer

LEMMA TypeStep == TypeInv /\ AlwaysRoom /\ [Next]_vars => TypeInv' /\ AlwaysRoom'
<1> SUFFICES ASSUME TypeInv, AlwaysRoom, [Next]_vars PROVE TypeInv' /\ AlwaysRoom'
  OBVIOUS
<1> USE DEF TypeInv, AlwaysRoom
<1>1. CASE UNCHANGED vars
  BY <1>1 DEF vars, connections, software, past
<1>2. CASE PollEffect
  <2>1. /\ waiting' \in Seq(Session) /\ peer' \in Session \cup {NoPeer}
        /\ fresh' \in SUBSET Session
    BY <1>2, FirstWaiting DEF PollEffect
  <2>2. ground' \in [Session -> {"new", "up", "gone", "refused"}]
    BY <1>2, FirstWaiting DEF PollEffect
  <2>3. inbound' \in [Session -> Seq(Byte)]
    <3>1. <<>> \in Seq(Byte)
      OBVIOUS
    <3> QED
      BY <1>2, <3>1, FirstWaiting DEF PollEffect
  <2> QED
    BY <1>2, <2>1, <2>2, <2>3 DEF PollEffect, Kept
<1>3. CASE SampleEffect
  <2>1. <<>> \in Seq(Byte) /\ Len(<<>>) = 0
    OBVIOUS
  <2>2. consumed = 0
    BY <1>3 DEF SampleEffect
  <2>3. rx_buffer' \in Seq(Byte) /\ Len(rx_buffer') \in Nat /\ Len(rx_buffer') < MaxPacketBytes
    <3>1. Len(rx_buffer) < MaxPacketBytes /\ 0 < MaxPacketBytes
      BY <1>3, Sizing DEF SampleEffect
    <3>2. CASE rx_buffer' = rx_buffer
      BY <3>1, <3>2
    <3>3. CASE rx_buffer' = <<>>
      BY <2>1, <3>1, <3>3
    <3> QED
      BY <1>3, <3>2, <3>3 DEF SampleEffect
  <2> QED
    BY <1>3, <2>2, <2>3, Sizing, SMTT(30) DEF SampleEffect, Kept
<1>4. CASE ReceiveEffect
  <2>1. CASE UNCHANGED <<inbound, rx_buffer>> /\ peer' \in {peer, NoPeer}
    BY <1>4, <2>1 DEF ReceiveEffect, Kept
  <2>2. CASE UNCHANGED peer /\ peer # NoPeer /\
             \E n \in 1 .. Room :
               /\ n \in 1 .. Len(inbound[peer])
               /\ rx_buffer' = rx_buffer \o SubSeq(inbound[peer], 1, n)
               /\ inbound' = [inbound EXCEPT ![peer] = SubSeq(@, n + 1, Len(@))]
    <3>1. PICK n \in 1 .. Room :
            /\ n \in 1 .. Len(inbound[peer])
            /\ rx_buffer' = rx_buffer \o SubSeq(inbound[peer], 1, n)
            /\ inbound' = [inbound EXCEPT ![peer] = SubSeq(@, n + 1, Len(@))]
      BY <2>2
    <3>2. peer \in Session
      BY <2>2
    <3>3. /\ rx_buffer' \in Seq(Byte) /\ Len(rx_buffer') = Len(rx_buffer) + n
          /\ inbound' \in [Session -> Seq(Byte)]
      BY <3>1, <3>2, Received
    <3>4. Len(rx_buffer') <= RxBufferBytes
      BY <3>1, <3>3, Sizing DEF Room
    <3> QED
      BY <1>4, <2>2, <3>3, <3>4 DEF ReceiveEffect, Kept
  <2> QED
    BY <1>4, <2>1, <2>2 DEF ReceiveEffect
<1>5. CASE DrainEffect
  <2>1. handled' \in Seq(Session \X Nat)
    <3>1. At(1) \in Byte
      BY <1>5, TotalsAreSizes DEF DrainEffect
    <3>2. <<At(1)[1], At(1)[2]>> \in Session \X Nat
      BY <3>1, ByteFields
    <3>3. PICK h \in Session \X Nat : h = <<At(1)[1], At(1)[2]>>
      BY <3>2
    <3>4. Append(handled, h) \in Seq(Session \X Nat)
      OBVIOUS
    <3>5. handled' = handled \/ handled' = Append(handled, h)
      BY <1>5, <3>3 DEF DrainEffect
    <3> QED
      BY <3>4, <3>5
  <2>2. consumed' \in 0 .. Len(rx_buffer')
    BY <1>5 DEF DrainEffect
  <2> QED
    BY <1>5, <2>1, <2>2 DEF DrainEffect
<1>6. CASE FinishEffect
  BY <1>6, RestIsASequence, Sizing DEF FinishEffect
<1>7. ASSUME NEW s \in Session, ConnectEffect(s) PROVE TypeInv' /\ AlwaysRoom'
  BY <1>7 DEF ConnectEffect, Kept
<1>8. ASSUME NEW s \in Session, CloseEffect(s) PROVE TypeInv' /\ AlwaysRoom'
  <2>1. <<>> \in Seq(Byte)
    OBVIOUS
  <2>2. inbound' \in [Session -> Seq(Byte)]
    BY <1>8, <2>1 DEF CloseEffect
  <2> QED
    BY <1>8, <2>2 DEF CloseEffect, Kept
<1>9. ASSUME NEW s \in Session, NEW n \in Sizes, NEW bytes \in Seq(Byte), SendEffect(s, n, bytes)
      PROVE  TypeInv' /\ AlwaysRoom'
  <2>1. inbound' \in [Session -> Seq(Byte)] /\ sent' \in [Session -> Nat]
    BY <1>9 DEF SendEffect
  <2>2. damaged' \in SUBSET Session
    BY <1>9 DEF SendEffect
  <2> QED
    BY <1>9, <2>1, <2>2 DEF SendEffect
<1> QED
  BY <1>1, <1>2, <1>3, <1>4, <1>5, <1>6, <1>7, <1>8, <1>9, NextActs

LEMMA TypeInit == Init => TypeInv /\ AlwaysRoom
<1> SUFFICES ASSUME Init PROVE TypeInv /\ AlwaysRoom
  OBVIOUS
<1>1. <<>> \in Seq(Session) /\ <<>> \in Seq(Byte) /\ <<>> \in Seq(Session \X Nat) /\ Len(<<>>) = 0
  OBVIOUS
<1>2. /\ peer = NoPeer /\ waiting = <<>>
      /\ ground = [s \in Session |-> "new"] /\ inbound = [s \in Session |-> <<>>]
  BY DEF Init, SessionsInit
<1>3. TypeInv
  BY <1>1, <1>2 DEF Init, TypeInv
<1>4. AlwaysRoom
  BY <1>1, Sizing DEF Init, AlwaysRoom
<1> QED
  BY <1>3, <1>4

\* The buffer cannot fill up, whatever was received: when the uplink is read, a
\* packet of any size still fits behind what was carried over.
THEOREM RoomToReceive == Spec => []AlwaysRoom
<1>1. Spec => [](TypeInv /\ AlwaysRoom)
  BY TypeInit, TypeStep, PTL DEF Spec
<1> QED
  BY <1>1, PTL

-----------------------------------------------------------------------------
LEMMA Arrived ==
  ASSUME TypeInv, NEW s \in Session, NEW n \in Nat, NEW bytes \in Seq(Byte), Len(bytes) = n,
         inbound' = [inbound EXCEPT ![s] = @ \o bytes]
  PROVE  /\ inbound'[s] = inbound[s] \o bytes
         /\ inbound'[s] \in Seq(Byte) /\ Len(inbound'[s]) = Len(inbound[s]) + n
         /\ \A k \in 1 .. Len(inbound[s]) : inbound'[s][k] = inbound[s][k]
         /\ \A k \in 1 .. n : inbound'[s][Len(inbound[s]) + k] = bytes[k]
         /\ \A k \in 1 .. Len(inbound'[s]) :
              k \in 1 .. Len(inbound[s]) \/ k - Len(inbound[s]) \in 1 .. n
         /\ \A r \in Session : r # s => inbound'[r] = inbound[r]
<1>1. inbound \in [Session -> Seq(Byte)]
  BY DEF TypeInv
<1>2. PICK q \in Seq(Byte) : q = inbound[s]
  BY <1>1
<1>3. inbound'[s] = q \o bytes /\ \A r \in Session : r # s => inbound'[r] = inbound[r]
  BY <1>1, <1>2
<1>4. /\ q \o bytes \in Seq(Byte) /\ Len(q \o bytes) = Len(q) + n
      /\ \A k \in 1 .. Len(q) : (q \o bytes)[k] = q[k]
      /\ \A k \in 1 .. n : (q \o bytes)[Len(q) + k] = bytes[k]
  OBVIOUS
<1>5. \A k \in 1 .. Len(q) + n : k \in 1 .. Len(q) \/ k - Len(q) \in 1 .. n
  OBVIOUS
<1> QED
  BY <1>2, <1>3, <1>4, <1>5

\* What holds of every session when those still to be taken, the peer and the
\* sessions the bytes are of can only have been such before.
LEMMA TakenFrom ==
  ASSUME TypeInv, TypeInv', TakenInv,
         \A s \in Session : Untaken(s)' => Untaken(s) /\ s # peer' /\ s \notin fresh',
         \A s \in Session : ground'[s] = "new" => ground[s] = "new" /\ inbound'[s] = inbound[s]
                                                  /\ sent'[s] = sent[s],
         \A s \in Session : \A k \in DOMAIN inbound'[s] : inbound'[s][k][1] = s,
         \A k \in DOMAIN rx_buffer' :
           \/ rx_buffer'[k][1] = peer
           \/ \E j \in DOMAIN rx_buffer : rx_buffer'[k][1] = rx_buffer[j][1],
         \A k \in DOMAIN handled' :
           \/ \E j \in DOMAIN rx_buffer : handled'[k][1] = rx_buffer[j][1]
           \/ \E j \in DOMAIN handled : handled'[k][1] = handled[j][1],
         \A j, k \in DOMAIN waiting' : j < k => waiting'[j] # waiting'[k],
         \A k \in DOMAIN waiting' : ground'[waiting'[k]] # "new"
  PROVE  TakenInv'
<1> SUFFICES ASSUME NEW s \in Session
             PROVE  /\ \A k \in DOMAIN inbound'[s] : inbound'[s][k][1] = s
                    /\ Untaken(s)' =>
                         /\ s # peer' /\ s \notin fresh'
                         /\ \A k \in DOMAIN rx_buffer' : rx_buffer'[k][1] # s
                         /\ \A k \in DOMAIN handled' : handled'[k][1] # s
                    /\ ground'[s] = "new" => inbound'[s] = <<>> /\ sent'[s] = 0
  BY DEF TakenInv
<1>1. ground[s] = "new" => inbound[s] = <<>> /\ sent[s] = 0
  BY DEF TakenInv
<1>2. ASSUME Untaken(s)'
      PROVE  /\ \A k \in DOMAIN rx_buffer' : rx_buffer'[k][1] # s
             /\ \A k \in DOMAIN handled' : handled'[k][1] # s
  <2>1. /\ s # peer /\ \A k \in DOMAIN rx_buffer : rx_buffer[k][1] # s
        /\ \A k \in DOMAIN handled : handled[k][1] # s
    BY <1>2 DEF TakenInv
  <2>2. \A k \in DOMAIN rx_buffer' : rx_buffer'[k][1] # s
    BY <2>1
  <2>3. \A k \in DOMAIN handled' : handled'[k][1] # s
    BY <2>1
  <2> QED
    BY <2>2, <2>3
<1> QED
  BY <1>1, <1>2

\* The same, of a step that leaves the line of those waiting and the ground alone.
LEMMA TakenAlone ==
  ASSUME TypeInv, TypeInv', TakenInv, UNCHANGED <<waiting, ground, fresh>>,
         peer' \in {peer, NoPeer},
         \A s \in Session : ground[s] = "new" => inbound'[s] = inbound[s] /\ sent'[s] = sent[s],
         \A s \in Session : \A k \in DOMAIN inbound'[s] : inbound'[s][k][1] = s,
         \A k \in DOMAIN rx_buffer' :
           \/ rx_buffer'[k][1] = peer
           \/ \E j \in DOMAIN rx_buffer : rx_buffer'[k][1] = rx_buffer[j][1],
         \A k \in DOMAIN handled' :
           \/ \E j \in DOMAIN rx_buffer : handled'[k][1] = rx_buffer[j][1]
           \/ \E j \in DOMAIN handled : handled'[k][1] = handled[j][1]
  PROVE  TakenInv'
<1>1. \A s \in Session : Untaken(s)' => Untaken(s) /\ s # peer' /\ s \notin fresh'
  <2>1. \A s \in Session : Untaken(s)' => Untaken(s)
    BY DEF Untaken
  <2>2. \A s \in Session : Untaken(s) => s # peer /\ s \notin fresh
    BY DEF TakenInv
  <2> QED
    BY <2>1, <2>2, SessionsArePeers
<1>2. /\ \A j, k \in DOMAIN waiting' : j < k => waiting'[j] # waiting'[k]
      /\ \A k \in DOMAIN waiting' : ground'[waiting'[k]] # "new"
  BY DEF TakenInv
<1> QED
  BY <1>1, <1>2, TakenFrom

\* The line of those waiting without its first.
LEMMA TailOfWaiting ==
  ASSUME TypeInv, TypeInv', TakenInv, waiting # <<>>, waiting' = Tail(waiting)
  PROVE  /\ \A k \in DOMAIN waiting' : k + 1 \in DOMAIN waiting /\ waiting'[k] = waiting[k + 1]
         /\ \A k \in DOMAIN waiting' : waiting'[k] # Head(waiting)
         /\ \A j, k \in DOMAIN waiting' : j < k => waiting'[j] # waiting'[k]
         /\ Head(waiting) \in Session /\ ground[Head(waiting)] # "new" /\ Untaken(Head(waiting))
         /\ \A k \in DOMAIN waiting' : ground[waiting'[k]] # "new" /\ waiting'[k] \in Session
<1>1. /\ Head(waiting) \in Session /\ Head(waiting) = waiting[1] /\ 1 \in DOMAIN waiting
      /\ DOMAIN waiting' = 1 .. Len(waiting) - 1 /\ DOMAIN waiting = 1 .. Len(waiting)
  BY FirstWaiting DEF TypeInv
<1>2. \A k \in DOMAIN waiting' : k + 1 \in DOMAIN waiting /\ waiting'[k] = waiting[k + 1]
  BY <1>1, FirstWaiting
<1>3. \A j, k \in DOMAIN waiting : j < k => waiting[j] # waiting[k]
  BY DEF TakenInv
<1>4. \A k \in DOMAIN waiting' : waiting'[k] # Head(waiting)
  BY <1>1, <1>2, <1>3
<1>5. \A j, k \in DOMAIN waiting' : j < k => waiting'[j] # waiting'[k]
  BY <1>1, <1>2, <1>3
<1>6. ground[Head(waiting)] # "new" /\ Untaken(Head(waiting))
  BY <1>1 DEF TakenInv, Untaken
<1>7. \A k \in DOMAIN waiting' : ground[waiting'[k]] # "new" /\ waiting'[k] \in Session
  BY <1>2 DEF TakenInv, TypeInv
<1> QED
  BY <1>1, <1>2, <1>4, <1>5, <1>6, <1>7

LEMMA TakenStep ==
  ASSUME TypeInv, TypeInv', AlwaysRoom, TakenInv, [Next]_vars
  PROVE  TakenInv'
<1> DEFINE OfPeers ==
      /\ \A k \in DOMAIN rx_buffer' :
           \/ rx_buffer'[k][1] = peer
           \/ \E j \in DOMAIN rx_buffer : rx_buffer'[k][1] = rx_buffer[j][1]
      /\ \A k \in DOMAIN handled' :
           \/ \E j \in DOMAIN rx_buffer : handled'[k][1] = rx_buffer[j][1]
           \/ \E j \in DOMAIN handled : handled'[k][1] = handled[j][1]
<1> DEFINE OwnBytes == \A s \in Session : \A k \in DOMAIN inbound'[s] : inbound'[s][k][1] = s
<1>a. UNCHANGED <<rx_buffer, handled>> => OfPeers
  OBVIOUS
<1>b. UNCHANGED inbound => OwnBytes
  BY DEF TakenInv
<1>c. ASSUME NEW s \in Session, inbound' = [inbound EXCEPT ![s] = <<>>]
      PROVE  OwnBytes /\ \A r \in Session : r # s => inbound'[r] = inbound[r]
  <2>1. DOMAIN <<>> = {}
    OBVIOUS
  <2>2. \A r \in Session : inbound'[r] = inbound[r] \/ inbound'[r] = <<>>
    BY <1>c DEF TypeInv
  <2>3. OwnBytes
    BY <2>1, <2>2 DEF TakenInv
  <2> QED
    BY <1>c, <2>3 DEF TypeInv
<1> HIDE DEF OfPeers, OwnBytes
<1>1. CASE UNCHANGED vars
  <2>1. /\ UNCHANGED <<rx_buffer, handled>> /\ UNCHANGED inbound
        /\ UNCHANGED <<waiting, ground, fresh>> /\ peer' = peer /\ sent' = sent
    BY <1>1 DEF vars, connections, software, past
  <2> QED
    BY <1>a, <1>b, <2>1, TakenAlone DEF OfPeers, OwnBytes
<1>2. CASE PollEffect
  <2>1. OfPeers /\ sent' = sent
    BY <1>2, <1>a DEF PollEffect, Kept
  <2>2. CASE UNCHANGED <<waiting, ground, inbound, fresh>> /\ peer' \in {peer, NoPeer}
    BY <1>b, <2>1, <2>2, TakenAlone DEF OfPeers, OwnBytes
  <2>3. ASSUME waiting # <<>>, waiting' = Tail(waiting)
        PROVE  /\ \A k \in DOMAIN waiting' : k + 1 \in DOMAIN waiting /\ waiting'[k] = waiting[k + 1]
               /\ \A k \in DOMAIN waiting' : waiting'[k] # Head(waiting)
               /\ \A j, k \in DOMAIN waiting' : j < k => waiting'[j] # waiting'[k]
               /\ Head(waiting) \in Session /\ ground[Head(waiting)] # "new" /\ Untaken(Head(waiting))
               /\ \A k \in DOMAIN waiting' : ground[waiting'[k]] # "new" /\ waiting'[k] \in Session
    BY <2>3, TailOfWaiting
  <2>4. CASE /\ waiting # <<>> /\ waiting' = Tail(waiting) /\ UNCHANGED fresh
             /\ ground'  = [ground EXCEPT ![Head(waiting)] = "refused"]
             /\ inbound' = [inbound EXCEPT ![Head(waiting)] = <<>>]
             /\ peer' \in {peer, NoPeer}
    <3>1. \A s \in Session :
            ground'[s] = IF s = Head(waiting) THEN "refused" ELSE ground[s]
      BY <2>3, <2>4 DEF TypeInv
    <3>2. \A s \in Session : Untaken(s)' => Untaken(s) /\ s # peer' /\ s \notin fresh'
      <4>1. \A s \in Session : Untaken(s)' => Untaken(s)
        BY <2>3, <2>4, <3>1 DEF Untaken
      <4>2. \A s \in Session : Untaken(s) => s # peer /\ s \notin fresh
        BY DEF TakenInv
      <4> QED
        BY <2>4, <4>1, <4>2, SessionsArePeers
    <3>3. OwnBytes /\ \A s \in Session : ground'[s] = "new" => ground[s] = "new" /\ inbound'[s] = inbound[s]
      <4>1. PICK h \in Session : h = Head(waiting)
        BY <2>3, <2>4
      <4>2. inbound' = [inbound EXCEPT ![h] = <<>>]
        BY <2>4, <4>1
      <4>3. OwnBytes /\ \A s \in Session : s # h => inbound'[s] = inbound[s]
        BY <1>c, <4>2
      <4>4. \A s \in Session : ground'[s] = "new" => s # h /\ ground[s] = "new"
        BY <3>1, <4>1
      <4> QED
        BY <4>3, <4>4
    <3>4. \A k \in DOMAIN waiting' : ground'[waiting'[k]] # "new"
      BY <2>3, <2>4, <3>1
    <3> QED
      BY <2>1, <2>3, <2>4, <3>2, <3>3, <3>4, TakenFrom DEF OfPeers, OwnBytes
  <2>5. CASE /\ waiting # <<>> /\ waiting' = Tail(waiting) /\ peer' = Head(waiting)
             /\ UNCHANGED <<ground, inbound>> /\ fresh' \subseteq fresh \cup {Head(waiting)}
    <3>1. \A s \in Session : Untaken(s)' => Untaken(s) /\ s # peer' /\ s \notin fresh'
      <4>1. \A s \in Session : Untaken(s)' => Untaken(s) /\ s # Head(waiting)
        BY <2>3, <2>5 DEF Untaken
      <4>2. \A s \in Session : Untaken(s) => s \notin fresh
        BY DEF TakenInv
      <4> QED
        BY <2>5, <4>1, <4>2
    <3> QED
      BY <1>b, <2>1, <2>3, <2>5, <3>1, TakenFrom DEF OfPeers, OwnBytes
  <2> QED
    BY <1>2, <2>2, <2>4, <2>5 DEF PollEffect
<1>3. CASE SampleEffect
  <2>1. OfPeers
    <3>1. DOMAIN <<>> = {}
      OBVIOUS
    <3> QED
      BY <1>3, <3>1 DEF SampleEffect, Kept, OfPeers
  <2> QED
    BY <1>3, <1>b, <2>1, TakenAlone DEF SampleEffect, Kept, OfPeers, OwnBytes
<1>4. CASE ReceiveEffect
  <2>1. CASE UNCHANGED <<inbound, rx_buffer>> /\ peer' \in {peer, NoPeer}
    BY <1>4, <1>a, <1>b, <2>1, TakenAlone DEF ReceiveEffect, Kept, OfPeers, OwnBytes
  <2>2. ASSUME UNCHANGED peer, peer # NoPeer, NEW n \in 1 .. Len(inbound[peer]),
               rx_buffer' = rx_buffer \o SubSeq(inbound[peer], 1, n),
               inbound' = [inbound EXCEPT ![peer] = SubSeq(@, n + 1, Len(@))]
        PROVE  TakenInv'
    <3>1. peer \in Session
      BY <2>2 DEF TypeInv
    <3>2. /\ inbound'[peer] = SubSeq(inbound[peer], n + 1, Len(inbound[peer]))
          /\ \A s \in Session : s # peer => inbound'[s] = inbound[s]
      BY <2>2, <3>1 DEF TypeInv
    <3>3. \A s \in Session : \A k \in DOMAIN inbound[s] : inbound[s][k][1] = s
      BY DEF TakenInv
    <3>4. OwnBytes
      <4>1. \A k \in DOMAIN inbound'[peer] :
              \E j \in DOMAIN inbound[peer] : inbound'[peer][k] = inbound[peer][j]
        <5> DEFINE left == SubSeq(inbound[peer], n + 1, Len(inbound[peer]))
        <5>1. /\ left \in Seq(Byte)
              /\ \A k \in 1 .. Len(left) :
                   left[k] = inbound[peer][n + k] /\ n + k \in DOMAIN inbound[peer]
          BY <2>2, <3>1, Received
        <5>2. inbound'[peer] = left
          BY <3>2
        <5> HIDE DEF left
        <5>3. DOMAIN left = 1 .. Len(left)
          BY <5>1
        <5> QED
          BY <5>1, <5>2, <5>3
      <4>2. \A k \in DOMAIN inbound'[peer] : inbound'[peer][k][1] = peer
        BY <3>1, <3>3, <4>1
      <4> QED
        BY <3>2, <3>3, <4>2 DEF OwnBytes
    <3>5. OfPeers
      <4> SUFFICES ASSUME NEW k \in DOMAIN rx_buffer'
                   PROVE  \/ rx_buffer'[k][1] = peer
                          \/ \E j \in DOMAIN rx_buffer : rx_buffer'[k][1] = rx_buffer[j][1]
        BY <1>4 DEF ReceiveEffect, Kept, OfPeers
      <4>1. DOMAIN rx_buffer' = 1 .. Len(rx_buffer) + n /\ DOMAIN rx_buffer = 1 .. Len(rx_buffer)
        BY <2>2, <3>1, Received DEF TypeInv
      <4>2. CASE k \in 1 .. Len(rx_buffer)
        BY <2>2, <3>1, <4>1, <4>2, Received
      <4>3. CASE k \notin 1 .. Len(rx_buffer)
        <5>1. k - Len(rx_buffer) \in 1 .. n /\ k = Len(rx_buffer) + (k - Len(rx_buffer))
          <6>1. Len(rx_buffer) \in Nat /\ n \in Nat /\ k \in 1 .. Len(rx_buffer) + n
            BY <3>1, <4>1 DEF TypeInv
          <6> QED
            BY <4>3, <6>1
        <5>2. PICK i \in 1 .. n : i = k - Len(rx_buffer)
          BY <5>1
        <5>3. rx_buffer'[k] = inbound[peer][i] /\ i \in DOMAIN inbound[peer]
          BY <2>2, <3>1, <5>1, <5>2, Received, SMTT(30)
        <5> QED
          BY <3>1, <3>3, <5>3
      <4> QED
        BY <4>2, <4>3
    <3>6. \A s \in Session : ground[s] = "new" => inbound'[s] = inbound[s]
      BY <3>1, <3>2 DEF TakenInv, Untaken
    <3> QED
      BY <1>4, <2>2, <3>4, <3>5, <3>6, TakenAlone DEF ReceiveEffect, Kept, OfPeers, OwnBytes
  <2> QED
    BY <1>4, <2>1, <2>2 DEF ReceiveEffect
<1>5. CASE DrainEffect
  <2>1. OfPeers
    <3>1. consumed + 1 \in DOMAIN rx_buffer /\ At(1) = rx_buffer[consumed + 1]
      BY <1>5, TotalsAreSizes DEF DrainEffect, TypeInv, At
    <3>2. PICK h \in Session \X Nat : h = <<At(1)[1], At(1)[2]>>
      <4>1. At(1) \in Byte
        BY <1>5, TotalsAreSizes DEF DrainEffect
      <4> QED
        BY <4>1, ByteFields
    <3>3. h[1] = rx_buffer[consumed + 1][1]
      BY <3>1, <3>2
    <3>4. \A k \in DOMAIN Append(handled, h) :
            Append(handled, h)[k] = h \/ (k \in DOMAIN handled /\ Append(handled, h)[k] = handled[k])
      <4>1. handled \in Seq(Session \X Nat)
        BY DEF TypeInv
      <4>2. /\ DOMAIN Append(handled, h) = 1 .. Len(handled) + 1 /\ DOMAIN handled = 1 .. Len(handled)
            /\ Len(handled) \in Nat /\ Append(handled, h)[Len(handled) + 1] = h
            /\ \A k \in 1 .. Len(handled) : Append(handled, h)[k] = handled[k]
        BY <4>1
      <4> QED
        BY <4>2
    <3>5. handled' = handled \/ handled' = Append(handled, h)
      BY <1>5, <3>2 DEF DrainEffect
    <3> QED
      BY <1>5, <3>1, <3>3, <3>4, <3>5 DEF DrainEffect, OfPeers
  <2> QED
    BY <1>5, <1>b, <2>1, TakenAlone DEF DrainEffect, OfPeers, OwnBytes
<1>6. CASE FinishEffect
  <2>1. OfPeers
    <3>1. \A k \in DOMAIN rx_buffer' : \E j \in DOMAIN rx_buffer : rx_buffer'[k] = rx_buffer[j]
      <4>1. PICK rest \in Seq(Byte) : rest = Rest
        BY RestIsASequence
      <4>2. DOMAIN rest = 1 .. Available /\ rx_buffer' = rest
        BY <1>6, <4>1, RestIsASequence DEF FinishEffect
      <4>3. \A k \in 1 .. Available : rest[k] = rx_buffer[consumed + k] /\ consumed + k \in DOMAIN rx_buffer
        <5>1. DOMAIN rx_buffer = 1 .. Len(rx_buffer) /\ consumed \in Nat /\ Len(rx_buffer) \in Nat
              /\ Available \in Nat /\ Available = Len(rx_buffer) - consumed
          BY RestIsASequence DEF TypeInv, Available
        <5>2. \A k \in 1 .. Available : consumed + k \in 1 .. Len(rx_buffer)
          BY <5>1
        <5>3. \A k \in 1 .. Available : rest[k] = rx_buffer[consumed + k]
          BY <4>1, RestIsASequence
        <5> QED
          BY <5>1, <5>2, <5>3
      <4> QED
        BY <4>2, <4>3
    <3> QED
      BY <1>6, <3>1 DEF FinishEffect, OfPeers
  <2> QED
    BY <1>6, <1>b, <2>1, TakenAlone DEF FinishEffect, OfPeers, OwnBytes
<1>7. ASSUME NEW s \in Session, ConnectEffect(s) PROVE TakenInv'
  <2>1. waiting \in Seq(Session)
    BY DEF TypeInv
  <2>2. /\ DOMAIN waiting' = 1 .. Len(waiting) + 1 /\ DOMAIN waiting = 1 .. Len(waiting)
        /\ Len(waiting) \in Nat /\ waiting'[Len(waiting) + 1] = s
        /\ \A k \in 1 .. Len(waiting) : waiting'[k] = waiting[k]
    BY <1>7, <2>1 DEF ConnectEffect
  <2>3. \A k \in 1 .. Len(waiting) : waiting[k] # s /\ ground[waiting[k]] # "new" /\ waiting[k] \in Session
    BY <1>7, <2>1, <2>2 DEF ConnectEffect, TakenInv
  <2>4. \A r \in Session : ground'[r] = IF r = s THEN "up" ELSE ground[r]
    BY <1>7 DEF ConnectEffect, TypeInv
  <2>5. \A j, k \in DOMAIN waiting' : j < k => waiting'[j] # waiting'[k]
    BY <2>2, <2>3 DEF TakenInv
  <2>6. \A k \in DOMAIN waiting' : ground'[waiting'[k]] # "new"
    BY <2>2, <2>3, <2>4
  <2>7. \A r \in Session : Untaken(r)' => Untaken(r) /\ r # peer' /\ r \notin fresh'
    <3>1. \A r \in Session : Untaken(r)' => Untaken(r)
      BY <1>7, <2>2, <2>4 DEF Untaken, ConnectEffect
    <3> QED
      BY <1>7, <3>1 DEF ConnectEffect, TakenInv
  <2> QED
    BY <1>7, <1>a, <1>b, <2>4, <2>5, <2>6, <2>7, TakenFrom
       DEF ConnectEffect, Kept, OfPeers, OwnBytes
<1>8. ASSUME NEW s \in Session, CloseEffect(s) PROVE TakenInv'
  <2>1. \A r \in Session : ground'[r] = IF r = s THEN "gone" ELSE ground[r]
    BY <1>8 DEF CloseEffect, TypeInv
  <2>2. \A r \in Session : Untaken(r)' => Untaken(r) /\ r # peer' /\ r \notin fresh'
    <3>1. \A r \in Session : Untaken(r)' => Untaken(r)
      BY <1>8, <2>1 DEF Untaken, CloseEffect
    <3> QED
      BY <1>8, <3>1 DEF CloseEffect, TakenInv
  <2>3. OwnBytes /\ \A r \in Session : r # s => inbound'[r] = inbound[r]
    BY <1>8, <1>b, <1>c DEF CloseEffect
  <2>4. /\ \A j, k \in DOMAIN waiting' : j < k => waiting'[j] # waiting'[k]
        /\ \A k \in DOMAIN waiting' : ground'[waiting'[k]] # "new"
    BY <1>8, <2>1 DEF CloseEffect, TakenInv, TypeInv
  <2> QED
    BY <1>8, <1>a, <2>1, <2>2, <2>3, <2>4, TakenFrom DEF CloseEffect, Kept, OfPeers, OwnBytes
<1>9. ASSUME NEW s \in Session, NEW n \in Sizes, NEW bytes \in Seq(Byte), SendEffect(s, n, bytes)
      PROVE  TakenInv'
  <2>1. n \in Nat
    BY Sizing
  <2>2. OwnBytes
    <3>1. \A r \in Session : r # s => inbound'[r] = inbound[r]
      BY <1>9, <2>1, Arrived DEF SendEffect
    <3>2. \A k \in DOMAIN inbound'[s] : inbound'[s][k][1] = s
      <4> SUFFICES ASSUME NEW k \in DOMAIN inbound'[s] PROVE inbound'[s][k][1] = s
        OBVIOUS
      <4>1. k \in 1 .. Len(inbound'[s]) /\ Len(inbound[s]) \in Nat /\ k \in Nat
            /\ DOMAIN inbound[s] = 1 .. Len(inbound[s])
        <5>1. inbound[s] \in Seq(Byte) /\ inbound'[s] \in Seq(Byte)
          BY DEF TypeInv
        <5> QED
          BY <5>1
      <4>2. CASE k \in 1 .. Len(inbound[s])
        BY <1>9, <2>1, <4>1, <4>2, Arrived DEF SendEffect, TakenInv
      <4>3. CASE k - Len(inbound[s]) \in 1 .. n
        <5>1. PICK i \in 1 .. n : i = k - Len(inbound[s])
          BY <4>3
        <5>2. k = Len(inbound[s]) + i
          BY <4>1, <5>1
        <5>3. inbound'[s][k] = bytes[i]
          <6>1. /\ Len(bytes) = n /\ inbound' = [inbound EXCEPT ![s] = @ \o bytes]
            BY <1>9 DEF SendEffect
          <6>2. PICK q \in Seq(Byte) : q = inbound[s]
            BY DEF TypeInv
          <6>3. inbound'[s] = q \o bytes
            BY <6>1, <6>2 DEF TypeInv
          <6>4. (q \o bytes)[Len(q) + i] = bytes[i]
            BY <6>1
          <6> QED
            BY <5>2, <6>2, <6>3, <6>4
        <5> QED
          BY <1>9, <5>3 DEF SendEffect
      <4> QED
        BY <1>9, <2>1, <4>1, <4>2, <4>3, Arrived DEF SendEffect
    <3> QED
      BY <3>1, <3>2 DEF TakenInv, OwnBytes
  <2>3. \A r \in Session : ground[r] = "new" => inbound'[r] = inbound[r] /\ sent'[r] = sent[r]
    BY <1>9, <2>1, Arrived DEF SendEffect, TypeInv
  <2> QED
    BY <1>9, <1>a, <2>2, <2>3, TakenAlone DEF SendEffect, OfPeers, OwnBytes
<1> QED
  BY <1>1, <1>2, <1>3, <1>4, <1>5, <1>6, <1>7, <1>8, <1>9, NextActs

-----------------------------------------------------------------------------
\* Bytes may move to the front, be taken or be thrown away: the order stays.
LEMMA OrderMoves ==
  ASSUME TypeInv, TypeInv', OrderInv, UNCHANGED <<handled, sent>>, NEW d \in Nat,
         \A j \in DOMAIN rx_buffer' : j + d \in DOMAIN rx_buffer /\ rx_buffer'[j] = rx_buffer[j + d],
         \A j \in consumed' + 1 .. Len(rx_buffer') : j + d \in consumed + 1 .. Len(rx_buffer),
         \A s \in Session : inbound'[s] = inbound[s] \/ inbound'[s] = <<>>
  PROVE  OrderInv'
<1>1. \A j \in consumed' + 1 .. Len(rx_buffer') :
        j \in Nat /\ j + d \in consumed + 1 .. Len(rx_buffer) /\ rx_buffer'[j] = rx_buffer[j + d]
  <2>1. DOMAIN rx_buffer' = 1 .. Len(rx_buffer') /\ consumed' \in Nat /\ Len(rx_buffer') \in Nat
    BY DEF TypeInv
  <2>2. \A j \in consumed' + 1 .. Len(rx_buffer') : j \in Nat /\ j \in DOMAIN rx_buffer'
    <3>1. PICK c \in Nat, n \in Nat : c = consumed' /\ n = Len(rx_buffer')
      BY <2>1
    <3>2. \A j \in c + 1 .. n : j \in Nat /\ j \in 1 .. n
      OBVIOUS
    <3> QED
      BY <2>1, <3>1, <3>2
  <2> QED
    BY <2>2
<1>2. RestInOrder'
  <2> SUFFICES ASSUME NEW j \in consumed' + 1 .. Len(rx_buffer'),
                      NEW k \in consumed' + 1 .. Len(rx_buffer'),
                      j < k /\ rx_buffer'[j][1] = rx_buffer'[k][1]
                        /\ rx_buffer'[j][3] = 1 /\ rx_buffer'[k][3] = 1
               PROVE  rx_buffer'[j][2] < rx_buffer'[k][2]
    BY DEF RestInOrder
  <2>1. /\ j \in Nat /\ j + d \in consumed + 1 .. Len(rx_buffer) /\ rx_buffer'[j] = rx_buffer[j + d]
        /\ k \in Nat /\ k + d \in consumed + 1 .. Len(rx_buffer) /\ rx_buffer'[k] = rx_buffer[k + d]
    BY <1>1
  <2>2. j + d < k + d
    BY <2>1
  <2> QED
    BY <2>1, <2>2 DEF OrderInv, RestInOrder
<1>3. InboundInOrder'
  <2> SUFFICES ASSUME NEW s \in Session, NEW k \in DOMAIN inbound'[s], inbound'[s][k][3] = 1
               PROVE  /\ inbound'[s][k][2] <= sent'[s]
                      /\ \A j \in DOMAIN inbound'[s] :
                           j < k /\ inbound'[s][j][3] = 1 => inbound'[s][j][2] < inbound'[s][k][2]
                      /\ \A j \in consumed' + 1 .. Len(rx_buffer') :
                           rx_buffer'[j][1] = s /\ rx_buffer'[j][3] = 1
                             => rx_buffer'[j][2] < inbound'[s][k][2]
                      /\ \A h \in DOMAIN handled' :
                           handled'[h][1] = s => handled'[h][2] < inbound'[s][k][2]
    BY DEF InboundInOrder
  <2>1. DOMAIN <<>> = {}
    OBVIOUS
  <2>2. inbound'[s] = inbound[s]
    BY <2>1
  <2> QED
    BY <1>1, <2>2 DEF OrderInv, InboundInOrder
<1>4. HandledBefore'
  BY <1>1 DEF OrderInv, HandledBefore
<1>5. RestIsSent'
  BY DEF OrderInv, RestIsSent
<1>6. OnceAndInOrder'
  BY DEF OrderInv, OnceAndInOrder
<1> QED
  BY <1>2, <1>3, <1>4, <1>5, <1>6 DEF OrderInv

\* A telecommand is handled: its first byte is the next one to be looked at, so
\* that it comes behind all that was handled and before all that was not.
LEMMA OrderHandled ==
  ASSUME TypeInv, TypeInv', TakenInv, OrderInv, DrainEffect,
         At(1)[3] = 1, handled' = Append(handled, <<At(1)[1], At(1)[2]>>)
  PROVE  OrderInv'
<1>1. /\ consumed + 1 \in 1 .. Len(rx_buffer) /\ At(1) = rx_buffer[consumed + 1]
      /\ At(1) \in Byte /\ consumed \in Nat /\ Len(rx_buffer) \in Nat
      /\ DOMAIN rx_buffer = 1 .. Len(rx_buffer)
  BY TotalsAreSizes DEF DrainEffect, TypeInv, At
<1>2. PICK i \in consumed + 1 .. Len(rx_buffer) : i = consumed + 1
  BY <1>1
<1>3. PICK b \in Byte : b = rx_buffer[i]
  BY <1>1, <1>2
<1>4. b[1] \in Session /\ b[2] \in Nat /\ b[3] = 1
  BY <1>1, <1>2, <1>3, ByteFields
<1>5. PICK h \in Session \X Nat : h = <<b[1], b[2]>> /\ h[1] = b[1] /\ h[2] = b[2]
  <2>1. PICK s \in Session, i2 \in Nat : s = b[1] /\ i2 = b[2]
    BY <1>4
  <2>2. <<s, i2>> \in Session \X Nat /\ <<s, i2>>[1] = s /\ <<s, i2>>[2] = i2
    OBVIOUS
  <2> QED
    BY <2>1, <2>2
<1>6. handled' = Append(handled, h)
  BY <1>1, <1>2, <1>3, <1>5
<1>7. \A j \in consumed' + 1 .. Len(rx_buffer') :
        j \in consumed + 1 .. Len(rx_buffer) /\ i < j /\ rx_buffer'[j] = rx_buffer[j]
  BY <1>1, <1>2 DEF DrainEffect
<1>8. /\ DOMAIN handled' = 1 .. Len(handled) + 1 /\ DOMAIN handled = 1 .. Len(handled)
      /\ Len(handled) \in Nat /\ handled'[Len(handled) + 1] = h
      /\ \A k \in 1 .. Len(handled) : handled'[k] = handled[k]
  <2>1. handled \in Seq(Session \X Nat)
    BY DEF TypeInv
  <2> QED
    BY <1>6, <2>1
<1>9. \A k \in DOMAIN handled' :
        k = Len(handled) + 1 \/ (k \in DOMAIN handled /\ handled'[k] = handled[k])
  BY <1>8
<1>10. RestInOrder'
  BY <1>7 DEF OrderInv, RestInOrder
<1>11. InboundInOrder'
  <2> SUFFICES ASSUME NEW s \in Session, NEW k \in DOMAIN inbound[s], inbound[s][k][3] = 1
               PROVE  /\ inbound[s][k][2] <= sent[s]
                      /\ \A j \in DOMAIN inbound[s] :
                           j < k /\ inbound[s][j][3] = 1 => inbound[s][j][2] < inbound[s][k][2]
                      /\ \A j \in consumed' + 1 .. Len(rx_buffer') :
                           rx_buffer'[j][1] = s /\ rx_buffer'[j][3] = 1
                             => rx_buffer'[j][2] < inbound[s][k][2]
                      /\ \A g \in DOMAIN handled' :
                           handled'[g][1] = s => handled'[g][2] < inbound[s][k][2]
    BY DEF InboundInOrder, DrainEffect
  <2>1. h[1] = s => h[2] < inbound[s][k][2]
    BY <1>3, <1>4, <1>5 DEF OrderInv, InboundInOrder
  <2>2. \A g \in DOMAIN handled : handled[g][1] = s => handled[g][2] < inbound[s][k][2]
    BY DEF OrderInv, InboundInOrder
  <2> QED
    BY <1>7, <1>8, <1>9, <2>1, <2>2 DEF OrderInv, InboundInOrder
<1>12. HandledBefore'
  <2> SUFFICES ASSUME NEW k \in DOMAIN handled'
               PROVE  /\ handled'[k][2] <= sent[handled'[k][1]]
                      /\ \A j \in consumed' + 1 .. Len(rx_buffer') :
                           rx_buffer'[j][1] = handled'[k][1] /\ rx_buffer'[j][3] = 1
                             => handled'[k][2] < rx_buffer'[j][2]
    BY DEF HandledBefore, DrainEffect
  <2>1. CASE k \in DOMAIN handled /\ handled'[k] = handled[k]
    BY <1>7, <2>1 DEF OrderInv, HandledBefore
  <2>2. CASE k = Len(handled) + 1
    <3>1. h[2] <= sent[h[1]]
      BY <1>1, <1>2, <1>3, <1>4, <1>5 DEF OrderInv, RestIsSent
    <3>2. \A j \in consumed' + 1 .. Len(rx_buffer') :
            rx_buffer'[j][1] = h[1] /\ rx_buffer'[j][3] = 1 => h[2] < rx_buffer'[j][2]
      BY <1>3, <1>4, <1>5, <1>7 DEF OrderInv, RestInOrder
    <3> QED
      BY <1>8, <2>2, <3>1, <3>2
  <2> QED
    BY <1>9, <2>1, <2>2
<1>13. RestIsSent'
  BY DEF OrderInv, RestIsSent, DrainEffect
<1>14. OnceAndInOrder'
  <2>1. \A k \in DOMAIN handled : handled[k][1] = h[1] => handled[k][2] < h[2]
    BY <1>3, <1>4, <1>5 DEF OrderInv, HandledBefore
  <2> SUFFICES ASSUME NEW j \in DOMAIN handled', NEW k \in DOMAIN handled',
                      j < k /\ handled'[j][1] = handled'[k][1]
               PROVE  handled'[j][2] < handled'[k][2]
    BY DEF OnceAndInOrder
  <2>2. j \in DOMAIN handled /\ handled'[j] = handled[j]
    BY <1>8, <1>9
  <2>3. CASE k = Len(handled) + 1
    BY <1>8, <2>1, <2>2, <2>3
  <2>4. CASE k \in DOMAIN handled /\ handled'[k] = handled[k]
    BY <2>2, <2>4 DEF OrderInv, OnceAndInOrder
  <2> QED
    BY <1>9, <2>3, <2>4
<1> QED
  BY <1>10, <1>11, <1>12, <1>13, <1>14 DEF OrderInv

\* Bytes are received: what the buffer gains is what comes next of the peer.
LEMMA OrderReceived ==
  ASSUME TypeInv, TypeInv', TakenInv, OrderInv, UNCHANGED <<handled, sent, consumed>>,
         peer \in Session, NEW n \in 1 .. Len(inbound[peer]),
         rx_buffer' = rx_buffer \o SubSeq(inbound[peer], 1, n),
         inbound' = [inbound EXCEPT ![peer] = SubSeq(@, n + 1, Len(@))]
  PROVE  OrderInv'
<1>1. PICK q \in Seq(Byte) : q = inbound[peer]
  BY DEF TypeInv
<1>2. /\ \A s \in Session : s # peer => inbound'[s] = inbound[s]
      /\ inbound'[peer] \in Seq(Byte) /\ Len(inbound'[peer]) = Len(q) - n
      /\ \A k \in 1 .. Len(inbound'[peer]) : inbound'[peer][k] = q[n + k] /\ n + k \in DOMAIN q
  <2>1. /\ \A s \in Session : s # peer => inbound'[s] = inbound[s]
        /\ inbound'[peer] = SubSeq(q, n + 1, Len(q))
    BY <1>1 DEF TypeInv
  <2> QED
    BY <1>1, <2>1, Received
<1>3. /\ Len(rx_buffer') = Len(rx_buffer) + n /\ Len(rx_buffer) \in Nat /\ consumed \in Nat
      /\ n \in Nat /\ DOMAIN q = 1 .. Len(q) /\ Len(q) \in Nat /\ n <= Len(q)
      /\ \A k \in 1 .. Len(rx_buffer) : rx_buffer'[k] = rx_buffer[k]
      /\ \A k \in 1 .. n : rx_buffer'[Len(rx_buffer) + k] = q[k]
  BY <1>1, Received, SMTT(30) DEF TypeInv
<1>4. \A k \in 1 .. Len(rx_buffer') :
        \/ k \in 1 .. Len(rx_buffer) /\ rx_buffer'[k] = rx_buffer[k]
        \/ \E i \in 1 .. n : k = Len(rx_buffer) + i /\ i \in DOMAIN q /\ rx_buffer'[k] = q[i]
  <2> SUFFICES ASSUME NEW k \in 1 .. Len(rx_buffer) + n, k \notin 1 .. Len(rx_buffer)
               PROVE  \E i \in 1 .. n :
                        k = Len(rx_buffer) + i /\ i \in DOMAIN q /\ rx_buffer'[k] = q[i]
    BY <1>3
  <2>1. k - Len(rx_buffer) \in 1 .. n /\ k = Len(rx_buffer) + (k - Len(rx_buffer))
    BY <1>3
  <2>2. PICK i \in 1 .. n : i = k - Len(rx_buffer)
    BY <2>1
  <2>3. i \in DOMAIN q
    BY <1>3
  <2> QED
    BY <1>3, <2>1, <2>2, <2>3
<1>5. \A k \in DOMAIN q : q[k][1] = peer
  BY <1>1 DEF TakenInv
<1>6. \A k \in DOMAIN q : q[k][3] = 1 =>
        /\ q[k][2] <= sent[peer]
        /\ \A j \in DOMAIN q : j < k /\ q[j][3] = 1 => q[j][2] < q[k][2]
        /\ \A j \in consumed + 1 .. Len(rx_buffer) :
             rx_buffer[j][1] = peer /\ rx_buffer[j][3] = 1 => rx_buffer[j][2] < q[k][2]
        /\ \A h \in DOMAIN handled : handled[h][1] = peer => handled[h][2] < q[k][2]
  BY <1>1 DEF OrderInv, InboundInOrder
<1>7. \A j \in consumed' + 1 .. Len(rx_buffer') :
        \/ j \in consumed + 1 .. Len(rx_buffer) /\ rx_buffer'[j] = rx_buffer[j]
        \/ \E i \in 1 .. n : j = Len(rx_buffer) + i /\ i \in DOMAIN q /\ rx_buffer'[j] = q[i]
  <2>1. \A j \in consumed + 1 .. Len(rx_buffer) + n :
          /\ j \in 1 .. Len(rx_buffer) + n
          /\ j \in 1 .. Len(rx_buffer) => j \in consumed + 1 .. Len(rx_buffer)
    BY <1>3
  <2> QED
    BY <1>3, <1>4, <2>1
<1>8. RestInOrder'
  <2> SUFFICES ASSUME NEW j \in consumed' + 1 .. Len(rx_buffer'),
                      NEW k \in consumed' + 1 .. Len(rx_buffer'),
                      j < k, rx_buffer'[j][1] = rx_buffer'[k][1],
                      rx_buffer'[j][3] = 1, rx_buffer'[k][3] = 1
               PROVE  rx_buffer'[j][2] < rx_buffer'[k][2]
    BY DEF RestInOrder
  <2>1. CASE k \in consumed + 1 .. Len(rx_buffer) /\ rx_buffer'[k] = rx_buffer[k]
    <3>1. \A i \in 1 .. n : j # Len(rx_buffer) + i
      BY <1>3, <2>1
    <3>2. j \in consumed + 1 .. Len(rx_buffer) /\ rx_buffer'[j] = rx_buffer[j]
      BY <1>7, <3>1
    <3> QED
      BY <2>1, <3>2 DEF OrderInv, RestInOrder
  <2>2. ASSUME NEW i \in 1 .. n, k = Len(rx_buffer) + i, i \in DOMAIN q, rx_buffer'[k] = q[i]
        PROVE  rx_buffer'[j][2] < rx_buffer'[k][2]
    <3>1. CASE j \in consumed + 1 .. Len(rx_buffer) /\ rx_buffer'[j] = rx_buffer[j]
      BY <1>5, <1>6, <2>2, <3>1
    <3>2. ASSUME NEW m \in 1 .. n, j = Len(rx_buffer) + m, m \in DOMAIN q, rx_buffer'[j] = q[m]
          PROVE  rx_buffer'[j][2] < rx_buffer'[k][2]
      <4>1. m < i
        BY <1>3, <2>2, <3>2
      <4> QED
        BY <1>6, <2>2, <3>2, <4>1
    <3> QED
      BY <1>7, <3>1, <3>2
  <2> QED
    BY <1>7, <2>1, <2>2
<1>9. InboundInOrder'
  <2> SUFFICES ASSUME NEW s \in Session, NEW k \in DOMAIN inbound'[s], inbound'[s][k][3] = 1
               PROVE  /\ inbound'[s][k][2] <= sent[s]
                      /\ \A j \in DOMAIN inbound'[s] :
                           j < k /\ inbound'[s][j][3] = 1 => inbound'[s][j][2] < inbound'[s][k][2]
                      /\ \A j \in consumed' + 1 .. Len(rx_buffer') :
                           rx_buffer'[j][1] = s /\ rx_buffer'[j][3] = 1
                             => rx_buffer'[j][2] < inbound'[s][k][2]
                      /\ \A h \in DOMAIN handled :
                           handled[h][1] = s => handled[h][2] < inbound'[s][k][2]
    BY DEF InboundInOrder
  <2>1. CASE s # peer
    <3>1. inbound'[s] = inbound[s]
      BY <1>2, <2>1
    <3>2. \A j \in consumed' + 1 .. Len(rx_buffer') :
            rx_buffer'[j][1] = s =>
              j \in consumed + 1 .. Len(rx_buffer) /\ rx_buffer'[j] = rx_buffer[j]
      BY <1>5, <1>7, <2>1
    <3> QED
      BY <3>1, <3>2, ZenonT(30) DEF OrderInv, InboundInOrder
  <2>2. CASE s = peer
    <3>1. PICK left \in Seq(Byte) : left = inbound'[peer]
      BY <1>2
    <3>2. \A j \in DOMAIN inbound'[s] : inbound'[s][j] = q[n + j] /\ n + j \in DOMAIN q /\ j \in Nat
                                        /\ j > 0
      <4>1. \A j \in DOMAIN left : left[j] = q[n + j] /\ n + j \in DOMAIN q /\ j \in Nat /\ j > 0
        <5>1. \A j \in 1 .. Len(left) : left[j] = q[n + j] /\ n + j \in DOMAIN q
          BY <1>2, <3>1
        <5>2. \A j \in DOMAIN left : j \in 1 .. Len(left) /\ j \in Nat /\ j > 0
          BY <3>1
        <5> QED
          BY <5>1, <5>2
      <4> QED
        BY <2>2, <3>1, <4>1
    <3>3. q[n + k][3] = 1 /\ n + k \in DOMAIN q /\ inbound'[s][k] = q[n + k] /\ k \in Nat /\ k > 0
      BY <3>2
    <3>4. inbound'[s][k][2] <= sent[s]
      BY <1>6, <2>2, <3>3
    <3>5. ASSUME NEW j \in DOMAIN inbound'[s], j < k, inbound'[s][j][3] = 1
          PROVE  inbound'[s][j][2] < inbound'[s][k][2]
      <4>1. n + j < n + k /\ n + j \in DOMAIN q /\ inbound'[s][j] = q[n + j]
        <5>1. n + j \in DOMAIN q /\ inbound'[s][j] = q[n + j] /\ j \in Nat
          BY <3>2, <3>5
        <5>2. n \in Nat /\ k \in Nat /\ j \in Nat /\ j < k
          BY <1>3, <3>3, <3>5, <5>1
        <5>3. n + j < n + k
          BY <5>2
        <5> QED
          BY <5>1, <5>3
      <4> QED
        BY <1>6, <3>3, <3>5, <4>1
    <3>6. ASSUME NEW j \in consumed' + 1 .. Len(rx_buffer'),
                 rx_buffer'[j][1] = s, rx_buffer'[j][3] = 1
          PROVE  rx_buffer'[j][2] < inbound'[s][k][2]
      <4>1. CASE j \in consumed + 1 .. Len(rx_buffer) /\ rx_buffer'[j] = rx_buffer[j]
        BY <1>6, <2>2, <3>3, <3>6, <4>1
      <4>2. ASSUME NEW i \in 1 .. n, i \in DOMAIN q, rx_buffer'[j] = q[i]
            PROVE  rx_buffer'[j][2] < inbound'[s][k][2]
        <5>1. i < n + k
          BY <1>3, <3>3, <4>2
        <5> QED
          BY <1>6, <3>3, <3>6, <4>2, <5>1
      <4> QED
        BY <1>7, <4>1, <4>2
    <3>7. \A h \in DOMAIN handled : handled[h][1] = s => handled[h][2] < inbound'[s][k][2]
      BY <1>6, <2>2, <3>3
    <3> QED
      BY <3>4, <3>5, <3>6, <3>7
  <2> QED
    BY <2>1, <2>2
<1>10. HandledBefore'
  <2> SUFFICES ASSUME NEW k \in DOMAIN handled
               PROVE  /\ handled[k][2] <= sent[handled[k][1]]
                      /\ \A j \in consumed' + 1 .. Len(rx_buffer') :
                           rx_buffer'[j][1] = handled[k][1] /\ rx_buffer'[j][3] = 1
                             => handled[k][2] < rx_buffer'[j][2]
    BY DEF HandledBefore
  <2>1. ASSUME NEW j \in consumed' + 1 .. Len(rx_buffer'),
               rx_buffer'[j][1] = handled[k][1], rx_buffer'[j][3] = 1
        PROVE  handled[k][2] < rx_buffer'[j][2]
    <3>1. CASE j \in consumed + 1 .. Len(rx_buffer) /\ rx_buffer'[j] = rx_buffer[j]
      BY <2>1, <3>1 DEF OrderInv, HandledBefore
    <3>2. ASSUME NEW i \in 1 .. n, i \in DOMAIN q, rx_buffer'[j] = q[i]
          PROVE  handled[k][2] < rx_buffer'[j][2]
      BY <1>5, <1>6, <2>1, <3>2
    <3> QED
      BY <1>7, <3>1, <3>2
  <2> QED
    BY <2>1 DEF OrderInv, HandledBefore
<1>11. RestIsSent'
  <2> SUFFICES ASSUME NEW j \in DOMAIN rx_buffer', rx_buffer'[j][3] = 1
               PROVE  rx_buffer'[j][2] <= sent[rx_buffer'[j][1]]
    BY DEF RestIsSent
  <2>1. j \in 1 .. Len(rx_buffer') /\ DOMAIN rx_buffer = 1 .. Len(rx_buffer)
    BY DEF TypeInv
  <2>2. CASE j \in DOMAIN rx_buffer /\ rx_buffer'[j] = rx_buffer[j]
    BY <2>2 DEF OrderInv, RestIsSent
  <2>3. ASSUME NEW i \in 1 .. n, i \in DOMAIN q, rx_buffer'[j] = q[i]
        PROVE  rx_buffer'[j][2] <= sent[rx_buffer'[j][1]]
    BY <1>5, <1>6, <2>3
  <2> QED
    BY <1>4, <2>1, <2>2, <2>3
<1>12. OnceAndInOrder'
  BY DEF OrderInv, OnceAndInOrder
<1> QED
  BY <1>8, <1>9, <1>10, <1>11, <1>12 DEF OrderInv

\* A packet is sent: its number is above all that its session has sent before.
LEMMA OrderSent ==
  ASSUME TypeInv, TypeInv', TakenInv, OrderInv,
         NEW s \in Session, NEW n \in Sizes, NEW bytes \in Seq(Byte), SendEffect(s, n, bytes)
  PROVE  OrderInv'
<1>1. UNCHANGED <<rx_buffer, consumed, handled>> /\ n \in Nat
  BY Sizing DEF SendEffect
<1>2. /\ \A r \in Session : sent'[r] = IF r = s THEN sent[s] + 1 ELSE sent[r]
      /\ sent \in [Session -> Nat]
  BY DEF SendEffect, TypeInv
<1>3. \A r \in Session : r # s => inbound'[r] = inbound[r]
  BY <1>1, Arrived DEF SendEffect
<1>4. PICK q \in Seq(Byte) : q = inbound[s]
  BY DEF TypeInv
<1>5. /\ inbound'[s] \in Seq(Byte) /\ Len(inbound'[s]) = Len(q) + n
      /\ \A k \in 1 .. Len(q) : inbound'[s][k] = q[k]
      /\ \A k \in 1 .. n : inbound'[s][Len(q) + k] = bytes[k]
      /\ \A k \in 1 .. Len(inbound'[s]) : k \in 1 .. Len(q) \/ k - Len(q) \in 1 .. n
  <2>1. Len(bytes) = n /\ inbound' = [inbound EXCEPT ![s] = @ \o bytes]
    BY DEF SendEffect
  <2> QED
    <3>1. inbound'[s] \in Seq(Byte) /\ Len(inbound'[s]) = Len(inbound[s]) + n
      BY <1>1, <2>1, Arrived
    <3>2. \A k \in 1 .. Len(inbound[s]) : inbound'[s][k] = inbound[s][k]
      BY <1>1, <2>1, Arrived
    <3>3. \A k \in 1 .. n : inbound'[s][Len(inbound[s]) + k] = bytes[k]
      <4>1. inbound'[s] = q \o bytes
        BY <1>4, <2>1 DEF TypeInv
      <4>2. \A k \in 1 .. n : (q \o bytes)[Len(q) + k] = bytes[k]
        BY <2>1
      <4> QED
        BY <1>4, <4>1, <4>2
    <3>4. \A k \in 1 .. Len(inbound'[s]) :
            k \in 1 .. Len(inbound[s]) \/ k - Len(inbound[s]) \in 1 .. n
      BY <1>1, <2>1, Arrived
    <3> QED
      BY <1>4, <3>1, <3>2, <3>3, <3>4, Zenon
<1>6. /\ DOMAIN q = 1 .. Len(q) /\ Len(q) \in Nat
      /\ \A k \in DOMAIN inbound'[s] : k \in 1 .. Len(inbound'[s])
  BY <1>4, <1>5
<1>7. \A k \in DOMAIN inbound'[s] :
        \/ k \in DOMAIN q /\ inbound'[s][k] = q[k]
        \/ /\ k > Len(q) /\ inbound'[s][k][2] = sent[s] + 1
           /\ inbound'[s][k][3] = 1 => k = Len(q) + 1
  <2> SUFFICES ASSUME NEW k \in 1 .. Len(inbound'[s]), k \notin 1 .. Len(q)
               PROVE  /\ k > Len(q) /\ inbound'[s][k][2] = sent[s] + 1
                      /\ inbound'[s][k][3] = 1 => k = Len(q) + 1
    BY <1>5, <1>6
  <2>1. k - Len(q) \in 1 .. n
    BY <1>5
  <2>2. PICK i \in 1 .. n : i = k - Len(q)
    BY <2>1
  <2>3. k = Len(q) + i
    BY <1>5, <1>6, <2>2
  <2>4. inbound'[s][k] = bytes[i]
    BY <1>5, <2>3
  <2>5. bytes[i][2] = sent[s] + 1 /\ (bytes[i][3] = 1 => i = 1)
    BY DEF SendEffect
  <2> QED
    BY <1>6, <2>3, <2>4, <2>5
<1>8. RestInOrder'
  BY <1>1 DEF OrderInv, RestInOrder
<1>9. \A r \in Session : r # s =>
        \A k \in DOMAIN inbound'[r] : inbound'[r][k][3] = 1 =>
          /\ inbound'[r][k][2] <= sent'[r]
          /\ \A j \in DOMAIN inbound'[r] :
               j < k /\ inbound'[r][j][3] = 1 => inbound'[r][j][2] < inbound'[r][k][2]
          /\ \A j \in consumed' + 1 .. Len(rx_buffer') :
               rx_buffer'[j][1] = r /\ rx_buffer'[j][3] = 1 => rx_buffer'[j][2] < inbound'[r][k][2]
          /\ \A h \in DOMAIN handled' : handled'[h][1] = r => handled'[h][2] < inbound'[r][k][2]
  BY <1>1, <1>2, <1>3 DEF OrderInv, InboundInOrder
<1>10. ASSUME NEW k \in DOMAIN inbound'[s], inbound'[s][k][3] = 1
       PROVE  /\ inbound'[s][k][2] <= sent'[s]
              /\ \A j \in DOMAIN inbound'[s] :
                   j < k /\ inbound'[s][j][3] = 1 => inbound'[s][j][2] < inbound'[s][k][2]
              /\ \A j \in consumed + 1 .. Len(rx_buffer) :
                   rx_buffer[j][1] = s /\ rx_buffer[j][3] = 1 => rx_buffer[j][2] < inbound'[s][k][2]
              /\ \A h \in DOMAIN handled : handled[h][1] = s => handled[h][2] < inbound'[s][k][2]
  <2>1. \A j \in DOMAIN q : q[j][2] \in Nat /\ (q[j][3] = 1 => q[j][2] <= sent[s])
    <3>1. \A j \in DOMAIN q : q[j] \in Byte
      BY <1>4
    <3> QED
      BY <1>4, <3>1, ByteFields DEF OrderInv, InboundInOrder
  <2>2. CASE k \in DOMAIN q /\ inbound'[s][k] = q[k]
    <3>1. \A j \in DOMAIN inbound'[s] : j < k => j \in DOMAIN q /\ inbound'[s][j] = q[j]
      BY <1>5, <1>6, <1>7, <2>2
    <3>2. q[k][2] <= sent'[s]
      BY <1>2, <1>10, <2>1, <2>2
    <3>3. q[k][3] = 1 /\ k \in DOMAIN inbound[s]
      BY <1>4, <1>10, <2>2
    <3>4. /\ \A j \in DOMAIN q : j < k /\ q[j][3] = 1 => q[j][2] < q[k][2]
          /\ \A j \in consumed + 1 .. Len(rx_buffer) :
               rx_buffer[j][1] = s /\ rx_buffer[j][3] = 1 => rx_buffer[j][2] < q[k][2]
          /\ \A h \in DOMAIN handled : handled[h][1] = s => handled[h][2] < q[k][2]
      BY <1>4, <3>3 DEF OrderInv, InboundInOrder
    <3> QED
      BY <2>2, <3>1, <3>2, <3>4
  <2>3. CASE k = Len(q) + 1 /\ inbound'[s][k][2] = sent[s] + 1
    <3>1. \A j \in DOMAIN inbound'[s] : j < k => j \in DOMAIN q /\ inbound'[s][j] = q[j]
      BY <1>5, <1>6, <1>7, <2>3
    <3>2. \A j \in DOMAIN q : q[j][3] = 1 => q[j][2] < sent[s] + 1
      BY <1>2, <2>1
    <3>3. \A j \in consumed + 1 .. Len(rx_buffer) :
            rx_buffer[j][1] = s /\ rx_buffer[j][3] = 1 => rx_buffer[j][2] < sent[s] + 1
      <4>1. \A j \in consumed + 1 .. Len(rx_buffer) : j \in DOMAIN rx_buffer
        BY DEF TypeInv
      <4>2. \A j \in DOMAIN rx_buffer : rx_buffer[j] \in Byte
        BY DEF TypeInv
      <4>3. \A j \in DOMAIN rx_buffer : rx_buffer[j][2] \in Nat
        BY <4>2, ByteFields
      <4>4. \A j \in DOMAIN rx_buffer :
              rx_buffer[j][1] = s /\ rx_buffer[j][3] = 1 => rx_buffer[j][2] <= sent[s]
        BY DEF OrderInv, RestIsSent
      <4> QED
        BY <1>2, <4>1, <4>3, <4>4
    <3>4. \A h \in DOMAIN handled : handled[h][1] = s => handled[h][2] < sent[s] + 1
      <4>1. \A h \in DOMAIN handled : handled[h] \in Session \X Nat
        BY SMTT(30) DEF TypeInv
      <4>2. \A h \in DOMAIN handled : handled[h][1] = s => handled[h][2] <= sent[s]
        BY DEF OrderInv, HandledBefore
      <4> QED
        BY <1>2, <4>1, <4>2
    <3>5. sent'[s] = sent[s] + 1 /\ sent[s] + 1 <= sent[s] + 1
      BY <1>2
    <3> QED
      BY <2>3, <3>1, <3>2, <3>3, <3>4, <3>5
  <2> QED
    BY <1>7, <1>10, <2>2, <2>3
<1>11. InboundInOrder'
  BY <1>1, <1>9, <1>10 DEF InboundInOrder
<1>12. \A r \in Session : sent[r] <= sent'[r] /\ sent[r] \in Nat /\ sent'[r] \in Nat
  BY <1>2
<1>13. HandledBefore'
  <2>1. \A k \in DOMAIN handled : handled[k][1] \in Session /\ handled[k][2] \in Nat
    <3>1. \A k \in DOMAIN handled : handled[k] \in Session \X Nat
      BY DEF TypeInv
    <3> QED
      BY <3>1
  <2> SUFFICES ASSUME NEW k \in DOMAIN handled
               PROVE  /\ handled[k][2] <= sent'[handled[k][1]]
                      /\ \A j \in consumed + 1 .. Len(rx_buffer) :
                           rx_buffer[j][1] = handled[k][1] /\ rx_buffer[j][3] = 1
                             => handled[k][2] < rx_buffer[j][2]
    BY <1>1 DEF HandledBefore
  <2>2. handled[k][2] <= sent[handled[k][1]]
    BY DEF OrderInv, HandledBefore
  <2>3. handled[k][2] <= sent'[handled[k][1]]
    <3>1. PICK r \in Session, i \in Nat : r = handled[k][1] /\ i = handled[k][2]
      BY <2>1
    <3>2. i <= sent[r] /\ sent[r] <= sent'[r] /\ sent[r] \in Nat /\ sent'[r] \in Nat
      BY <1>12, <2>2, <3>1
    <3>3. i <= sent'[r]
      BY <3>2
    <3> QED
      BY <3>1, <3>3
  <2> QED
    BY <2>3 DEF OrderInv, HandledBefore
<1>14. RestIsSent'
  <2>1. \A j \in DOMAIN rx_buffer : rx_buffer[j] \in Byte
    BY DEF TypeInv
  <2>2. \A j \in DOMAIN rx_buffer : rx_buffer[j][1] \in Session /\ rx_buffer[j][2] \in Nat
    BY <2>1, ByteFields
  <2> QED
    BY <1>1, <1>12, <2>2 DEF OrderInv, RestIsSent
<1>15. OnceAndInOrder'
  BY <1>1 DEF OrderInv, OnceAndInOrder
<1> QED
  BY <1>8, <1>11, <1>13, <1>14, <1>15 DEF OrderInv

LEMMA OrderStep ==
  ASSUME TypeInv, TypeInv', AlwaysRoom, TakenInv, OrderInv, [Next]_vars
  PROVE  OrderInv'
<1>a. ASSUME UNCHANGED <<rx_buffer, consumed, handled, sent>>,
             \A s \in Session : inbound'[s] = inbound[s] \/ inbound'[s] = <<>>
      PROVE  OrderInv'
  <2>1. /\ \A j \in DOMAIN rx_buffer' : j + 0 \in DOMAIN rx_buffer /\ rx_buffer'[j] = rx_buffer[j + 0]
        /\ \A j \in consumed' + 1 .. Len(rx_buffer') : j + 0 \in consumed + 1 .. Len(rx_buffer)
    <3>1. DOMAIN rx_buffer = 1 .. Len(rx_buffer)
      BY DEF TypeInv
    <3> QED
      BY <1>a, <3>1
  <2> QED
    BY <1>a, <2>1, OrderMoves
<1>1. CASE UNCHANGED vars
  BY <1>1, <1>a DEF vars, connections, software, past
<1>2. CASE PollEffect
  <2>1. \A s \in Session : inbound'[s] = inbound[s] \/ inbound'[s] = <<>>
    BY <1>2 DEF PollEffect, TypeInv
  <2> QED
    BY <1>2, <1>a, <2>1 DEF PollEffect, Kept
<1>3. CASE SampleEffect
  <2>1. CASE rx_buffer' = rx_buffer
    BY <1>3, <1>a, <2>1 DEF SampleEffect, Kept
  <2>2. CASE rx_buffer' = <<>>
    <3>1. /\ \A j \in DOMAIN rx_buffer' : j + 0 \in DOMAIN rx_buffer /\ rx_buffer'[j] = rx_buffer[j + 0]
          /\ \A j \in consumed' + 1 .. Len(rx_buffer') : j + 0 \in consumed + 1 .. Len(rx_buffer)
      <4>1. DOMAIN <<>> = {} /\ Len(<<>>) = 0
        OBVIOUS
      <4>2. PICK c \in Nat : c = consumed'
        BY DEF TypeInv
      <4>3. c + 1 .. 0 = {}
        OBVIOUS
      <4> QED
        BY <2>2, <4>1, <4>2, <4>3
    <3> QED
      BY <1>3, <3>1, OrderMoves DEF SampleEffect, Kept
  <2> QED
    BY <1>3, <2>1, <2>2 DEF SampleEffect
<1>4. CASE ReceiveEffect
  <2>1. CASE UNCHANGED <<inbound, rx_buffer>>
    BY <1>4, <1>a, <2>1 DEF ReceiveEffect, Kept
  <2>2. ASSUME UNCHANGED peer, peer # NoPeer, NEW n \in 1 .. Len(inbound[peer]),
               rx_buffer' = rx_buffer \o SubSeq(inbound[peer], 1, n),
               inbound' = [inbound EXCEPT ![peer] = SubSeq(@, n + 1, Len(@))]
        PROVE  OrderInv'
    <3>1. peer \in Session
      BY <2>2 DEF TypeInv
    <3> QED
      BY <1>4, <2>2, <3>1, OrderReceived DEF ReceiveEffect, Kept
  <2> QED
    BY <1>4, <2>1, <2>2 DEF ReceiveEffect
<1>5. CASE DrainEffect
  <2>1. CASE UNCHANGED handled
    <3>1. /\ \A j \in DOMAIN rx_buffer' : j + 0 \in DOMAIN rx_buffer /\ rx_buffer'[j] = rx_buffer[j + 0]
          /\ \A j \in consumed' + 1 .. Len(rx_buffer') : j + 0 \in consumed + 1 .. Len(rx_buffer)
      <4>1. DOMAIN rx_buffer = 1 .. Len(rx_buffer) /\ consumed \in Nat /\ Len(rx_buffer) \in Nat
        BY DEF TypeInv
      <4>2. PICK c \in consumed + 1 .. Len(rx_buffer) : c = consumed'
        BY <1>5 DEF DrainEffect
      <4>3. \A j \in c + 1 .. Len(rx_buffer) : j + 0 \in consumed + 1 .. Len(rx_buffer)
        BY <4>1
      <4>4. rx_buffer' = rx_buffer
        BY <1>5 DEF DrainEffect
      <4>5. \A j \in DOMAIN rx_buffer : j + 0 = j
        BY <4>1
      <4> QED
        BY <4>2, <4>3, <4>4, <4>5
    <3> QED
      BY <1>5, <2>1, <3>1, OrderMoves DEF DrainEffect
  <2> QED
    BY <1>5, <2>1, OrderHandled DEF DrainEffect
<1>6. CASE FinishEffect
  <2>1. /\ \A j \in DOMAIN rx_buffer' :
             j + consumed \in DOMAIN rx_buffer /\ rx_buffer'[j] = rx_buffer[j + consumed]
        /\ \A j \in consumed' + 1 .. Len(rx_buffer') : j + consumed \in consumed + 1 .. Len(rx_buffer)
    <3>1. PICK rest \in Seq(Byte) : rest = Rest
      BY RestIsASequence
    <3>2. /\ rx_buffer' = rest /\ consumed' = 0 /\ DOMAIN rest = 1 .. Available
          /\ Len(rest) = Available /\ Available \in Nat
      BY <1>6, <3>1, RestIsASequence DEF FinishEffect
    <3>3. /\ DOMAIN rx_buffer = 1 .. Len(rx_buffer) /\ consumed \in Nat /\ Len(rx_buffer) \in Nat
          /\ Available = Len(rx_buffer) - consumed
      BY DEF TypeInv, Available
    <3>4. \A j \in 1 .. Available :
            /\ j + consumed \in 1 .. Len(rx_buffer) /\ j + consumed \in consumed + 1 .. Len(rx_buffer)
            /\ j + consumed = consumed + j
      BY <3>2, <3>3
    <3>5. \A j \in 1 .. Available : rest[j] = rx_buffer[consumed + j]
      BY <3>1, RestIsASequence
    <3> QED
      BY <3>2, <3>3, <3>4, <3>5
  <2>2. consumed \in Nat
    BY DEF TypeInv
  <2> QED
    BY <1>6, <2>1, <2>2, OrderMoves DEF FinishEffect
<1>7. ASSUME NEW s \in Session, ConnectEffect(s) \/ CloseEffect(s) PROVE OrderInv'
  <2>1. \A r \in Session : inbound'[r] = inbound[r] \/ inbound'[r] = <<>>
    BY <1>7 DEF ConnectEffect, CloseEffect, TypeInv
  <2> QED
    BY <1>7, <1>a, <2>1 DEF ConnectEffect, CloseEffect, Kept
<1>8. ASSUME NEW s \in Session, NEW n \in Sizes, NEW bytes \in Seq(Byte), SendEffect(s, n, bytes)
      PROVE  OrderInv'
  BY <1>8, OrderSent
<1> QED
  BY <1>1, <1>2, <1>3, <1>4, <1>5, <1>6, <1>7, <1>8, NextActs

LEMMA OrderInit == Init => TakenInv /\ OrderInv
<1> SUFFICES ASSUME Init PROVE TakenInv /\ OrderInv
  OBVIOUS
<1>1. DOMAIN <<>> = {} /\ Len(<<>>) = 0 /\ 0 + 1 .. 0 = {}
  OBVIOUS
<1>2. /\ peer = NoPeer /\ waiting = <<>> /\ rx_buffer = <<>> /\ consumed = 0 /\ handled = <<>>
      /\ fresh = {}
      /\ \A s \in Session : ground[s] = "new" /\ inbound[s] = <<>> /\ sent[s] = 0
  BY DEF Init, SessionsInit
<1>3. TakenInv
  BY <1>1, <1>2, SessionsArePeers DEF TakenInv
<1>4. OrderInv
  BY <1>1, <1>2 DEF OrderInv, RestInOrder, InboundInOrder, HandledBefore, RestIsSent, OnceAndInOrder
<1> QED
  BY <1>3, <1>4

\* Whatever is damaged, resynchronised, refused or left half sent: no telecommand
\* is handled twice, nor after one its session sent later.
THEOREM CommandsInOrder == Spec => []OnceAndInOrder
<1> DEFINE I == TypeInv /\ AlwaysRoom /\ TakenInv /\ OrderInv
<1>1. Init => I
  BY TypeInit, OrderInit
<1>2. I /\ [Next]_vars => I'
  BY TypeStep, TakenStep, OrderStep
<1>3. I => OnceAndInOrder
  BY DEF OrderInv
<1> QED
  BY <1>1, <1>2, <1>3, PTL DEF Spec

-----------------------------------------------------------------------------
LEMMA ByteOf ==
  ASSUME NEW S \in Seq(Byte), NEW x \in 1 .. Len(S)
  PROVE  S[x] \in Byte /\ S[x][2] \in Nat /\ S[x][4] \in Nat \ {0} /\ S[x][4] \in Sizes
<1>1. S[x] \in Byte
  OBVIOUS
<1> QED
  BY <1>1, ByteFields, Sizing, SMTT(30)

\* A framed stream that is complete stays so when the next packet comes.
LEMMA NextPacketExtends ==
  ASSUME NEW S \in Seq(Byte), NEW s \in Session, NEW first, NEW last \in Nat, NEW n \in Sizes,
         Framed(S, s, first), Complete(S, first, last)
  PROVE  /\ Framed(S \o Intact(s, last + 1, n), s, first)
         /\ Complete(S \o Intact(s, last + 1, n), first, last + 1)
<1>1. PICK P \in Seq(Byte) :
        /\ P = Intact(s, last + 1, n) /\ Len(P) = n /\ n \in Nat \ {0}
        /\ \A k \in 1 .. n : P[k] = <<s, last + 1, k, n>>
  BY IntactIsAPacket
<1>2. PICK T \in Seq(Byte) :
        /\ T = S \o P /\ Len(T) = Len(S) + n
        /\ \A x \in 1 .. Len(S) : T[x] = S[x]
        /\ \A k \in 1 .. n : T[Len(S) + k] = P[k]
  <2>1. /\ S \o P \in Seq(Byte) /\ Len(S \o P) = Len(S) + Len(P)
        /\ \A x \in 1 .. Len(S) : (S \o P)[x] = S[x]
        /\ \A k \in 1 .. Len(P) : (S \o P)[Len(S) + k] = P[k]
    OBVIOUS
  <2> QED
    BY <1>1, <2>1
<1>3. /\ Len(S) \in Nat /\ DOMAIN S = 1 .. Len(S) /\ DOMAIN T = 1 .. Len(T)
      /\ Len(T) \in Nat /\ Len(T) = Len(S) + n /\ n \in Nat \ {0}
  BY <1>1, <1>2
<1>4. \A k \in 1 .. n : T[Len(S) + k] = <<s, last + 1, k, n>>
  BY <1>1, <1>2
<1>5. T[Len(S) + 1][3] = 1 /\ T[Len(S) + 1][2] = last + 1 /\ T[Len(S) + 1][4] = n
  <2>1. T[Len(S) + 1] = <<s, last + 1, 1, n>>
    BY <1>1, <1>4
  <2> QED
    BY <2>1
<1>6. \A x \in 1 .. Len(T) :
        x \in 1 .. Len(S) \/ \E k \in 1 .. n : x = Len(S) + k
  <2> SUFFICES ASSUME NEW x \in 1 .. Len(S) + n, x \notin 1 .. Len(S)
               PROVE  \E k \in 1 .. n : x = Len(S) + k
    BY <1>2
  <2>1. x - Len(S) \in 1 .. n /\ x = Len(S) + (x - Len(S))
    BY <1>1, <1>3
  <2> QED
    BY <2>1
<1>7. T # <<>> => T[1][3] = 1 /\ T[1][2] = first
  <2>1. CASE S = <<>>
    BY <1>3, <1>5, <2>1 DEF Complete
  <2>2. CASE S # <<>>
    <3>1. 1 \in 1 .. Len(S)
      BY <2>2
    <3> QED
      BY <1>2, <2>2, <3>1 DEF Framed
  <2> QED
    BY <2>1, <2>2
<1>8. ASSUME NEW x \in 1 .. Len(S), S[x][3] = 1
      PROVE  /\ StartsAt(T, x, s)
             /\ x + T[x][4] - 1 <= Len(T) /\ x + T[x][4] - 1 # Len(T)
  <2>1. PICK m \in Nat \ {0} : m = S[x][4]
    BY ByteOf
  <2>2. /\ \A i \in 1 .. m : x + i - 1 <= Len(S) => S[x + i - 1] = <<s, S[x][2], i, m>>
        /\ x + m <= Len(S) => S[x + m][3] = 1 /\ S[x + m][2] = S[x][2] + 1
    BY <1>3, <1>8, <2>1 DEF Framed, StartsAt
  <2>3. x + m - 1 <= Len(S) /\ (x + m - 1 = Len(S) => S[x][2] = last)
    BY <1>3, <1>8, <2>1 DEF Complete
  <2>4. T[x] = S[x]
    BY <1>2
  <2>5. \A i \in 1 .. m : T[x + i - 1] = <<s, S[x][2], i, m>>
    <3>1. \A i \in 1 .. m : x + i - 1 \in 1 .. Len(S) /\ x + i - 1 <= Len(S)
      <4>1. x + m - 1 <= Len(S) /\ m \in Nat /\ x \in 1 .. Len(S)
        BY <2>1, <2>3
      <4> QED
        BY <1>3, <4>1
    <3> QED
      BY <1>2, <2>2, <3>1
  <2>6. T[x + m][3] = 1 /\ T[x + m][2] = S[x][2] + 1
    <3>1. CASE x + m <= Len(S)
      <4>1. x + m \in 1 .. Len(S)
        BY <1>3, <2>1, <3>1
      <4> QED
        BY <1>2, <2>2, <3>1, <4>1
    <3>2. CASE x + m = Len(S) + 1
      <4>1. S[x][2] = last
        <5>1. x + m - 1 = Len(S)
          BY <1>3, <2>1, <3>2, SMTT(30)
        <5> QED
          BY <2>3, <5>1
      <4> QED
        BY <1>5, <3>2, <4>1
    <3>3. x + m - 1 <= Len(S)
      BY <2>3
    <3>4. x + m <= Len(S) \/ x + m = Len(S) + 1
      BY <1>3, <2>1, <3>3, SMTT(30)
    <3> QED
      BY <3>1, <3>2, <3>4
  <2>7. StartsAt(T, x, s)
    BY <2>1, <2>4, <2>5, <2>6 DEF StartsAt
  <2>8. x + m - 1 <= Len(T) /\ x + m - 1 # Len(T)
    <3>1. x + m - 1 <= Len(S)
      BY <2>3
    <3> QED
      BY <1>3, <2>1, <3>1
  <2> QED
    BY <2>1, <2>4, <2>7, <2>8
<1>9. ASSUME NEW k \in 1 .. n, T[Len(S) + k][3] = 1
      PROVE  /\ StartsAt(T, Len(S) + k, s)
             /\ Len(S) + k + T[Len(S) + k][4] - 1 = Len(T) /\ T[Len(S) + k][2] = last + 1
  <2>1. k = 1
    <3>1. T[Len(S) + k] = <<s, last + 1, k, n>>
      BY <1>4
    <3> QED
      BY <1>9, <3>1
  <2>2. \A m \in 1 .. n : T[Len(S) + 1 + m - 1] = <<s, last + 1, m, n>>
    <3>1. \A m \in 1 .. n : Len(S) + 1 + m - 1 = Len(S) + m
      BY <1>1, <1>3
    <3> QED
      BY <1>4, <3>1
  <2>3. ~(Len(S) + 1 + n <= Len(T)) /\ Len(S) + 1 + n - 1 = Len(T)
    BY <1>3
  <2>4. StartsAt(T, Len(S) + 1, s)
    BY <1>5, <2>2, <2>3 DEF StartsAt
  <2> QED
    BY <1>5, <2>1, <2>3, <2>4
<1>10. Framed(T, s, first)
  <2>1. \A x \in DOMAIN T : T[x][3] = 1 => StartsAt(T, x, s)
    <3> SUFFICES ASSUME NEW x \in 1 .. Len(T), T[x][3] = 1
                 PROVE  StartsAt(T, x, s)
      BY <1>3
    <3>1. CASE x \in 1 .. Len(S)
      BY <1>2, <1>8, <3>1
    <3>2. ASSUME NEW k \in 1 .. n, x = Len(S) + k PROVE StartsAt(T, x, s)
      BY <1>9, <3>2
    <3> QED
      BY <1>6, <3>1, <3>2
  <2> QED
    BY <1>7, <2>1 DEF Framed
<1>11. Complete(T, first, last + 1)
  <2>1. T # <<>>
    BY <1>1, <1>2
  <2>2. \A x \in DOMAIN T : T[x][3] = 1 =>
          /\ x + T[x][4] - 1 <= Len(T)
          /\ x + T[x][4] - 1 = Len(T) => T[x][2] = last + 1
    <3> SUFFICES ASSUME NEW x \in 1 .. Len(T), T[x][3] = 1
                 PROVE  /\ x + T[x][4] - 1 <= Len(T)
                        /\ x + T[x][4] - 1 = Len(T) => T[x][2] = last + 1
      BY <1>3
    <3>1. CASE x \in 1 .. Len(S)
      BY <1>2, <1>8, <3>1
    <3>2. ASSUME NEW k \in 1 .. n, x = Len(S) + k
          PROVE  /\ x + T[x][4] - 1 <= Len(T)
                 /\ x + T[x][4] - 1 = Len(T) => T[x][2] = last + 1
      <4>1. x + T[x][4] - 1 = Len(T) /\ T[x][2] = last + 1
        BY <1>9, <3>2
      <4> QED
        BY <1>3, <4>1
    <3> QED
      BY <1>6, <3>1, <3>2
  <2> QED
    BY <2>1, <2>2 DEF Complete
<1> QED
  BY <1>1, <1>2, <1>10, <1>11

\* What is behind the first packet of a framed stream is framed, from the next
\* number on, and no less complete.
LEMMA BehindTheFirst ==
  ASSUME NEW S \in Seq(Byte), NEW s \in Session, NEW first, S # <<>>, Framed(S, s, first),
         S[1][4] <= Len(S)
  PROVE  /\ Framed(SubSeq(S, S[1][4] + 1, Len(S)), s, first + 1)
         /\ \A last \in Nat : Complete(S, first, last) =>
              Complete(SubSeq(S, S[1][4] + 1, Len(S)), first + 1, last)
<1>1. 1 \in 1 .. Len(S) /\ Len(S) \in Nat /\ DOMAIN S = 1 .. Len(S)
  OBVIOUS
<1>2. PICK n \in Nat \ {0} : n = S[1][4] /\ n <= Len(S)
  BY <1>1, ByteOf
<1>3. PICK U \in Seq(Byte) :
        /\ U = SubSeq(S, n + 1, Len(S)) /\ Len(U) = Len(S) - n
        /\ \A x \in 1 .. Len(U) : U[x] = S[n + x]
  <2>1. /\ SubSeq(S, n + 1, Len(S)) \in Seq(Byte)
        /\ Len(SubSeq(S, n + 1, Len(S))) = Len(S) - n
        /\ \A x \in 1 .. Len(S) - n : SubSeq(S, n + 1, Len(S))[x] = S[n + x]
    BY <1>2, SMTT(30)
  <2> QED
    BY <2>1
<1>4. /\ Len(U) \in Nat /\ DOMAIN U = 1 .. Len(U) /\ Len(U) = Len(S) - n
      /\ Len(S) \in Nat /\ n \in Nat \ {0} /\ n <= Len(S)
  <2>1. Len(U) \in Nat /\ DOMAIN U = 1 .. Len(U)
    OBVIOUS
  <2> QED
    BY <1>1, <1>2, <1>3, <2>1
<1>5. /\ S[1][2] = first /\ S[1][3] = 1
      /\ 1 + n <= Len(S) => S[1 + n][3] = 1 /\ S[1 + n][2] = first + 1
  BY <1>1, <1>2 DEF Framed, StartsAt
<1>6. U # <<>> => U[1][3] = 1 /\ U[1][2] = first + 1
  <2> SUFFICES ASSUME U # <<>> PROVE U[1][3] = 1 /\ U[1][2] = first + 1
    OBVIOUS
  <2>1. 1 \in 1 .. Len(U)
    OBVIOUS
  <2>2. n + 1 = 1 + n /\ 1 + n <= Len(S)
    BY <1>4, <2>1
  <2>3. U[1] = S[n + 1]
    BY <1>3, <2>1
  <2> QED
    BY <1>5, <2>2, <2>3
<1>7. ASSUME NEW x \in 1 .. Len(U)
      PROVE  n + x \in DOMAIN S /\ U[x] = S[n + x] /\ U[x][4] \in Nat \ {0}
  <2>1. n + x \in 1 .. Len(S)
    BY <1>4
  <2>2. U[x] = S[n + x]
    BY <1>3
  <2> QED
    BY <1>1, <2>1, <2>2, ByteOf
<1>8. ASSUME NEW x \in 1 .. Len(U), U[x][3] = 1
      PROVE  StartsAt(U, x, s)
  <2>1. PICK m \in Nat \ {0} : m = U[x][4] /\ m = S[n + x][4]
    BY <1>7
  <2>2. /\ \A i \in 1 .. m : n + x + i - 1 <= Len(S) => S[n + x + i - 1] = <<s, S[n + x][2], i, m>>
        /\ n + x + m <= Len(S) => S[n + x + m][3] = 1 /\ S[n + x + m][2] = S[n + x][2] + 1
    <3>1. StartsAt(S, n + x, s)
      BY <1>7, <1>8 DEF Framed
    <3> QED
      BY <2>1, <3>1 DEF StartsAt
  <2>3. ASSUME NEW i \in 1 .. m, x + i - 1 <= Len(U)
        PROVE  U[x + i - 1] = <<s, U[x][2], i, m>>
    <3>1. /\ x + i - 1 \in 1 .. Len(U) /\ n + (x + i - 1) = n + x + i - 1
          /\ n + x + i - 1 <= Len(S)
      BY <1>4, <2>1, <2>3
    <3>2. U[x + i - 1] = S[n + x + i - 1]
      BY <1>3, <3>1
    <3> QED
      BY <1>7, <2>2, <3>1, <3>2
  <2>4. ASSUME x + m <= Len(U)
        PROVE  U[x + m][3] = 1 /\ U[x + m][2] = U[x][2] + 1
    <3>1. x + m \in 1 .. Len(U) /\ n + (x + m) = n + x + m /\ n + x + m <= Len(S)
      BY <1>4, <2>1, <2>4, SMTT(30)
    <3>2. U[x + m] = S[n + x + m]
      BY <1>3, <3>1
    <3> QED
      BY <1>7, <2>2, <3>1, <3>2
  <2> QED
    BY <2>1, <2>3, <2>4 DEF StartsAt
<1>9. Framed(U, s, first + 1)
  BY <1>4, <1>6, <1>8 DEF Framed
<1>10. ASSUME NEW last \in Nat, Complete(S, first, last)
       PROVE  Complete(U, first + 1, last)
  <2>1. U = <<>> => first + 1 = last + 1
    <3> SUFFICES ASSUME U = <<>> PROVE first = last
      OBVIOUS
    <3>1. 1 + n - 1 = Len(S)
      BY <1>1, <1>2, <1>3
    <3> QED
      BY <1>1, <1>2, <1>5, <1>10, <3>1 DEF Complete
  <2>2. ASSUME NEW x \in 1 .. Len(U), U[x][3] = 1
        PROVE  /\ x + U[x][4] - 1 <= Len(U)
               /\ x + U[x][4] - 1 = Len(U) => U[x][2] = last
    <3>1. PICK m \in Nat \ {0} : m = U[x][4] /\ m = S[n + x][4]
      BY <1>7
    <3>2. n + x + m - 1 <= Len(S) /\ (n + x + m - 1 = Len(S) => S[n + x][2] = last)
      BY <1>7, <1>10, <2>2, <3>1 DEF Complete
    <3>3. x + m - 1 <= Len(U) /\ (x + m - 1 = Len(U) => n + x + m - 1 = Len(S))
      <4>1. n + x + m - 1 <= Len(S)
        BY <3>2
      <4>2. m \in Nat /\ x \in Nat
        BY <1>4, <3>1
      <4> QED
        BY <1>4, <4>1, <4>2
    <3> QED
      BY <1>7, <3>1, <3>2, <3>3
  <2> QED
    BY <1>4, <2>1, <2>2 DEF Complete
<1> QED
  BY <1>2, <1>3, <1>9, <1>10

\* Bytes that are lost at the end of a stream leave the rest framed.
LEMMA BeginningIsFramed ==
  ASSUME NEW S \in Seq(Byte), NEW Q \in Seq(Byte), NEW s \in Session, NEW first,
         Framed(S \o Q, s, first)
  PROVE  Framed(S, s, first)
<1>1. PICK T \in Seq(Byte) :
        /\ T = S \o Q /\ Len(T) = Len(S) + Len(Q)
        /\ \A x \in 1 .. Len(S) : T[x] = S[x]
  <2>1. /\ S \o Q \in Seq(Byte) /\ Len(S \o Q) = Len(S) + Len(Q)
        /\ \A x \in 1 .. Len(S) : (S \o Q)[x] = S[x]
    OBVIOUS
  <2> QED
    BY <2>1
<1>2. /\ DOMAIN S = 1 .. Len(S) /\ Len(S) \in Nat /\ DOMAIN T = 1 .. Len(T) /\ Len(T) \in Nat
      /\ Len(S) <= Len(T)
  BY <1>1
<1>3. S # <<>> => S[1][3] = 1 /\ S[1][2] = first
  <2> SUFFICES ASSUME S # <<>> PROVE S[1][3] = 1 /\ S[1][2] = first
    OBVIOUS
  <2>1. 1 \in 1 .. Len(S) /\ 1 \in 1 .. Len(T)
    BY <1>2
  <2>2. T # <<>>
    BY <2>1
  <2> QED
    BY <1>1, <2>1, <2>2 DEF Framed
<1>4. ASSUME NEW x \in 1 .. Len(S), S[x][3] = 1 PROVE StartsAt(S, x, s)
  <2>1. PICK m \in Nat \ {0} : m = S[x][4]
    BY ByteOf
  <2>2. T[x] = S[x] /\ x \in DOMAIN T
    BY <1>1, <1>2
  <2>3. StartsAt(T, x, s)
    BY <1>1, <1>4, <2>2 DEF Framed
  <2>4. ASSUME NEW i \in 1 .. m, x + i - 1 <= Len(S)
        PROVE  S[x + i - 1] = <<s, S[x][2], i, m>>
    <3>1. x + i - 1 \in 1 .. Len(S) /\ x + i - 1 <= Len(T)
      BY <1>2, <2>1, <2>4
    <3> QED
      BY <1>1, <2>1, <2>2, <2>3, <3>1 DEF StartsAt
  <2>5. ASSUME x + m <= Len(S) PROVE S[x + m][3] = 1 /\ S[x + m][2] = S[x][2] + 1
    <3>1. x + m \in 1 .. Len(S) /\ x + m <= Len(T)
      BY <1>2, <2>1, <2>5
    <3> QED
      BY <1>1, <2>1, <2>2, <2>3, <3>1 DEF StartsAt
  <2> QED
    BY <2>1, <2>4, <2>5 DEF StartsAt
<1> QED
  BY <1>2, <1>3, <1>4 DEF Framed

-----------------------------------------------------------------------------
\* Of a connection still to be taken, everything sent is there, or lost with it.
LEMMA UntakenFramedStep ==
  ASSUME TypeInv, TypeInv', AlwaysRoom, TakenInv, UntakenFramed, [Next]_vars
  PROVE  UntakenFramed'
<1>e. \A s \in Session : Framed(<<>>, s, 1)
  BY DEF Framed
<1>a. ASSUME sent' = sent, damaged' = damaged,
             \A s \in Session : Untaken(s)' =>
               /\ Untaken(s)
               /\ \/ /\ inbound'[s] = inbound[s]
                     /\ ground'[s] \in {"new", "up"} => ground[s] \in {"new", "up"}
                  \/ inbound'[s] = <<>> /\ ground'[s] = "gone"
      PROVE  UntakenFramed'
  <2> SUFFICES ASSUME NEW s \in Session, s \notin damaged, Untaken(s)'
               PROVE  /\ Framed(inbound'[s], s, 1)
                      /\ ground'[s] \in {"new", "up"} => Complete(inbound'[s], 1, sent'[s])
    BY <1>a DEF UntakenFramed, FramedFrom
  <2>1. /\ Framed(inbound[s], s, 1)
        /\ ground[s] \in {"new", "up"} => Complete(inbound[s], 1, sent[s])
    BY <1>a DEF UntakenFramed, FramedFrom
  <2>2. CASE inbound'[s] = inbound[s] /\ (ground'[s] \in {"new", "up"} => ground[s] \in {"new", "up"})
    BY <1>a, <2>1, <2>2
  <2>3. CASE inbound'[s] = <<>> /\ ground'[s] = "gone"
    BY <1>e, <2>3
  <2> QED
    BY <1>a, <2>2, <2>3
<1>1. CASE UNCHANGED <<waiting, ground, inbound, sent, damaged>>
  BY <1>1, <1>a DEF Untaken
<1>2. CASE PollEffect
  <2>1. CASE UNCHANGED <<waiting, ground, inbound, fresh>>
    BY <1>1, <1>2, <2>1 DEF PollEffect, Kept
  <2>2. CASE /\ waiting # <<>> /\ waiting' = Tail(waiting)
             /\ ground'  = [ground EXCEPT ![Head(waiting)] = "refused"]
             /\ inbound' = [inbound EXCEPT ![Head(waiting)] = <<>>]
    <3>1. PICK h \in Session : h = Head(waiting)
      BY <2>2, TailOfWaiting
    <3>2. \A s \in Session : ground'[s] = IF s = h THEN "refused" ELSE ground[s]
      BY <2>2, <3>1 DEF TypeInv
    <3>3. \A s \in Session : s # h => inbound'[s] = inbound[s]
      BY <2>2, <3>1 DEF TypeInv
    <3>4. \A s \in Session : Untaken(s)' => Untaken(s) /\ s # h
      BY <2>2, <3>1, <3>2, TailOfWaiting DEF Untaken
    <3> QED
      BY <1>2, <1>a, <3>2, <3>3, <3>4 DEF PollEffect, Kept
  <2>3. CASE waiting # <<>> /\ waiting' = Tail(waiting) /\ UNCHANGED <<ground, inbound>>
    <3>1. \A s \in Session : Untaken(s)' => Untaken(s)
      BY <2>3, TailOfWaiting DEF Untaken
    <3> QED
      BY <1>2, <1>a, <2>3, <3>1 DEF PollEffect, Kept
  <2> QED
    BY <1>2, <2>1, <2>2, <2>3 DEF PollEffect
<1>3. CASE ReceiveEffect
  <2>1. CASE UNCHANGED inbound
    BY <1>1, <1>3, <2>1 DEF ReceiveEffect, Kept
  <2>2. ASSUME peer # NoPeer, NEW left, inbound' = [inbound EXCEPT ![peer] = left]
        PROVE  UntakenFramed'
    <3>1. peer \in Session
      BY <2>2 DEF TypeInv
    <3>2. \A s \in Session : Untaken(s)' => Untaken(s) /\ s # peer
      BY <1>3 DEF Untaken, ReceiveEffect, TakenInv
    <3>3. \A s \in Session : s # peer => inbound'[s] = inbound[s]
      BY <2>2, <3>1 DEF TypeInv
    <3> QED
      BY <1>3, <1>a, <3>2, <3>3 DEF ReceiveEffect, Kept
  <2> QED
    BY <1>3, <2>1, <2>2 DEF ReceiveEffect
<1>4. ASSUME NEW s \in Session, ConnectEffect(s) PROVE UntakenFramed'
  <2>1. waiting \in Seq(Session)
    BY DEF TypeInv
  <2>2. \A k \in DOMAIN waiting' : waiting'[k] = s \/ (k \in DOMAIN waiting /\ waiting'[k] = waiting[k])
    BY <1>4, <2>1 DEF ConnectEffect
  <2>3. \A r \in Session : ground'[r] = IF r = s THEN "up" ELSE ground[r]
    BY <1>4 DEF ConnectEffect, TypeInv
  <2>4. \A r \in Session : Untaken(r)' => Untaken(r)
    BY <1>4, <2>2, <2>3 DEF Untaken, ConnectEffect
  <2>5. \A r \in Session : ground'[r] \in {"new", "up"} => ground[r] \in {"new", "up"}
    BY <1>4, <2>3 DEF ConnectEffect
  <2> QED
    BY <1>4, <1>a, <2>4, <2>5 DEF ConnectEffect, Kept
<1>5. ASSUME NEW s \in Session, CloseEffect(s) PROVE UntakenFramed'
  <2>1. \A r \in Session : ground'[r] = IF r = s THEN "gone" ELSE ground[r]
    BY <1>5 DEF CloseEffect, TypeInv
  <2>2. \A r \in Session : Untaken(r)' => Untaken(r)
    BY <1>5, <2>1 DEF Untaken, CloseEffect
  <2>3. \A r \in Session :
          inbound'[r] = inbound[r] \/ (r = s /\ inbound'[r] = <<>> /\ ground'[r] = "gone")
    BY <1>5, <2>1 DEF CloseEffect, TypeInv
  <2>4. \A r \in Session : ground'[r] \in {"new", "up"} => ground[r] \in {"new", "up"}
    BY <1>5, <2>1 DEF CloseEffect
  <2> QED
    BY <1>5, <1>a, <2>2, <2>3, <2>4 DEF CloseEffect, Kept
<1>6. ASSUME NEW s \in Session, NEW n \in Sizes, NEW bytes \in Seq(Byte), SendEffect(s, n, bytes)
      PROVE  UntakenFramed'
  <2> SUFFICES ASSUME NEW r \in Session, r \notin damaged', Untaken(r)'
               PROVE  /\ Framed(inbound'[r], r, 1)
                      /\ ground'[r] \in {"new", "up"} => Complete(inbound'[r], 1, sent'[r])
    BY DEF UntakenFramed, FramedFrom
  <2>1. /\ Framed(inbound[r], r, 1)
        /\ ground[r] \in {"new", "up"} => Complete(inbound[r], 1, sent[r])
    <3>1. Untaken(r) /\ r \notin damaged
      BY <1>6 DEF SendEffect, Untaken
    <3> QED
      BY <3>1 DEF UntakenFramed, FramedFrom
  <2>2. CASE r # s
    <3>1. inbound'[r] = inbound[r] /\ ground' = ground /\ sent'[r] = sent[r]
      BY <1>6, <2>2 DEF SendEffect, TypeInv
    <3> QED
      BY <2>1, <3>1
  <2>3. CASE r = s
    <3>1. bytes = Intact(s, sent[s] + 1, n) /\ ground[s] = "up"
      BY <1>6, <2>3 DEF SendEffect
    <3>2. inbound[s] \in Seq(Byte) /\ sent[s] \in Nat
      BY DEF TypeInv
    <3>3. /\ Framed(inbound[s] \o bytes, s, 1)
          /\ Complete(inbound[s] \o bytes, 1, sent[s] + 1)
      BY <2>1, <2>3, <3>1, <3>2, NextPacketExtends
    <3>4. inbound'[s] = inbound[s] \o bytes /\ sent'[s] = sent[s] + 1
      BY <1>6 DEF SendEffect, TypeInv
    <3> QED
      BY <2>3, <3>3, <3>4
  <2> QED
    BY <2>2, <2>3
<1>7. CASE UNCHANGED vars
  BY <1>1, <1>7 DEF vars, connections, software, past
<1> QED
  BY <1>1, <1>2, <1>3, <1>4, <1>5, <1>6, <1>7, NextActs
     DEF SampleEffect, DrainEffect, FinishEffect, Kept

-----------------------------------------------------------------------------
\* The number of the last telecommand of session s in a list of those handled.
LastIn(list, s) ==
  LET of == {k \in DOMAIN list : list[k][1] = s}
  IN IF of = {} THEN 0 ELSE list[CHOOSE k \in of : \A j \in of : j <= k][2]

LEMMA LastIsOfTheList == ASSUME NEW s PROVE Last(s) = LastIn(handled, s)
BY DEF Last, HandledIn, LastIn

LEMMA NobodysLast ==
  ASSUME NEW list, NEW s, \A k \in DOMAIN list : list[k][1] # s
  PROVE  LastIn(list, s) = 0
BY DEF LastIn

LEMMA AppendedIsLast ==
  ASSUME NEW list \in Seq(Session \X Nat), NEW s \in Session, NEW i \in Nat
  PROVE  LastIn(Append(list, <<s, i>>), s) = i
<1>1. PICK longer \in Seq(Session \X Nat) :
        /\ longer = Append(list, <<s, i>>) /\ Len(longer) = Len(list) + 1
        /\ longer[Len(list) + 1] = <<s, i>>
  <2>1. PICK h \in Session \X Nat : h = <<s, i>>
    OBVIOUS
  <2>2. /\ Append(list, h) \in Seq(Session \X Nat) /\ Len(Append(list, h)) = Len(list) + 1
        /\ Append(list, h)[Len(list) + 1] = h
    OBVIOUS
  <2> QED
    BY <2>1, <2>2
<1>2. PICK n \in Nat : n = Len(list) + 1 /\ DOMAIN longer = 1 .. n
  BY <1>1
<1>3. PICK of \in SUBSET (1 .. n) : of = {k \in DOMAIN longer : longer[k][1] = s}
  BY <1>2
<1>4. n \in of
  BY <1>1, <1>2, <1>3
<1>5. (CHOOSE k \in of : \A j \in of : j <= k) = n
  <2> DEFINE c == CHOOSE k \in of : \A j \in of : j <= k
  <2>1. \E k \in of : \A j \in of : j <= k
    BY <1>4
  <2>2. c \in of /\ \A j \in of : j <= c
    BY <2>1
  <2> HIDE DEF c
  <2>3. c = n
    BY <1>4, <2>2
  <2> QED
    BY <2>3 DEF c
<1>6. LastIn(longer, s) = longer[n][2]
  BY <1>3, <1>4, <1>5 DEF LastIn
<1> QED
  BY <1>1, <1>2, <1>6

LEMMA WholeSequence == ASSUME NEW r \in Seq(Byte) PROVE SubSeq(r, 0 + 1, Len(r)) = r
BY SubSeqFull

LEMMA Reassociate ==
  ASSUME NEW a \in Seq(Byte), NEW b \in Seq(Byte), NEW c \in Seq(Byte)
  PROVE  (a \o b) \o c = a \o (b \o c)
OBVIOUS

LEMMA StreamIsASequence ==
  ASSUME TypeInv, peer # NoPeer
  PROVE  /\ peer \in Session /\ inbound[peer] \in Seq(Byte) /\ Rest \in Seq(Byte)
         /\ Stream \in Seq(Byte) /\ Len(Stream) = Available + Len(inbound[peer])
         /\ \A k \in 1 .. Available : Stream[k] = At(k)
<1>1. peer \in Session /\ inbound[peer] \in Seq(Byte)
  BY DEF TypeInv
<1>2. PICK q \in Seq(Byte) : q = inbound[peer]
  BY <1>1
<1>3. PICK rest \in Seq(Byte) : rest = Rest
  BY RestIsASequence
<1>4. /\ rest \o q \in Seq(Byte) /\ Len(rest \o q) = Len(rest) + Len(q)
      /\ \A k \in 1 .. Len(rest) : (rest \o q)[k] = rest[k]
  OBVIOUS
<1>5. Len(rest) = Available /\ \A k \in 1 .. Available : rest[k] = At(k)
  BY <1>3, RestIsASequence DEF At
<1> QED
  BY <1>1, <1>2, <1>3, <1>4, <1>5 DEF Stream

\* In an undamaged session what is looked at next is the next packet.
LEMMA NextPacket ==
  ASSUME TypeInv, StreamFramed, peer \in fresh, peer \notin damaged, Available > 0
  PROVE  \E n \in Sizes :
           /\ n \in Nat \ {0} /\ At(1)[4] = n /\ At(1)[2] = Last(peer) + 1 /\ At(1)[1] = peer
           /\ \A k \in 1 .. n : k <= Available => At(k) = <<peer, Last(peer) + 1, k, n>>
<1>1. peer \in Session /\ peer # NoPeer
  BY SessionsArePeers DEF TypeInv
<1>2. Framed(Stream, peer, Last(peer) + 1)
  BY DEF StreamFramed, FramedFrom
<1>3. PICK S \in Seq(Byte) :
        /\ S = Stream /\ Len(S) = Available + Len(inbound[peer])
        /\ \A k \in 1 .. Available : S[k] = At(k)
  BY <1>1, StreamIsASequence
<1>4. /\ Available \in Nat /\ Len(inbound[peer]) \in Nat /\ DOMAIN S = 1 .. Len(S)
  BY <1>1, RestIsASequence, StreamIsASequence
<1>5. 1 \in 1 .. Len(S) /\ 1 \in 1 .. Available /\ S # <<>>
  BY <1>3, <1>4
<1>6. PICK n \in Sizes : n \in Nat \ {0} /\ n = S[1][4]
  BY <1>5, ByteOf
<1>7. S[1][3] = 1 /\ S[1][2] = Last(peer) + 1 /\ StartsAt(S, 1, peer)
  BY <1>2, <1>3, <1>4, <1>5 DEF Framed
<1>8. \A k \in 1 .. n : k <= Available => At(k) = <<peer, Last(peer) + 1, k, n>>
  <2> SUFFICES ASSUME NEW k \in 1 .. n, k <= Available
               PROVE  At(k) = <<peer, Last(peer) + 1, k, n>>
    OBVIOUS
  <2>1. 1 + k - 1 = k /\ k \in 1 .. Available /\ 1 + k - 1 <= Len(S)
    BY <1>3, <1>4, <1>6
  <2>2. S[1 + k - 1] = <<peer, S[1][2], k, n>>
    BY <1>6, <1>7, <2>1 DEF StartsAt
  <2> QED
    BY <1>3, <1>7, <2>1, <2>2
<1>9. At(1)[4] = n /\ At(1)[2] = Last(peer) + 1
  BY <1>3, <1>5, <1>6, <1>7
<1>10. At(1)[1] = peer
  <2>1. At(1) = <<peer, Last(peer) + 1, 1, n>>
    BY <1>4, <1>5, <1>6, <1>8
  <2> QED
    BY <2>1
<1> QED
  BY <1>6, <1>8, <1>9, <1>10

\* So it is taken for what it is: nothing of it is dropped, and it is waited for.
LEMMA NothingElseIsThere ==
  ASSUME TypeInv, StreamFramed, peer \in fresh, peer \notin damaged, Available >= HeaderBytes
  PROVE  /\ Totals = {At(1)[4]} /\ At(1)[4] \in Sizes /\ At(1)[4] <= MaxPacketBytes
         /\ At(1)[1] = peer /\ At(1)[2] = Last(peer) + 1
         /\ At(1)[4] <= Available => ParsesAs(At(1)[4])
<1>1. Available \in Nat /\ Available > 0
  BY RestIsASequence, Sizing
<1>2. PICK n \in Sizes :
        /\ n \in Nat \ {0} /\ At(1)[4] = n /\ At(1)[2] = Last(peer) + 1 /\ At(1)[1] = peer
        /\ \A k \in 1 .. n : k <= Available => At(k) = <<peer, Last(peer) + 1, k, n>>
  BY <1>1, NextPacket
<1>3. Aligned(HeaderBytes)
  <2>1. \A k \in 1 .. HeaderBytes : k \in 1 .. n /\ k <= Available
    BY <1>1, <1>2, Sizing
  <2> QED
    BY <1>2, <2>1 DEF Aligned
<1>4. n <= Available => Aligned(n)
  <2>1. n <= Available => \A k \in 1 .. n : k <= Available
    BY <1>1, <1>2
  <2> QED
    BY <1>2, <2>1 DEF Aligned
<1> QED
  BY <1>2, <1>3, <1>4, Sizing DEF Totals, ParsesAs

\* A step that takes nothing of the peer's stream, or the peer itself.
LEMMA StreamKept ==
  ASSUME TypeInv, StreamFramed, peer' \in {peer, NoPeer}, NoPeer \notin Session,
         UNCHANGED <<handled, sent>>, damaged \subseteq damaged',
         fresh' \in SUBSET Session, fresh' \subseteq fresh,
         peer' = peer /\ peer \in fresh =>
           /\ Stream' = Stream
           /\ ground'[peer] \in {"new", "up"} => ground[peer] \in {"new", "up"}
  PROVE  StreamFramed'
<1> SUFFICES ASSUME peer' \in fresh' \ damaged'
             PROVE  /\ Framed(Stream', peer', Last(peer)' + 1)
                    /\ ground'[peer'] \in {"new", "up"} =>
                         Complete(Stream', Last(peer)' + 1, sent'[peer'])
  BY DEF StreamFramed, FramedFrom
<1>1. peer' = peer /\ peer \in fresh \ damaged
  OBVIOUS
<1>2. Last(peer) = LastIn(handled, peer) /\ Last(peer)' = LastIn(handled', peer')
  BY LastIsOfTheList DEF Last, HandledIn, LastIn
<1>3. Last(peer)' = Last(peer)
  BY <1>1, <1>2
<1>4. /\ Framed(Stream, peer, Last(peer) + 1)
      /\ ground[peer] \in {"new", "up"} => Complete(Stream, Last(peer) + 1, sent[peer])
  BY <1>1 DEF StreamFramed, FramedFrom
<1> QED
  BY <1>1, <1>3, <1>4

LEMMA DropOfJoined ==
  ASSUME NEW r \in Seq(Byte), NEW q \in Seq(Byte), NEW c \in Nat, NEW n \in Nat,
         c + n <= Len(r)
  PROVE  SubSeq(SubSeq(r, c + 1, Len(r)) \o q, n + 1, Len(SubSeq(r, c + 1, Len(r)) \o q))
           = SubSeq(r, c + n + 1, Len(r)) \o q
<1>1. PICK u \in Seq(Byte) :
        /\ u = SubSeq(r, c + 1, Len(r)) /\ Len(u) = Len(r) - c
        /\ \A k \in 1 .. Len(r) - c : u[k] = r[c + k]
  <2>1. /\ SubSeq(r, c + 1, Len(r)) \in Seq(Byte) /\ Len(SubSeq(r, c + 1, Len(r))) = Len(r) - c
        /\ \A k \in 1 .. Len(r) - c : SubSeq(r, c + 1, Len(r))[k] = r[c + k]
    OBVIOUS
  <2> QED
    BY <2>1
<1>2. PICK v \in Seq(Byte) :
        /\ v = SubSeq(r, c + n + 1, Len(r)) /\ Len(v) = Len(r) - c - n
        /\ \A k \in 1 .. Len(r) - c - n : v[k] = r[c + n + k]
  <2>1. /\ SubSeq(r, c + n + 1, Len(r)) \in Seq(Byte)
        /\ Len(SubSeq(r, c + n + 1, Len(r))) = Len(r) - c - n
        /\ \A k \in 1 .. Len(r) - c - n : SubSeq(r, c + n + 1, Len(r))[k] = r[c + n + k]
    OBVIOUS
  <2> QED
    BY <2>1
<1>3. PICK S \in Seq(Byte) :
        /\ S = u \o q /\ Len(S) = Len(u) + Len(q)
        /\ \A k \in 1 .. Len(u) : S[k] = u[k]
        /\ \A k \in 1 .. Len(q) : S[Len(u) + k] = q[k]
  <2>1. /\ u \o q \in Seq(Byte) /\ Len(u \o q) = Len(u) + Len(q)
        /\ \A k \in 1 .. Len(u) : (u \o q)[k] = u[k]
        /\ \A k \in 1 .. Len(q) : (u \o q)[Len(u) + k] = q[k]
    OBVIOUS
  <2> QED
    BY <2>1
<1>4. PICK T \in Seq(Byte) :
        /\ T = v \o q /\ Len(T) = Len(v) + Len(q)
        /\ \A k \in 1 .. Len(v) : T[k] = v[k]
        /\ \A k \in 1 .. Len(q) : T[Len(v) + k] = q[k]
  <2>1. /\ v \o q \in Seq(Byte) /\ Len(v \o q) = Len(v) + Len(q)
        /\ \A k \in 1 .. Len(v) : (v \o q)[k] = v[k]
        /\ \A k \in 1 .. Len(q) : (v \o q)[Len(v) + k] = q[k]
    OBVIOUS
  <2> QED
    BY <2>1
<1>5. PICK a \in Nat, b \in Nat, d \in Nat :
        /\ a = Len(u) /\ b = Len(v) /\ d = Len(q) /\ Len(S) = a + d /\ Len(T) = b + d
        /\ a = b + n
  <2>1. Len(u) = Len(r) - c /\ Len(v) = Len(r) - c - n
    BY <1>1, <1>2
  <2>2. Len(S) = Len(u) + Len(q) /\ Len(T) = Len(v) + Len(q)
    BY <1>3, <1>4
  <2>3. Len(u) \in Nat /\ Len(v) \in Nat /\ Len(q) \in Nat /\ Len(r) \in Nat
    OBVIOUS
  <2>4. Len(u) = Len(v) + n
    BY <2>1, <2>3
  <2> QED
    BY <2>2, <2>3, <2>4
<1>6. PICK W \in Seq(Byte) :
        /\ W = SubSeq(S, n + 1, Len(S)) /\ Len(W) = b + d
        /\ \A k \in 1 .. b + d : W[k] = S[n + k]
  <2>1. n <= Len(S) /\ Len(S) - n = b + d
    BY <1>5
  <2>2. /\ SubSeq(S, n + 1, Len(S)) \in Seq(Byte) /\ Len(SubSeq(S, n + 1, Len(S))) = Len(S) - n
        /\ \A k \in 1 .. Len(S) - n : SubSeq(S, n + 1, Len(S))[k] = S[n + k]
    BY <2>1
  <2> QED
    BY <2>1, <2>2
<1>7. ASSUME NEW k \in 1 .. b + d PROVE W[k] = T[k]
  <2>1. W[k] = S[n + k]
    BY <1>6
  <2>2. CASE k \in 1 .. b
    <3>1. n + k \in 1 .. a /\ c + (n + k) = c + n + k
      BY <1>5, <2>2
    <3>2. S[n + k] = r[c + (n + k)]
      BY <1>1, <1>3, <1>5, <3>1
    <3>3. T[k] = r[c + n + k]
      BY <1>2, <1>4, <1>5, <2>2
    <3> QED
      BY <2>1, <3>1, <3>2, <3>3
  <2>3. CASE k \notin 1 .. b
    <3>1. PICK i \in 1 .. d : k = b + i
      <4>1. k - b \in 1 .. d /\ k = b + (k - b)
        BY <1>5, <2>3
      <4> QED
        BY <4>1
    <3>2. n + k = a + i
      BY <1>5, <3>1
    <3>3. S[a + i] = q[i] /\ T[b + i] = q[i]
      BY <1>3, <1>4, <1>5
    <3> QED
      BY <2>1, <3>1, <3>2, <3>3
  <2> QED
    BY <2>2, <2>3
<1>8. W = T
  <2>1. Len(W) = Len(T) /\ \A k \in 1 .. Len(W) : W[k] = T[k]
    BY <1>5, <1>6, <1>7
  <2> QED
    BY <2>1, SeqEqual
<1> QED
  BY <1>1, <1>2, <1>3, <1>4, <1>6, <1>8

\* A telecommand of the peer is handled: the stream begins behind it.
LEMMA StreamDrained ==
  ASSUME TypeInv, TypeInv', StreamFramed, DrainOne
  PROVE  StreamFramed'
<1>1. /\ peer' \in {peer, NoPeer} /\ Available >= HeaderBytes
      /\ UNCHANGED <<waiting, ground, inbound, rx_buffer, sent, fresh, damaged>>
  BY PeerMayGo DEF DrainOne
<1> SUFFICES ASSUME peer' \in fresh' \ damaged'
             PROVE  /\ Framed(Stream', peer', Last(peer)' + 1)
                    /\ ground'[peer'] \in {"new", "up"} =>
                         Complete(Stream', Last(peer)' + 1, sent'[peer'])
  BY DEF StreamFramed, FramedFrom
<1>2. peer' = peer /\ peer \in fresh /\ peer \notin damaged /\ peer \in Session /\ peer # NoPeer
  BY <1>1, SessionsArePeers DEF TypeInv
<1>3. PICK n \in Sizes :
        /\ n = At(1)[4] /\ Totals = {n} /\ n <= MaxPacketBytes /\ n \in Nat \ {0}
        /\ At(1)[1] = peer /\ At(1)[2] = Last(peer) + 1
        /\ n <= Available => ParsesAs(n)
  <2>1. /\ Totals = {At(1)[4]} /\ At(1)[4] \in Sizes /\ At(1)[4] <= MaxPacketBytes
        /\ At(1)[1] = peer /\ At(1)[2] = Last(peer) + 1
        /\ At(1)[4] <= Available => ParsesAs(At(1)[4])
    BY <1>1, <1>2, NothingElseIsThere
  <2>2. \A n \in Sizes : n \in Nat \ {0}
    BY Sizing
  <2> QED
    BY <2>1, <2>2
<1>4. n <= Available /\ Accept(n)
  <2>1. PICK total \in Totals :
          \/ total > MaxPacketBytes /\ Reject(1)
          \/ total <= MaxPacketBytes /\ total <= Available
               /\ IF ParsesAs(total) THEN Accept(total) ELSE Reject(total)
    BY DEF DrainOne
  <2>2. total = n /\ ~(total > MaxPacketBytes)
    BY <1>3, <2>1, Sizing
  <2> QED
    BY <1>3, <2>1, <2>2
<1>5. /\ consumed' = consumed + n
      /\ handled' = Append(handled, <<peer, Last(peer) + 1>>)
  BY <1>3, <1>4 DEF Accept
<1>6. At(1)[2] \in Nat
  BY <1>1, TotalsAreSizes, ByteFields
<1>7. PICK last \in Nat : last = Last(peer) + 1
  BY <1>3, <1>6
<1>8. Last(peer)' = last
  <2>1. Last(peer)' = LastIn(handled', peer')
    BY DEF Last, HandledIn, LastIn
  <2>2. handled \in Seq(Session \X Nat)
    BY DEF TypeInv
  <2> QED
    BY <1>2, <1>5, <1>7, <2>1, <2>2, AppendedIsLast
<1>9. PICK S \in Seq(Byte) :
        /\ S = Stream /\ Len(S) = Available + Len(inbound[peer])
        /\ \A k \in 1 .. Available : S[k] = At(k)
  BY <1>2, StreamIsASequence
<1>10. Available \in Nat /\ Len(inbound[peer]) \in Nat /\ 1 \in 1 .. Available
  BY <1>1, <1>2, StreamIsASequence, RestIsASequence, Sizing
<1>11. S # <<>> /\ S[1][4] = n /\ n <= Len(S)
  <2>1. S[1] = At(1)
    BY <1>9, <1>10
  <2>2. n <= Len(S) /\ Len(S) > 0
    <3>1. n <= Available
      BY <1>4
    <3>2. Len(S) = Available + Len(inbound[peer])
      BY <1>9
    <3> QED
      BY <1>3, <1>10, <3>1, <3>2
  <2> QED
    BY <1>3, <2>1, <2>2
<1>12. Stream' = SubSeq(S, n + 1, Len(S))
  <2>1. PICK r \in Seq(Byte), q \in Seq(Byte), c \in Nat :
          /\ r = rx_buffer /\ q = inbound[peer] /\ c = consumed
          /\ c <= Len(r) /\ Available = Len(r) - c
    BY <1>2 DEF TypeInv, Available
  <2>2. S = SubSeq(r, c + 1, Len(r)) \o q
    BY <1>9, <2>1 DEF Stream, Rest
  <2>3. Stream' = SubSeq(r, c + n + 1, Len(r)) \o q
    BY <1>1, <1>2, <1>5, <2>1 DEF Stream, Rest
  <2>4. c + n <= Len(r) /\ Len(r) \in Nat /\ c \in Nat
    BY <1>3, <1>4, <2>1
  <2>5. SubSeq(SubSeq(r, c + 1, Len(r)) \o q, n + 1, Len(SubSeq(r, c + 1, Len(r)) \o q))
          = SubSeq(r, c + n + 1, Len(r)) \o q
    <3>1. n \in Nat
      BY <1>3
    <3> QED
      BY <2>4, <3>1, DropOfJoined, ZenonT(30)
  <2> QED
    BY <2>2, <2>3, <2>5
<1>13. /\ Framed(S, peer, last)
       /\ ground[peer] \in {"new", "up"} => Complete(S, last, sent[peer])
  BY <1>2, <1>7, <1>9 DEF StreamFramed, FramedFrom
<1>14. /\ Framed(SubSeq(S, n + 1, Len(S)), peer, last + 1)
       /\ \A m \in Nat : Complete(S, last, m) => Complete(SubSeq(S, n + 1, Len(S)), last + 1, m)
  BY <1>2, <1>11, <1>13, BehindTheFirst
<1>15. sent[peer] \in Nat
  BY <1>2 DEF TypeInv
<1> QED
  BY <1>1, <1>2, <1>8, <1>12, <1>13, <1>14, <1>15

LEMMA StreamStep ==
  ASSUME TypeInv, TypeInv', AlwaysRoom, TakenInv, CleanInv, [Next]_vars
  PROVE  StreamFramed'
<1>p. NoPeer \notin Session /\ StreamFramed /\ fresh' \in SUBSET Session /\ fresh \in SUBSET Session
  BY SessionsArePeers DEF CleanInv, TypeInv
<1>1. CASE UNCHANGED vars
  <2>1. UNCHANGED <<peer, ground, inbound, rx_buffer, consumed, sent, handled, fresh, damaged>>
    BY <1>1 DEF vars, connections, software, past
  <2>2. Stream' = Stream
    BY <2>1 DEF Stream, Rest
  <2> QED
    BY <1>p, <2>1, <2>2, StreamKept
<1>2. CASE PollEffect
  <2>0. UNCHANGED <<rx_buffer, consumed, sent, handled, damaged>>
    BY <1>2 DEF PollEffect, Kept
  <2>1. CASE UNCHANGED <<ground, inbound, fresh>> /\ peer' \in {peer, NoPeer}
    <3>1. peer' = peer => Stream' = Stream
      BY <2>0, <2>1 DEF Stream, Rest
    <3> QED
      BY <1>p, <2>0, <2>1, <3>1, StreamKept
  <2>2. CASE /\ waiting # <<>> /\ waiting' = Tail(waiting) /\ UNCHANGED fresh
             /\ ground'  = [ground EXCEPT ![Head(waiting)] = "refused"]
             /\ inbound' = [inbound EXCEPT ![Head(waiting)] = <<>>]
             /\ peer' \in {peer, NoPeer}
    <3>1. PICK h \in Session : h = Head(waiting) /\ h # peer
      BY <2>2, TailOfWaiting DEF TakenInv
    <3>2. peer \in Session => ground'[peer] = ground[peer] /\ inbound'[peer] = inbound[peer]
      BY <2>2, <3>1 DEF TypeInv
    <3>3. peer' = peer /\ peer \in Session => Stream' = Stream
      BY <2>0, <3>2 DEF Stream, Rest
    <3> QED
      BY <1>p, <2>0, <2>2, <3>2, <3>3, StreamKept
  <2>3. CASE /\ waiting # <<>> /\ waiting' = Tail(waiting) /\ peer' = Head(waiting)
             /\ UNCHANGED <<ground, inbound>> /\ rx_buffer # <<>> /\ fresh' = fresh
    <3>1. peer' \notin fresh'
      BY <2>3, TailOfWaiting DEF TakenInv
    <3> QED
      BY <3>1 DEF StreamFramed
  <2>4. CASE /\ waiting # <<>> /\ waiting' = Tail(waiting) /\ peer' = Head(waiting)
             /\ UNCHANGED <<ground, inbound>> /\ rx_buffer = <<>>
    <3> SUFFICES ASSUME peer' \in fresh' \ damaged'
                 PROVE  /\ Framed(Stream', peer', Last(peer)' + 1)
                        /\ ground'[peer'] \in {"new", "up"} =>
                             Complete(Stream', Last(peer)' + 1, sent'[peer'])
      BY DEF StreamFramed, FramedFrom
    <3>1. PICK h \in Session : h = Head(waiting) /\ Untaken(h)
      BY <2>4, TailOfWaiting
    <3>2. peer' = h /\ h \notin damaged
      BY <2>0, <2>4, <3>1
    <3>3. /\ Framed(inbound[h], h, 1)
          /\ ground[h] \in {"new", "up"} => Complete(inbound[h], 1, sent[h])
      BY <3>1, <3>2 DEF CleanInv, UntakenFramed, FramedFrom
    <3>4. Last(peer)' = 0
      <4>1. Last(peer)' = LastIn(handled', peer')
        BY DEF Last, HandledIn, LastIn
      <4>2. \A k \in DOMAIN handled : handled[k][1] # h
        BY <3>1 DEF TakenInv
      <4> QED
        BY <2>0, <3>2, <4>1, <4>2, NobodysLast
    <3>5. Stream' = inbound[h]
      <4>1. consumed = 0
        BY <1>2 DEF PollEffect, TypeInv
      <4>2. <<>> \in Seq(Byte) /\ SubSeq(<<>>, 0 + 1, Len(<<>>)) = <<>>
        BY WholeSequence
      <4>3. Rest' = <<>>
        BY <2>0, <2>4, <4>1, <4>2 DEF Rest
      <4>4. PICK q \in Seq(Byte) : q = inbound[h]
        BY DEF TypeInv
      <4>5. <<>> \o q = q
        OBVIOUS
      <4> QED
        BY <2>4, <3>2, <4>3, <4>4, <4>5 DEF Stream
    <3> QED
      BY <2>0, <2>4, <3>2, <3>3, <3>4, <3>5
  <2> QED
    BY <1>2, <2>1, <2>2, <2>3, <2>4 DEF PollEffect
<1>3. CASE SampleEffect
  <2>1. CASE rx_buffer' = rx_buffer
    <3>1. /\ UNCHANGED <<ground, inbound, consumed, sent, handled, fresh, damaged>>
          /\ peer' \in {peer, NoPeer}
      BY <1>3 DEF SampleEffect, Kept
    <3>2. peer' = peer => Stream' = Stream
      BY <2>1, <3>1 DEF Stream, Rest
    <3> QED
      BY <1>p, <3>1, <3>2, StreamKept
  <2>2. CASE peer = NoPeer
    <3>1. peer' \notin fresh'
      BY <1>3, <1>p, <2>2 DEF SampleEffect
    <3> QED
      BY <3>1 DEF StreamFramed
  <2> QED
    BY <1>3, <2>1, <2>2 DEF SampleEffect
<1>4. CASE ReceiveEffect
  <2>0. UNCHANGED <<waiting, ground, consumed, sent, handled, fresh, damaged>>
    BY <1>4 DEF ReceiveEffect, Kept
  <2>1. CASE UNCHANGED <<inbound, rx_buffer>> /\ peer' \in {peer, NoPeer}
    <3>1. peer' = peer => Stream' = Stream
      BY <2>0, <2>1 DEF Stream, Rest
    <3> QED
      BY <1>p, <2>0, <2>1, <3>1, StreamKept
  <2>2. ASSUME UNCHANGED peer, peer # NoPeer, NEW n \in 1 .. Len(inbound[peer]),
               rx_buffer' = rx_buffer \o SubSeq(inbound[peer], 1, n),
               inbound' = [inbound EXCEPT ![peer] = SubSeq(@, n + 1, Len(@))]
        PROVE  StreamFramed'
    <3>1. peer \in Session /\ consumed = 0
      BY <1>4, <2>2 DEF TypeInv, ReceiveEffect
    <3>2. PICK r \in Seq(Byte), t \in Seq(Byte), u \in Seq(Byte) :
            /\ r = rx_buffer /\ t = SubSeq(inbound[peer], 1, n)
            /\ u = SubSeq(inbound[peer], n + 1, Len(inbound[peer]))
            /\ t \o u = inbound[peer]
      BY <3>1, Received DEF TypeInv
    <3>3. rx_buffer' = r \o t /\ inbound'[peer] = u
      BY <2>2, <3>1, <3>2 DEF TypeInv
    <3>4. r \o t \in Seq(Byte)
      OBVIOUS
    <3>5. Rest' = r \o t
      BY <2>0, <3>1, <3>3, <3>4, WholeSequence DEF Rest
    <3>6. Rest = r
      BY <3>1, <3>2, WholeSequence DEF Rest
    <3>7. Stream = r \o (t \o u)
      BY <3>2, <3>6 DEF Stream
    <3>8. Stream' = (r \o t) \o u
      BY <2>2, <3>3, <3>5 DEF Stream
    <3>9. Stream' = Stream
      BY <3>7, <3>8, Reassociate
    <3> QED
      BY <1>p, <2>0, <2>2, <3>9, StreamKept
  <2> QED
    BY <1>4, <2>1, <2>2 DEF ReceiveEffect
<1>5. CASE DrainOne
  BY <1>5, <1>p, StreamDrained
<1>6. CASE FinishEffect
  <2>1. /\ UNCHANGED <<peer, ground, inbound, sent, handled, fresh, damaged>>
        /\ rx_buffer' = Rest /\ consumed' = 0
    BY <1>6 DEF FinishEffect
  <2>2. PICK r \in Seq(Byte) : r = Rest
    BY RestIsASequence
  <2>3. Rest' = r
    BY <2>1, <2>2, WholeSequence DEF Rest
  <2>4. Stream' = Stream
    BY <2>1, <2>2, <2>3 DEF Stream
  <2> QED
    BY <1>p, <2>1, <2>4, StreamKept
<1>7. ASSUME NEW s \in Session, ConnectEffect(s) PROVE StreamFramed'
  <2>1. UNCHANGED <<peer, inbound, rx_buffer, consumed, sent, handled, fresh, damaged>>
    BY <1>7 DEF ConnectEffect, Kept
  <2>2. s # peer
    BY <1>7 DEF ConnectEffect, TakenInv, Untaken
  <2>3. peer \in Session => ground'[peer] = ground[peer]
    BY <1>7, <2>2 DEF ConnectEffect, TypeInv
  <2>4. Stream' = Stream
    BY <2>1 DEF Stream, Rest
  <2> QED
    BY <1>p, <2>1, <2>3, <2>4, StreamKept
<1>8. ASSUME NEW s \in Session, CloseEffect(s) PROVE StreamFramed'
  <2>1. UNCHANGED <<peer, rx_buffer, consumed, sent, handled, fresh, damaged>>
    BY <1>8 DEF CloseEffect, Kept
  <2>2. peer \in Session => (ground'[peer] \in {"new", "up"} => ground[peer] \in {"new", "up"})
    BY <1>8 DEF CloseEffect, TypeInv
  <2>3. CASE s # peer \/ inbound' = inbound
    <3>1. peer \in Session => inbound'[peer] = inbound[peer]
      BY <1>8, <2>3 DEF CloseEffect, TypeInv
    <3>2. peer \in Session => Stream' = Stream
      BY <2>1, <3>1 DEF Stream, Rest
    <3> QED
      BY <1>p, <2>1, <2>2, <3>2, StreamKept
  <2>4. CASE s = peer /\ inbound' = [inbound EXCEPT ![s] = <<>>]
    <3> SUFFICES ASSUME peer' \in fresh' \ damaged'
                 PROVE  /\ Framed(Stream', peer', Last(peer)' + 1)
                        /\ ground'[peer'] \notin {"new", "up"}
      BY DEF StreamFramed, FramedFrom
    <3>1. peer' = peer /\ peer \in fresh \ damaged /\ peer \in Session /\ peer # NoPeer
      BY <1>p, <2>1, <2>4
    <3>2. ground'[peer] = "gone"
      BY <1>8, <2>4 DEF CloseEffect, TypeInv
    <3>3. PICK r \in Seq(Byte), q \in Seq(Byte) : r = Rest /\ q = inbound[peer]
      BY <3>1, RestIsASequence, StreamIsASequence
    <3>4. Framed(r \o q, peer, Last(peer) + 1)
      BY <1>p, <3>1, <3>3 DEF StreamFramed, FramedFrom, Stream
    <3>5. Framed(r, peer, Last(peer) + 1)
      BY <3>1, <3>4, BeginningIsFramed
    <3>6. Stream' = r
      <4>1. Rest' = r /\ inbound'[peer] = <<>>
        BY <2>1, <2>4, <3>1, <3>3 DEF Rest, TypeInv
      <4>2. r \o <<>> = r
        OBVIOUS
      <4> QED
        BY <3>1, <4>1, <4>2 DEF Stream
    <3>7. Last(peer)' = Last(peer)
      <4>1. Last(peer) = LastIn(handled, peer) /\ Last(peer)' = LastIn(handled', peer')
        BY LastIsOfTheList DEF Last, HandledIn, LastIn
      <4> QED
        BY <2>1, <4>1
    <3> QED
      BY <3>1, <3>2, <3>5, <3>6, <3>7
  <2> QED
    BY <1>8, <2>3, <2>4 DEF CloseEffect
<1>9. ASSUME NEW s \in Session, NEW n \in Sizes, NEW bytes \in Seq(Byte), SendEffect(s, n, bytes)
      PROVE  StreamFramed'
  <2> SUFFICES ASSUME peer' \in fresh' \ damaged'
               PROVE  /\ Framed(Stream', peer', Last(peer)' + 1)
                      /\ ground'[peer'] \in {"new", "up"} =>
                           Complete(Stream', Last(peer)' + 1, sent'[peer'])
    BY DEF StreamFramed, FramedFrom
  <2>1. /\ UNCHANGED <<peer, ground, rx_buffer, consumed, handled, fresh>>
        /\ damaged \subseteq damaged'
    BY <1>9 DEF SendEffect
  <2>2. peer \in fresh \ damaged /\ peer \in Session /\ peer # NoPeer
    BY <1>p, <2>1
  <2>3. Last(peer)' = Last(peer)
    <3>1. Last(peer) = LastIn(handled, peer) /\ Last(peer)' = LastIn(handled', peer')
      BY LastIsOfTheList DEF Last, HandledIn, LastIn
    <3> QED
      BY <2>1, <3>1
  <2>4. /\ Framed(Stream, peer, Last(peer) + 1)
        /\ ground[peer] \in {"new", "up"} => Complete(Stream, Last(peer) + 1, sent[peer])
    BY <1>p, <2>2 DEF StreamFramed, FramedFrom
  <2>5. CASE peer # s
    <3>1. inbound'[peer] = inbound[peer] /\ sent'[peer] = sent[peer]
      BY <1>9, <2>2, <2>5 DEF SendEffect, TypeInv
    <3>2. Stream' = Stream
      BY <2>1, <3>1 DEF Stream, Rest
    <3> QED
      BY <2>1, <2>3, <2>4, <3>1, <3>2
  <2>6. CASE peer = s
    <3>1. bytes = Intact(s, sent[s] + 1, n) /\ ground[s] = "up"
      BY <1>9, <2>1, <2>6 DEF SendEffect
    <3>2. PICK r \in Seq(Byte), q \in Seq(Byte) : r = Rest /\ q = inbound[s]
      BY <2>2, <2>6, RestIsASequence, StreamIsASequence
    <3>3. inbound'[s] = q \o bytes /\ sent'[s] = sent[s] + 1 /\ sent[s] \in Nat
      BY <1>9, <3>2 DEF SendEffect, TypeInv
    <3>4. Stream = r \o q /\ Stream' = r \o (q \o bytes)
      BY <2>1, <2>6, <3>2, <3>3 DEF Stream, Rest
    <3>5. Stream' = (r \o q) \o bytes
      BY <3>4, Reassociate
    <3>6. r \o q \in Seq(Byte)
      OBVIOUS
    <3>7. /\ Framed((r \o q) \o bytes, s, Last(peer) + 1)
          /\ Complete((r \o q) \o bytes, Last(peer) + 1, sent[s] + 1)
      BY <2>4, <2>6, <3>1, <3>3, <3>4, <3>6, NextPacketExtends
    <3> QED
      BY <2>1, <2>3, <2>6, <3>3, <3>5, <3>7
  <2> QED
    BY <2>5, <2>6
<1> QED
  <2>1. CASE Next
    BY <1>2, <1>3, <1>4, <1>5, <1>6, <1>7, <1>8, <1>9, <2>1, PollTakes, SampleTakes, ReceiveTakes,
       FinishTakes, GroundActs, GroundSends
       DEF Next, Pump
  <2> QED
    BY <1>1, <2>1

LEMMA PartialStep ==
  ASSUME TypeInv, TypeInv', AlwaysRoom, TakenInv, CleanInv, PartialInv, [Next]_vars
  PROVE  PartialInv'
<1> SUFFICES ASSUME phase' # "draining", peer' \in fresh' \ damaged', rx_buffer' # <<>>
             PROVE  Len(rx_buffer') < rx_buffer'[1][4]
  BY DEF PartialInv
<1>p. NoPeer \notin Session /\ fresh \in SUBSET Session /\ fresh' \in SUBSET Session
  BY SessionsArePeers DEF TypeInv
<1>a. ASSUME rx_buffer' = rx_buffer, peer' \in {peer, NoPeer}, fresh' \subseteq fresh,
             damaged \subseteq damaged', phase # "draining"
      PROVE  Len(rx_buffer') < rx_buffer'[1][4]
  BY <1>a, <1>p DEF PartialInv
<1>1. CASE UNCHANGED vars
  BY <1>1, <1>a DEF vars, connections, software, past
<1>2. CASE PollEffect
  <2>1. peer' # peer /\ peer' # NoPeer =>
          /\ waiting # <<>> /\ waiting' = Tail(waiting) /\ peer' = Head(waiting)
          /\ fresh' = fresh
    BY <1>2 DEF PollEffect, Kept
  <2>2. peer' \in {peer, NoPeer}
    BY <1>p, <2>1, TailOfWaiting DEF TakenInv
  <2>3. fresh' = fresh
    BY <1>2 DEF PollEffect, Kept
  <2> QED
    BY <1>2, <1>a, <2>2, <2>3 DEF PollEffect, Kept
<1>3. CASE SampleEffect
  BY <1>3, <1>a DEF SampleEffect, Kept
<1>4. CASE FinishDrain
  <2>1. FinishEffect
    BY <1>4, FinishTakes
  <2>2. /\ peer \in fresh /\ peer \notin damaged /\ rx_buffer' = Rest
    BY <2>1 DEF FinishEffect
  <2>3. Len(Rest) = Available /\ Available \in Nat /\ Rest \in Seq(Byte)
    BY RestIsASequence
  <2>4. Available > 0
    BY <2>2, <2>3
  <2>5. Rest[1] = At(1)
    BY <2>3, <2>4, RestIsASequence DEF At
  <2>6. PICK n \in Sizes : n \in Nat \ {0} /\ At(1)[4] = n
    BY <2>2, <2>4, NextPacket DEF CleanInv
  <2>7. Available < n
    <3>1. CASE Available < HeaderBytes
      BY <2>3, <2>6, <3>1, Sizing
    <3>2. CASE Available >= HeaderBytes
      <4>1. Totals = {n}
        BY <2>2, <2>6, <3>2, NothingElseIsThere DEF CleanInv
      <4> QED
        BY <1>4, <3>2, <4>1 DEF FinishDrain, Waits
    <3> QED
      BY <2>3, <3>1, <3>2, Sizing
  <2> QED
    BY <2>2, <2>3, <2>5, <2>6, <2>7
<1>5. ASSUME NEW s \in Session, ConnectEffect(s) \/ CloseEffect(s)
      PROVE  Len(rx_buffer') < rx_buffer'[1][4]
  BY <1>5, <1>a DEF ConnectEffect, CloseEffect, Kept
<1>6. ASSUME NEW s \in Session, NEW n \in Sizes, NEW bytes \in Seq(Byte), SendEffect(s, n, bytes)
      PROVE  Len(rx_buffer') < rx_buffer'[1][4]
  BY <1>6, <1>a DEF SendEffect
<1> QED
  <2>1. CASE Next
    BY <1>2, <1>3, <1>4, <1>5, <1>6, <2>1, PollTakes, SampleTakes, GroundActs, GroundSends
       DEF Next, Pump, Receive, DrainOne
  <2> QED
    BY <1>1, <2>1

-----------------------------------------------------------------------------
LEMMA CleanInit == Init => CleanInv /\ PartialInv
<1> SUFFICES ASSUME Init PROVE CleanInv /\ PartialInv
  OBVIOUS
<1>1. /\ peer = NoPeer /\ rx_buffer = <<>> /\ fresh = {}
      /\ \A s \in Session : inbound[s] = <<>> /\ sent[s] = 0
  BY DEF Init, SessionsInit
<1>2. \A s \in Session : Framed(<<>>, s, 1) /\ Complete(<<>>, 1, 0)
  BY DEF Framed, Complete
<1>3. UntakenFramed
  BY <1>1, <1>2 DEF UntakenFramed, FramedFrom
<1>4. StreamFramed /\ PartialInv
  BY <1>1 DEF StreamFramed, PartialInv
<1> QED
  BY <1>3, <1>4 DEF CleanInv

\* The inductive invariant: types and room; a connection is taken once; first
\* bytes come in the order of sending; an undamaged stream is packet on packet;
\* and between two pumps less than a packet of it is in the buffer.
THEOREM Inductive == Spec => []IInv
<1>1. Init => IInv
  BY TypeInit, OrderInit, CleanInit DEF IInv
<1>2. IInv /\ [Next]_vars => IInv'
  <2> SUFFICES ASSUME IInv, [Next]_vars PROVE IInv'
    OBVIOUS
  <2>1. TypeInv /\ AlwaysRoom /\ TakenInv /\ OrderInv /\ CleanInv /\ PartialInv
    BY DEF IInv
  <2>2. TypeInv' /\ AlwaysRoom'
    BY <2>1, TypeStep
  <2>3. TakenInv' /\ OrderInv'
    BY <2>1, <2>2, TakenStep, OrderStep
  <2>4. UntakenFramed'
    BY <2>1, <2>2, UntakenFramedStep DEF CleanInv
  <2>5. StreamFramed'
    BY <2>1, <2>2, StreamStep
  <2>6. PartialInv'
    BY <2>1, <2>2, PartialStep
  <2> QED
    BY <2>2, <2>3, <2>4, <2>5, <2>6 DEF IInv, CleanInv
<1> QED
  BY <1>1, <1>2, PTL DEF Spec

\* A session that found the buffer empty and came through undamaged is framed
\* exactly: all that was received of it was handled, up to the beginning of the
\* packet after the last, wherever recv() cut the stream and whatever the other
\* sessions did.
THEOREM CleanSessionsAreFramed == Spec => []CleanSessionIsFramed
<1>1. IInv => CleanSessionIsFramed
  <2> SUFFICES ASSUME IInv, phase = "idle", peer \in fresh \ damaged, NEW k \in DOMAIN rx_buffer
               PROVE  rx_buffer[k] = <<peer, Last(peer) + 1, k, rx_buffer[1][4]>>
    BY DEF CleanSessionIsFramed
  <2>1. TypeInv /\ StreamFramed /\ PartialInv
    BY DEF IInv, CleanInv
  <2>2. /\ consumed = 0 /\ rx_buffer \in Seq(Byte) /\ Len(rx_buffer) \in Nat
        /\ DOMAIN rx_buffer = 1 .. Len(rx_buffer)
    BY <2>1 DEF TypeInv
  <2>3. Available = Len(rx_buffer) /\ k \in 1 .. Available /\ Available > 0 /\ rx_buffer # <<>>
    BY <2>2 DEF Available
  <2>4. \A j \in 1 .. Len(rx_buffer) : At(j) = rx_buffer[j]
    BY <2>2 DEF At
  <2>5. PICK n \in Sizes :
          /\ n \in Nat \ {0} /\ At(1)[4] = n
          /\ \A j \in 1 .. n : j <= Available => At(j) = <<peer, Last(peer) + 1, j, n>>
    BY <2>1, <2>3, NextPacket
  <2>6. rx_buffer[1][4] = n /\ Len(rx_buffer) < n
    BY <2>1, <2>2, <2>3, <2>4, <2>5 DEF PartialInv
  <2>7. k \in 1 .. n /\ k <= Available
    BY <2>2, <2>3, <2>5, <2>6
  <2> QED
    BY <2>3, <2>4, <2>5, <2>6, <2>7
<1> QED
  BY <1>1, Inductive, PTL

=============================================================================
