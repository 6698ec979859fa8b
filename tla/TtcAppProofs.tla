----------------------------- MODULE TtcAppProofs -----------------------------
(***************************************************************************)
(* Theorems about the TT&C application, for any frames, any modulus of the *)
(* sequence counts and of the message counts, any number of packets and of *)
(* sessions: first about Telecommands by itself, whose counts tell every   *)
(* loss, whose statistics match what happened and which answers each       *)
(* telecommand as it asked; then about the application on its link, whose  *)
(* answers stay in the session that asked and which parses all it has      *)
(* received; and last about its housekeeping schedule.                     *)
(***************************************************************************)
EXTENDS TtcApp, Housekeeping, FiniteSetTheorems, TLAPS

Codes  == {"Ok", "IllegalArg", "UnknownService", "BadLength"}
Packet == [apid : Apids, seq : Nat, kind : Nat \X Nat, count : Nat, tc : Nat,
           code : Codes, fate : {"queued", "refused", "lost"}]

\* The types of what a packet is made from.
BuiltInv ==
  /\ built \in Seq(Packet) /\ handled \in Seq(FrameType)
  /\ seq \in [Apids -> Nat]
  /\ \A kind \in DOMAIN msg_count : msg_count[kind] \in Nat
RequestInv == tc \in FrameType /\ result \in Codes

\* The packets of one application, or of one kind, after the j-th.
SameApid(j) == {m \in j + 1 .. Len(built) : built[m].apid = built[j].apid}
SameKind(j) == {m \in j + 1 .. Len(built) : built[m].kind = built[j].kind}

\* A counter that wraps at M stands at x: it stood at b when it was taken, and was
\* taken c times since.
TakenSince(x, b, c, M) == \E q \in Int : x = b + 1 + c + (q * M)

\* Where the counters stand, seen from any packet built so far.
CountInv ==
  \A j \in DOMAIN built :
    /\ TakenSince(seq[built[j].apid], built[j].seq, Cardinality(SameApid(j)), SeqModulus)
    /\ TakenSince(CountOf(built[j].kind), built[j].count, Cardinality(SameKind(j)), CountModulus)

DownlinkInv == BuiltInv /\ CountInv /\ LossIsVisible

\* The packets the statistics count, and the rejection not reported yet.
Taken == {k \in reset_at + 1 .. Len(built) : built[k].fate # "refused"}
SentInv == reset_at \in 0 .. Len(built) /\ tm_sent = Cardinality(Taken)
RejectedInv ==
  /\ tc_rejected \in Nat /\ reject_events \in Nat
  /\ tc_rejected = IF step = "rejecting" THEN reject_events + 1 ELSE reject_events

\* The inductive invariant of Telecommands.
TcInv == DownlinkInv /\ RequestInv /\ SentInv /\ RejectedInv

\* One packet of this service is built and handed to the link.
Sends(service) ==
  \E apid \in Apids, subtype \in Nat, code \in Codes : Emit(apid, <<service, subtype>>, code)

\* What a step does to the downlink: one packet, none, or a reset of the statistics.
Builds ==
  \/ (\E service \in Nat : Sends(service)) /\ UNCHANGED reset_at
  \/ UNCHANGED <<downlink, tm_sent, reset_at>>
  \/ UNCHANGED downlink /\ tm_sent' = 0 /\ reset_at' = Len(built)

-----------------------------------------------------------------------------
\* Remainders.
LEMMA Divided ==
  ASSUME NEW M \in Nat \ {0}, NEW x \in Nat
  PROVE  \E q \in Nat, r \in 0 .. M - 1 : x = (q * M) + r /\ x % M = r
  BY SMTT(30)
LEMMA Congruent ==
  ASSUME NEW M \in Nat \ {0}, NEW x \in Int, NEW c \in Nat, NEW q \in Int, x = c + (q * M)
  PROVE  x % M = c % M
<1>1. PICK p \in Int, r \in 0 .. M - 1 : c = (p * M) + r /\ c % M = r
  BY SMTT(30)
<1>2. x = ((p + q) * M) + r
  BY <1>1
<1>3. PICK t \in Int : t = p + q
  BY <1>1
<1>4. ((t * M) + r) % M = r
  BY <1>1, <1>3, SMTT(30)
<1> QED
  BY <1>1, <1>2, <1>3, <1>4

\* Where a counter stands tells how often it was taken, and still does when it is
\* taken once more.
LEMMA CounterTells ==
  ASSUME NEW M \in Nat \ {0}, NEW x \in Nat, NEW b \in Nat, NEW c \in Nat, TakenSince(x, b, c, M)
  PROVE  (x - b - 1) % M = c % M
<1>1. PICK q \in Int : x = b + 1 + c + (q * M)
  BY DEF TakenSince
<1>2. PICK y \in Int : y = q * M
  BY <1>1
<1>3. PICK z \in Int : z = x - b - 1
  OBVIOUS
<1>4. z = c + (q * M)
  BY <1>1, <1>2, <1>3
<1>5. z % M = c % M
  BY <1>4, Congruent
<1> QED
  BY <1>3, <1>5
LEMMA CounterAdvances ==
  ASSUME NEW M \in Nat \ {0}, NEW x \in Nat, NEW b \in Nat, NEW c \in Nat, TakenSince(x, b, c, M)
  PROVE  TakenSince((x + 1) % M, b, c + 1, M)
<1>1. PICK q \in Int : x = b + 1 + c + (q * M)
  BY DEF TakenSince
<1>2. PICK y \in Nat : y = x + 1
  OBVIOUS
<1>3. PICK d \in Nat, r \in 0 .. M - 1 : y = (d * M) + r /\ y % M = r
  BY <1>2, Divided, Zenon
<1>4. PICK t \in Int : t = q - d
  BY <1>1, <1>3
<1>5. r = b + 1 + (c + 1) + (t * M)
  BY <1>1, <1>2, <1>3, <1>4, SMTT(30)
<1> QED
  BY <1>2, <1>3, <1>5, Zenon DEF TakenSince
LEMMA CounterStarts ==
  ASSUME NEW M \in Nat \ {0}, NEW x \in Nat
  PROVE  TakenSince((x + 1) % M, x, 0, M)
<1>1. PICK y \in Nat : y = x + 1
  OBVIOUS
<1>2. PICK d \in Nat, r \in 0 .. M - 1 : y = (d * M) + r /\ y % M = r
  BY <1>1, Divided, Zenon
<1>3. PICK t \in Int : t = 0 - d
  BY <1>2
<1>4. r = x + 1 + 0 + (t * M)
  BY <1>1, <1>2, <1>3, SMTT(30)
<1> QED
  BY <1>1, <1>2, <1>4, Zenon DEF TakenSince

\* One more in an interval.
LEMMA OneMore ==
  ASSUME NEW i \in Nat, NEW n \in Nat, NEW S \in SUBSET (i .. n)
  PROVE  /\ IsFiniteSet(S) /\ Cardinality(S) \in Nat
         /\ Cardinality(S \cup {n + 1}) = Cardinality(S) + 1
<1>1. IsFiniteSet(S)
  <2>1. IsFiniteSet(i .. n)
    BY FS_Interval
  <2> QED
    BY <2>1, FS_Subset
<1>2. n + 1 \notin S
  OBVIOUS
<1> QED
  BY <1>1, <1>2, FS_AddElement, FS_CardinalityType

\* What one more packet does to the history, and what it finds in the counters.
LEMMA Appended ==
  ASSUME BuiltInv, NEW service \in Nat, Sends(service)
  PROVE  \E p \in Packet :
           /\ built' = Append(built, p)
           /\ p.seq = seq[p.apid] /\ seq' = [seq EXCEPT ![p.apid] = (p.seq + 1) % SeqModulus]
           /\ p.count = CountOf(p.kind)
           /\ msg_count' = [k \in DOMAIN msg_count \cup {p.kind} |->
                              IF k = p.kind THEN (p.count + 1) % CountModulus ELSE msg_count[k]]
           /\ tm_sent' = IF p.fate = "refused" THEN tm_sent ELSE tm_sent + 1
           /\ link_up' = (link_up /\ p.fate # "lost") /\ (~link_up => p.fate = "refused")
           /\ p.kind[1] = service /\ p.tc = Len(handled)
<1>1. PICK apid \in Apids, subtype \in Nat, code \in Codes :
        Emit(apid, <<service, subtype>>, code)
  BY DEF Sends
<1> DEFINE kind == <<service, subtype>>
<1>2. PICK fate \in {"queued", "refused", "lost"} :
        /\ built' = Append(built, [apid |-> apid, seq |-> seq[apid], kind |-> kind,
                                   count |-> CountOf(kind), tc |-> Len(handled),
                                   code |-> code, fate |-> fate])
        /\ tm_sent' = IF fate = "refused" THEN tm_sent ELSE tm_sent + 1
        /\ link_up' = (link_up /\ fate # "lost")
        /\ ~link_up => fate = "refused"
  BY <1>1 DEF Emit
<1>3. seq[apid] \in Nat /\ CountOf(kind) \in Nat
  BY DEF BuiltInv, CountOf
<1> DEFINE p == [apid |-> apid, seq |-> seq[apid], kind |-> kind, count |-> CountOf(kind),
                 tc |-> Len(handled), code |-> code, fate |-> fate]
<1>4. p \in Packet
  BY <1>3 DEF Packet, BuiltInv
<1>5. /\ seq' = [seq EXCEPT ![apid] = (seq[apid] + 1) % SeqModulus]
      /\ msg_count' = [k \in DOMAIN msg_count \cup {kind} |->
                         IF k = kind THEN (CountOf(kind) + 1) % CountModulus ELSE msg_count[k]]
  BY <1>1 DEF Emit, TakeCount, NextCount, NextMessageCount
<1>6. WITNESS p \in Packet
<1> QED
  BY <1>2, <1>5

\* A packet built leaves the types as they are.
LEMMA PacketIsTyped ==
  ASSUME BuiltInv, NEW service \in Nat, Sends(service), handled' \in Seq(FrameType)
  PROVE  BuiltInv'
<1>1. PICK p \in Packet :
        /\ built' = Append(built, p)
        /\ seq' = [seq EXCEPT ![p.apid] = (p.seq + 1) % SeqModulus]
        /\ msg_count' = [k \in DOMAIN msg_count \cup {p.kind} |->
                           IF k = p.kind THEN (p.count + 1) % CountModulus ELSE msg_count[k]]
  BY Appended
<1>2. p.seq \in Nat /\ p.count \in Nat
  BY DEF Packet
<1>3. (p.seq + 1) % SeqModulus \in Nat /\ (p.count + 1) % CountModulus \in Nat
  BY <1>2, TelecommandsAssumption
<1>4. built' \in Seq(Packet)
  BY <1>1 DEF BuiltInv
<1>5. seq' \in [Apids -> Nat]
  BY <1>1, <1>3 DEF BuiltInv
<1>6. \A k \in DOMAIN msg_count' : msg_count'[k] \in Nat
  BY <1>1, <1>3 DEF BuiltInv
<1> QED
  BY <1>4, <1>5, <1>6 DEF BuiltInv

\* A packet built: every earlier one of its application or kind sees one more.
LEMMA PacketIsCounted ==
  ASSUME DownlinkInv, NEW service \in Nat, Sends(service), handled' \in Seq(FrameType)
  PROVE  DownlinkInv'
<1>1. PICK p \in Packet :
           /\ built' = Append(built, p)
           /\ p.seq = seq[p.apid] /\ seq' = [seq EXCEPT ![p.apid] = (p.seq + 1) % SeqModulus]
           /\ p.count = CountOf(p.kind)
           /\ msg_count' = [k \in DOMAIN msg_count \cup {p.kind} |->
                              IF k = p.kind THEN (p.count + 1) % CountModulus ELSE msg_count[k]]
  BY Appended DEF DownlinkInv
<1> DEFINE n == Len(built)
<1>2. /\ built \in Seq(Packet) /\ n \in Nat /\ DOMAIN built = 1 .. n
      /\ seq \in [Apids -> Nat]
      /\ SeqModulus \in Nat \ {0} /\ CountModulus \in Nat \ {0}
      /\ p.apid \in Apids /\ p.seq \in Nat /\ p.count \in Nat
  BY TelecommandsAssumption DEF DownlinkInv, BuiltInv, Packet
<1>3. /\ built' \in Seq(Packet) /\ Len(built') = n + 1 /\ DOMAIN built' = 1 .. n + 1
      /\ built'[n + 1] = p /\ \A m \in 1 .. n : built'[m] = built[m]
  BY <1>1, <1>2
<1>4. \A m \in 1 .. n : built[m].apid \in Apids /\ built[m].seq \in Nat /\ built[m].count \in Nat
  <2>1. \A m \in 1 .. n : built[m] \in Packet
    BY <1>2
  <2> QED
    BY <2>1 DEF Packet
<1>5. /\ \A apid \in Apids : seq'[apid] = IF apid = p.apid THEN (p.seq + 1) % SeqModulus ELSE seq[apid]
      /\ seq[p.apid] = p.seq
  BY <1>1, <1>2
<1>6. BuiltInv'
  BY PacketIsTyped DEF DownlinkInv
<1>7. \A kind : CountOf(kind)' = IF kind = p.kind THEN (p.count + 1) % CountModulus ELSE CountOf(kind)
  BY <1>1 DEF CountOf
<1>8. ASSUME NEW j \in 1 .. n
      PROVE  /\ SameApid(j) \subseteq j + 1 .. n /\ SameKind(j) \subseteq j + 1 .. n
             /\ SameApid(j)' = IF p.apid = built[j].apid THEN SameApid(j) \cup {n + 1} ELSE SameApid(j)
             /\ SameKind(j)' = IF p.kind = built[j].kind THEN SameKind(j) \cup {n + 1} ELSE SameKind(j)
  <2>1. /\ SameApid(j)' = {m \in j + 1 .. n + 1 : built'[m].apid = built'[j].apid}
        /\ SameKind(j)' = {m \in j + 1 .. n + 1 : built'[m].kind = built'[j].kind}
    BY <1>3 DEF SameApid, SameKind
  <2>2. /\ SameApid(j) = {m \in j + 1 .. n : built[m].apid = built[j].apid}
        /\ SameKind(j) = {m \in j + 1 .. n : built[m].kind = built[j].kind}
    BY DEF SameApid, SameKind
  <2>3. j + 1 .. n + 1 = (j + 1 .. n) \cup {n + 1} /\ built'[j] = built[j]
    BY <1>2, <1>3, <1>8
  <2>4. \A m \in j + 1 .. n : built'[m] = built[m]
    BY <1>2, <1>3, <1>8
  <2> QED
    BY <1>3, <2>1, <2>2, <2>3, <2>4
<1>9. ASSUME NEW j \in 1 .. n
      PROVE  /\ Cardinality(SameApid(j)) \in Nat /\ Cardinality(SameKind(j)) \in Nat
             /\ Cardinality(SameApid(j) \cup {n + 1}) = Cardinality(SameApid(j)) + 1
             /\ Cardinality(SameKind(j) \cup {n + 1}) = Cardinality(SameKind(j)) + 1
  <2>1. PICK i \in Nat : i = j + 1
    BY <1>2, <1>9
  <2>2. n \in Nat /\ SameApid(j) \in SUBSET (i .. n) /\ SameKind(j) \in SUBSET (i .. n)
    BY <1>2, <1>8, <1>9, <2>1
  <2>3. \A S \in SUBSET (i .. n) :
          Cardinality(S) \in Nat /\ Cardinality(S \cup {n + 1}) = Cardinality(S) + 1
    BY <2>2, OneMore, ZenonT(30)
  <2> QED
    BY <2>2, <2>3, Zenon
<1>10. LossIsVisible'
  <2>1. SUFFICES ASSUME NEW j \in 1 .. n + 1, NEW k \in 1 .. n + 1, j < k
                 PROVE  /\ built'[j].apid = built'[k].apid =>
                             (built'[k].seq - built'[j].seq - 1) % SeqModulus
                               = Cardinality({m \in j + 1 .. k - 1 : built'[m].apid = built'[k].apid}) % SeqModulus
                        /\ built'[j].kind = built'[k].kind =>
                             (built'[k].count - built'[j].count - 1) % CountModulus
                               = Cardinality({m \in j + 1 .. k - 1 : built'[m].kind = built'[k].kind}) % CountModulus
    BY <1>3 DEF LossIsVisible
  <2>2. j \in 1 .. n /\ \A m \in j .. k - 1 : m \in 1 .. n /\ built'[m] = built[m]
    BY <1>2, <1>3, <2>1
  <2>3. CASE k \in 1 .. n
    <3>1. built'[k] = built[k] /\ built'[j] = built[j]
      BY <1>3, <2>2, <2>3
    <3>2. /\ {m \in j + 1 .. k - 1 : built'[m].apid = built'[k].apid}
               = {m \in j + 1 .. k - 1 : built[m].apid = built[k].apid}
          /\ {m \in j + 1 .. k - 1 : built'[m].kind = built'[k].kind}
               = {m \in j + 1 .. k - 1 : built[m].kind = built[k].kind}
      BY <2>2, <3>1
    <3>3. /\ built[j].apid = built[k].apid =>
               (built[k].seq - built[j].seq - 1) % SeqModulus
                 = Cardinality({m \in j + 1 .. k - 1 : built[m].apid = built[k].apid}) % SeqModulus
          /\ built[j].kind = built[k].kind =>
               (built[k].count - built[j].count - 1) % CountModulus
                 = Cardinality({m \in j + 1 .. k - 1 : built[m].kind = built[k].kind}) % CountModulus
      <4>1. j \in DOMAIN built /\ k \in DOMAIN built /\ j < k
        BY <1>2, <2>1, <2>2, <2>3
      <4>2. LossIsVisible
        BY DEF DownlinkInv
      <4> QED
        BY <4>1, <4>2, Zenon DEF LossIsVisible
    <3> QED
      BY <3>1, <3>2, <3>3
  <2>4. CASE k = n + 1
    <3>1. /\ built'[j].apid = built'[k].apid =>
               {m \in j + 1 .. k - 1 : built'[m].apid = built'[k].apid} = SameApid(j)
          /\ built'[j].kind = built'[k].kind =>
               {m \in j + 1 .. k - 1 : built'[m].kind = built'[k].kind} = SameKind(j)
      BY <1>2, <1>3, <2>2, <2>4 DEF SameApid, SameKind
    <3>2. /\ TakenSince(seq[built[j].apid], built[j].seq, Cardinality(SameApid(j)), SeqModulus)
          /\ TakenSince(CountOf(built[j].kind), built[j].count, Cardinality(SameKind(j)), CountModulus)
      BY <1>2, <2>2 DEF DownlinkInv, CountInv
    <3>3. built'[j].apid = built'[k].apid =>
             (built'[k].seq - built'[j].seq - 1) % SeqModulus = Cardinality(SameApid(j)) % SeqModulus
      <4>1. SUFFICES ASSUME built[j].apid = p.apid
                     PROVE  (p.seq - built[j].seq - 1) % SeqModulus = Cardinality(SameApid(j)) % SeqModulus
        BY <1>3, <2>2, <2>4
      <4>2. TakenSince(p.seq, built[j].seq, Cardinality(SameApid(j)), SeqModulus)
        BY <1>5, <3>2, <4>1
      <4> QED
        BY <1>2, <1>4, <1>9, <2>2, <4>2, CounterTells
    <3>4. built'[j].kind = built'[k].kind =>
             (built'[k].count - built'[j].count - 1) % CountModulus = Cardinality(SameKind(j)) % CountModulus
      <4>1. SUFFICES ASSUME built[j].kind = p.kind
                     PROVE  (p.count - built[j].count - 1) % CountModulus = Cardinality(SameKind(j)) % CountModulus
        BY <1>3, <2>2, <2>4
      <4>2. TakenSince(p.count, built[j].count, Cardinality(SameKind(j)), CountModulus)
        BY <1>1, <3>2, <4>1
      <4> QED
        BY <1>2, <1>4, <1>9, <2>2, <4>2, CounterTells
    <3> QED
      BY <3>1, <3>3, <3>4
  <2> QED
    BY <1>2, <2>3, <2>4
<1>11. CountInv'
  <2>1. SUFFICES ASSUME NEW j \in 1 .. n + 1, NEW kind, kind = built'[j].kind
                 PROVE  /\ TakenSince(seq'[built'[j].apid], built'[j].seq,
                                      Cardinality(SameApid(j)'), SeqModulus)
                        /\ TakenSince(CountOf(kind)', built'[j].count,
                                      Cardinality(SameKind(j)'), CountModulus)
    BY <1>3 DEF CountInv, TakenSince, CountOf
  <2>2. CASE j = n + 1
    <3>1. SameApid(j)' = {} /\ SameKind(j)' = {}
      BY <1>2, <1>3, <2>2 DEF SameApid, SameKind
    <3>2. Cardinality(SameApid(j)') = 0 /\ Cardinality(SameKind(j)') = 0
      BY <3>1, FS_EmptySet
    <3>3. built'[j] = p /\ kind = p.kind
      BY <1>3, <2>1, <2>2
    <3>4. seq'[p.apid] = (p.seq + 1) % SeqModulus /\ CountOf(kind)' = (p.count + 1) % CountModulus
      BY <1>2, <1>5, <1>7, <3>3
    <3> QED
      BY <1>2, <3>2, <3>3, <3>4, CounterStarts
  <2>3. CASE j \in 1 .. n
    <3>1. built'[j] = built[j] /\ built[j].apid \in Apids /\ kind = built[j].kind
      BY <1>3, <1>4, <2>1, <2>3
    <3>2. /\ TakenSince(seq[built[j].apid], built[j].seq, Cardinality(SameApid(j)), SeqModulus)
          /\ TakenSince(CountOf(kind), built[j].count, Cardinality(SameKind(j)), CountModulus)
      BY <1>2, <2>3, <3>1 DEF DownlinkInv, CountInv
    <3>3. /\ built[j].seq \in Nat /\ Cardinality(SameApid(j)) \in Nat
          /\ built[j].count \in Nat /\ Cardinality(SameKind(j)) \in Nat
      BY <1>4, <1>9, <2>3
    <3>4. TakenSince(seq'[built[j].apid], built[j].seq, Cardinality(SameApid(j)'), SeqModulus)
      <4>1. CASE built[j].apid # p.apid
        BY <1>5, <1>8, <2>3, <3>1, <3>2, <4>1
      <4>2. CASE built[j].apid = p.apid
        <5>1. Cardinality(SameApid(j)') = Cardinality(SameApid(j)) + 1
          BY <1>8, <1>9, <2>3, <4>2
        <5>2. TakenSince((p.seq + 1) % SeqModulus, built[j].seq, Cardinality(SameApid(j)) + 1, SeqModulus)
          BY <1>2, <1>5, <3>2, <3>3, <4>2, CounterAdvances
        <5> QED
          BY <1>5, <3>1, <4>2, <5>1, <5>2
      <4> QED
        BY <4>1, <4>2
    <3>5. TakenSince(CountOf(kind)', built[j].count, Cardinality(SameKind(j)'), CountModulus)
      <4>1. CASE kind # p.kind
        BY <1>7, <1>8, <2>3, <3>1, <3>2, <4>1
      <4>2. CASE kind = p.kind
        <5>1. Cardinality(SameKind(j)') = Cardinality(SameKind(j)) + 1
          BY <1>8, <1>9, <2>3, <3>1, <4>2
        <5>2. TakenSince((p.count + 1) % CountModulus, built[j].count, Cardinality(SameKind(j)) + 1, CountModulus)
          BY <1>1, <1>2, <3>2, <3>3, <4>2, CounterAdvances
        <5> QED
          BY <1>7, <4>2, <5>1, <5>2
      <4> QED
        BY <4>1, <4>2
    <3> QED
      BY <3>1, <3>4, <3>5
  <2> QED
    BY <1>2, <2>2, <2>3
<1> QED
  BY <1>6, <1>10, <1>11 DEF DownlinkInv

-----------------------------------------------------------------------------
\* What stands for no telecommand is typed as one.
LEMMA NoTcIsAFrame == NoTc \in FrameType
<1>1. {} \in SUBSET {"acceptance", "completion"} /\ "TEST" \in Commands
  BY DEF Commands
<1> HIDE DEF Commands
<1> QED
  BY <1>1 DEF NoTc, FrameType

\* What the helpers build.
LEMMA HelpersSend ==
  /\ \A service, subtype \in Nat : \A code \in Codes :
       Emit("TTC", <<service, subtype>>, code) => Sends(service)
  /\ \A severity \in Nat : EmitEvent(severity) => Sends(5)
  /\ \A ack : \A subtype \in Nat : \A code \in Codes :
       Verify(ack, subtype, code) => Sends(1) \/ Silent
<1>1. \A service, subtype \in Nat : \A code \in Codes :
        Emit("TTC", <<service, subtype>>, code) => Sends(service)
  BY DEF Sends, Apids
<1>2. "Ok" \in Codes
  BY DEF Codes
<1> QED
  BY <1>1, <1>2 DEF EmitEvent, Verify

\* The handling of a telecommand, step by step.
LEMMA HandleEffects ==
  ASSUME RequestInv, Handle
  PROVE  /\ step # "idle" /\ UNCHANGED handled
         /\ RequestInv' /\ (RejectedInv => RejectedInv') /\ Builds
<1> USE DEF RequestInv, RejectedInv
<1>1. /\ \A severity \in Nat : EmitEvent(severity) => \E service \in Nat : Sends(service)
      /\ \A ack : \A subtype \in Nat : \A code \in Codes :
           Verify(ack, subtype, code) => (\E service \in Nat : Sends(service)) \/ Silent
      /\ \A service, subtype \in Nat : \A code \in Codes :
           Emit("TTC", <<service, subtype>>, code) => \E s \in Nat : Sends(s)
  BY HelpersSend
<1>2. CASE AcceptTc
  BY <1>1, <1>2 DEF AcceptTc, Builds, Silent, Codes
<1>3. CASE RefuseTc
  BY <1>1, <1>3 DEF RefuseTc, Builds, Silent, Codes
<1>4. CASE RaiseRejection
  BY <1>1, <1>4, NoTcIsAFrame DEF RaiseRejection, Builds, LOW
<1>5. CASE CompleteTc
  BY <1>1, <1>5, NoTcIsAFrame DEF CompleteTc, Builds, Silent, Codes
<1>6. CASE SvcTest
  BY <1>1, <1>6 DEF SvcTest, Execute, KeepRest, Builds, Codes
<1>7. CASE SvcHousekeeping
  BY <1>1, <1>7 DEF SvcHousekeeping, Execute, KeepRest, Builds, Silent, Codes, INFO
<1>8. CASE SvcReportParam
  BY <1>1, <1>8 DEF SvcReportParam, Execute, KeepRest, Builds, Silent, Codes
<1>9. CASE SvcSetParam
  <2>1. tc.arg \in {"good", "unknown", "range"}
    BY DEF FrameType
  <2>2. ToFailure(tc.arg) \in Codes
    BY <2>1 DEF ToFailure, Codes
  <2> QED
    BY <1>1, <1>9, <2>2 DEF SvcSetParam, Execute, KeepRest, Builds, Silent, INFO
<1>10. CASE SvcSetMode
  BY <1>10 DEF SvcSetMode, Execute, KeepRest, Builds, Silent, Codes
<1>11. CASE SvcResetCounters
  BY <1>11 DEF SvcResetCounters, Execute, Builds, Codes
<1> QED
  BY <1>2, <1>3, <1>4, <1>5, <1>6, <1>7, <1>8, <1>9, <1>10, <1>11 DEF Handle

\* Any step.
LEMMA StepEffects ==
  ASSUME RequestInv, RejectedInv, handled \in Seq(FrameType), Next
  PROVE  RequestInv' /\ RejectedInv' /\ handled' \in Seq(FrameType)
         /\ (Builds \/ UNCHANGED <<seq, msg_count, built, tm_sent, reset_at>>)
<1> USE DEF RequestInv, RejectedInv
<1>1. CASE \E f \in Frames : RejectFrame(f) \/ Dispatch(f)
  <2>1. PICK f \in Frames : RejectFrame(f) \/ Dispatch(f)
    BY <1>1
  <2>2. f \in FrameType
    BY TelecommandsAssumption
  <2>3. CASE RejectFrame(f)
    BY <2>3, HelpersSend DEF RejectFrame, NextFrame, Builds, LOW
  <2>4. CASE Dispatch(f)
    BY <2>2, <2>4 DEF Dispatch, NextFrame, Builds
  <2> QED
    BY <2>1, <2>3, <2>4
<1>2. CASE Handle
  BY <1>2, HandleEffects
<1>3. CASE \E sid \in Sids : SendHk(sid)
  <2>1. PICK sid \in Sids : SendHk(sid)
    BY <1>3
  <2>2. ApidOf[sid] \in Apids /\ "Ok" \in Codes
    BY DEF Sids, ApidOf, Apids, Codes
  <2>3. Sends(3)
    BY <2>1, <2>2 DEF SendHk, Sends
  <2> QED
    BY <2>1, <2>3 DEF SendHk, Builds
<1>4. CASE \E severity \in {INFO, LOW, MEDIUM} : OtherEvent(severity)
  BY <1>4, HelpersSend DEF OtherEvent, Builds, INFO, LOW, MEDIUM
<1>5. CASE LinkChanges
  BY <1>5 DEF LinkChanges, statistics
<1> QED
  BY <1>1, <1>2, <1>3, <1>4, <1>5 DEF Next

\* The statistics count what send() took since the reset.
LEMMA SentIsCounted ==
  ASSUME BuiltInv, SentInv, Builds \/ UNCHANGED <<seq, msg_count, built, tm_sent, reset_at>>
  PROVE  SentInv'
<1> DEFINE n == Len(built)
<1>1. built \in Seq(Packet) /\ n \in Nat /\ reset_at \in 0 .. n
  BY DEF BuiltInv, SentInv
<1>2. CASE (\E service \in Nat : Sends(service)) /\ UNCHANGED reset_at
  <2>1. PICK p \in Packet :
          /\ built' = Append(built, p)
          /\ tm_sent' = IF p.fate = "refused" THEN tm_sent ELSE tm_sent + 1
    BY <1>2, Appended
  <2>2. /\ Len(built') = n + 1 /\ built'[n + 1] = p /\ \A k \in 1 .. n : built'[k] = built[k]
    BY <1>1, <2>1
  <2>3. Taken' = {k \in reset_at + 1 .. n + 1 : built'[k].fate # "refused"}
    BY <1>2, <2>2 DEF Taken
  <2>4. reset_at + 1 .. n + 1 = (reset_at + 1 .. n) \cup {n + 1}
    BY <1>1
  <2>5. \A k \in reset_at + 1 .. n : built'[k] = built[k]
    BY <1>1, <2>2
  <2>6. Taken' = IF p.fate = "refused" THEN Taken ELSE Taken \cup {n + 1}
    BY <2>2, <2>3, <2>4, <2>5 DEF Taken
  <2>7. PICK i \in Nat : i = reset_at + 1
    BY <1>1
  <2>8. n \in Nat /\ Taken \in SUBSET (i .. n)
    BY <1>1, <2>7 DEF Taken
  <2>9. Cardinality(Taken) \in Nat /\ Cardinality(Taken \cup {n + 1}) = Cardinality(Taken) + 1
    <3>1. \A S \in SUBSET (i .. n) :
            Cardinality(S) \in Nat /\ Cardinality(S \cup {n + 1}) = Cardinality(S) + 1
      BY <2>8, OneMore, ZenonT(30)
    <3> QED
      BY <2>8, <3>1, Zenon
  <2> QED
    BY <1>1, <1>2, <2>1, <2>2, <2>6, <2>9 DEF SentInv
<1>3. CASE UNCHANGED <<built, tm_sent, reset_at>>
  BY <1>3 DEF SentInv, Taken
<1>4. CASE UNCHANGED downlink /\ tm_sent' = 0 /\ reset_at' = Len(built)
  <2>1. built' = built
    BY <1>4 DEF downlink
  <2>2. Taken' = {}
    BY <1>1, <1>4, <2>1 DEF Taken
  <2> QED
    BY <1>1, <1>4, <2>1, <2>2, FS_EmptySet DEF SentInv
<1> QED
  BY <1>2, <1>3, <1>4 DEF Builds, downlink

\* A step that builds nothing.
LEMMA DownlinkStays ==
  ASSUME DownlinkInv, UNCHANGED <<seq, msg_count, built>>, handled' \in Seq(FrameType)
  PROVE  DownlinkInv'
<1>1. BuiltInv'
  BY DEF DownlinkInv, BuiltInv
<1>2. CountInv'
  <2>1. \A j : SameApid(j)' = SameApid(j) /\ SameKind(j)' = SameKind(j)
    BY DEF SameApid, SameKind
  <2>2. \A j : CountOf(built[j].kind)' = CountOf(built[j].kind)
    BY DEF CountOf
  <2> QED
    BY <2>1, <2>2 DEF DownlinkInv, CountInv
<1>3. LossIsVisible'
  BY DEF DownlinkInv, LossIsVisible
<1> QED
  BY <1>1, <1>2, <1>3 DEF DownlinkInv

\* The invariant is inductive.
LEMMA InitInv == Init => TcInv
<1> SUFFICES ASSUME Init PROVE TcInv
  OBVIOUS
<1> USE DEF Init
<1>1. DownlinkInv
  BY DEF DownlinkInv, BuiltInv, CountInv, LossIsVisible
<1>2. RequestInv
  BY NoTcIsAFrame DEF RequestInv, Codes
<1>3. SentInv
  <2>1. Taken = {}
    BY DEF Taken
  <2> QED
    BY <2>1, FS_EmptySet DEF SentInv
<1>4. RejectedInv
  BY DEF RejectedInv
<1> QED
  BY <1>1, <1>2, <1>3, <1>4 DEF TcInv
LEMMA Inductive == TcInv /\ [Next]_vars => TcInv'
<1> SUFFICES ASSUME TcInv, [Next]_vars PROVE TcInv'
  OBVIOUS
<1> USE DEF TcInv
<1>1. CASE Next
  <2>1. handled \in Seq(FrameType)
    BY DEF DownlinkInv, BuiltInv
  <2>2. RequestInv' /\ RejectedInv' /\ handled' \in Seq(FrameType)
        /\ (Builds \/ UNCHANGED <<seq, msg_count, built, tm_sent, reset_at>>)
    BY <1>1, <2>1, StepEffects
  <2>3. DownlinkInv'
    <3>1. CASE \E service \in Nat : Sends(service)
      BY <2>2, <3>1, PacketIsCounted
    <3>2. CASE UNCHANGED <<seq, msg_count, built>>
      BY <2>2, <3>2, DownlinkStays
    <3> QED
      BY <2>2, <3>1, <3>2 DEF Builds, downlink
  <2>4. SentInv'
    BY <2>2, SentIsCounted DEF DownlinkInv
  <2> QED
    BY <2>2, <2>3, <2>4
<1>2. CASE UNCHANGED vars
  <2>1. UNCHANGED <<step, tc, result, seq, msg_count, built, handled, reset_at, tm_sent,
                    tc_rejected, reject_events>>
    BY <1>2 DEF vars, statistics, downlink
  <2>2. DownlinkInv'
    <3>1. handled' \in Seq(FrameType)
      BY <2>1 DEF DownlinkInv, BuiltInv
    <3> QED
      BY <2>1, <3>1, DownlinkStays
  <2> QED
    BY <2>1, <2>2 DEF RequestInv, SentInv, Taken, RejectedInv
<1> QED
  BY <1>1, <1>2
LEMMA AlwaysTcInv == Spec => []TcInv
  BY InitInv, Inductive, PTL DEF Spec

\* For any two packets of an application the sequence counts, and for any two of a
\* kind the message counts, tell how many were built between them and never arrived:
\* for every modulus of either counter and through any number of wraps, whatever
\* the link does at any packet (send_*, TmBuilder::begin, next_message_count).
THEOREM LossIsAlwaysVisible == Spec => []LossIsVisible
<1>1. TcInv => LossIsVisible
  BY DEF TcInv, DownlinkInv
<1> QED
  BY <1>1, AlwaysTcInv, PTL

\* The statistics of SYS_HK tell what happened since the last reset, also when the
\* reset falls between the reports of one telecommand (svc_reset_counters).
THEOREM StatisticsAlwaysMatch == Spec => []StatisticsMatch
<1>1. TcInv => StatisticsMatch
  BY DEF TcInv, SentInv, Taken, RejectedInv, StatisticsMatch
<1> QED
  BY <1>1, AlwaysTcInv, PTL
-----------------------------------------------------------------------------
\* The answers to each telecommand.

\* The acceptance report of an accepted telecommand, as it was asked for.
Accepted(i) ==
  /\ Cardinality(Reports(i, {1, 2})) = (IF "acceptance" \in handled[i].acks THEN 1 ELSE 0)
  /\ \A a \in Reports(i, {1, 2}) : built[a].kind = <<1, 1>> /\ built[a].code = "Ok"

\* How far the answer to the telecommand being handled has come.
ProgressInv ==
  step # "idle" =>
    /\ Len(handled) > 0 /\ tc = handled[Len(handled)]
    /\ step # "rejecting" => Reports(Len(handled), {7, 8}) = {}
    /\ step = "acceptance" => Reports(Len(handled), {1, 2}) = {}
    /\ step \in {"executing", "completion"} => Acceptable /\ Accepted(Len(handled))
    /\ step = "rejecting" => Answered(Len(handled))

\* No packet answers a telecommand still to come.
VerificationInv ==
  /\ step \in {"idle", "acceptance", "rejecting", "executing", "completion"}
  /\ \A k \in DOMAIN built : built[k].tc <= Len(handled)
  /\ ProgressInv /\ HandledIsAnswered

\* What one more packet adds to the reports.
LEMMA ReportsGrow ==
  ASSUME BuiltInv, NEW p \in Packet, built' = Append(built, p)
  PROVE  /\ \A i, T : /\ Reports(i, T) \subseteq 1 .. Len(built)
                      /\ Reports(i, T)' = IF p.tc = i /\ p.kind \in {<<1, s>> : s \in T}
                                          THEN Reports(i, T) \cup {Len(built) + 1}
                                          ELSE Reports(i, T)
         /\ \A k \in 1 .. Len(built) : built'[k] = built[k]
         /\ built'[Len(built) + 1] = p /\ Len(built') = Len(built) + 1
<1> DEFINE n == Len(built)
<1>1. built \in Seq(Packet) /\ n \in Nat
  BY DEF BuiltInv
<1>2. /\ DOMAIN built = 1 .. n /\ DOMAIN built' = (1 .. n) \cup {n + 1}
      /\ built'[n + 1] = p /\ \A k \in 1 .. n : built'[k] = built[k]
      /\ Len(built') = n + 1
  BY <1>1
<1>3. ASSUME NEW i, NEW T
      PROVE  /\ Reports(i, T) \subseteq 1 .. n
             /\ Reports(i, T)' = IF p.tc = i /\ p.kind \in {<<1, s>> : s \in T}
                                 THEN Reports(i, T) \cup {n + 1} ELSE Reports(i, T)
  <2> DEFINE K == {<<1, s>> : s \in T}
  <2>1. Reports(i, T) = {k \in 1 .. n : built[k].tc = i /\ built[k].kind \in K}
    BY <1>2 DEF Reports
  <2>2. Reports(i, T)' = {k \in (1 .. n) \cup {n + 1} : built'[k].tc = i /\ built'[k].kind \in K}
    BY <1>2 DEF Reports
  <2> HIDE DEF K
  <2>3. Reports(i, T)' = IF p.tc = i /\ p.kind \in K THEN Reports(i, T) \cup {n + 1} ELSE Reports(i, T)
    BY <1>2, <2>1, <2>2
  <2> QED
    BY <2>1, <2>3 DEF K
<1> QED
  BY <1>2, <1>3

\* An answer is the same while its reports are.
LEMMA SameAnswer ==
  ASSUME NEW i, handled'[i] = handled[i],
         Reports(i, {1, 2})' = Reports(i, {1, 2}), Reports(i, {7, 8})' = Reports(i, {7, 8}),
         \A k \in Reports(i, {1, 2}) \cup Reports(i, {7, 8}) : built'[k] = built[k]
  PROVE  (Answered(i)' <=> Answered(i)) /\ (Accepted(i)' <=> Accepted(i))
<1>1. \A a \in Reports(i, {1, 2}) : built'[a] = built[a]
  OBVIOUS
<1>2. Answered(i)' <=> Answered(i)
  BY <1>1 DEF Answered
<1>3. Accepted(i)' <=> Accepted(i)
  BY <1>1 DEF Accepted
<1> QED
  BY <1>2, <1>3

\* A packet of another service, or none, changes no answer; nor does a report
\* on one telecommand change the answer to another.
LEMMA OtherAnswers ==
  ASSUME BuiltInv, NEW p \in Packet, built' = Append(built, p), NEW i, handled'[i] = handled[i],
         p.kind[1] # 1 \/ p.tc # i
  PROVE  /\ (Answered(i)' <=> Answered(i)) /\ (Accepted(i)' <=> Accepted(i))
         /\ \A T : Reports(i, T)' = Reports(i, T)
<1>1. \A T : Reports(i, T) \subseteq 1 .. Len(built)
  BY ReportsGrow, Zenon
<1>2. \A T : Reports(i, T)' = Reports(i, T)
  <2>1. TAKE T
  <2>2. Reports(i, T)' = IF p.tc = i /\ p.kind \in {<<1, s>> : s \in T}
                         THEN Reports(i, T) \cup {Len(built) + 1} ELSE Reports(i, T)
    BY ReportsGrow, Zenon
  <2>3. ~(p.tc = i /\ p.kind \in {<<1, s>> : s \in T})
    OBVIOUS
  <2> QED
    BY <2>2, <2>3
<1>3. \A k \in 1 .. Len(built) : built'[k] = built[k]
  BY ReportsGrow, Zenon
<1>4. \A k \in Reports(i, {1, 2}) \cup Reports(i, {7, 8}) : built'[k] = built[k]
  BY <1>1, <1>3
<1>5. Reports(i, {1, 2})' = Reports(i, {1, 2}) /\ Reports(i, {7, 8})' = Reports(i, {7, 8})
  BY <1>2, Zenon
<1>6. (Answered(i)' <=> Answered(i)) /\ (Accepted(i)' <=> Accepted(i))
  BY <1>4, <1>5, SameAnswer
<1> QED
  BY <1>2, <1>6, Zenon

\* What a step that makes no report leaves as it is.
LEMMA UnrelatedStep ==
  ASSUME BuiltInv, UNCHANGED handled,
         UNCHANGED built \/ \E service \in Nat \ {1} : Sends(service),
         \A k \in DOMAIN built : built[k].tc <= Len(handled)
  PROVE  /\ \A i : (Answered(i)' <=> Answered(i)) /\ (Accepted(i)' <=> Accepted(i))
         /\ \A i, T : Reports(i, T)' = Reports(i, T)
         /\ \A k \in DOMAIN built' : built'[k].tc <= Len(handled')
<1>1. CASE UNCHANGED built
  <2>1. \A i, T : Reports(i, T)' = Reports(i, T)
    BY <1>1 DEF Reports
  <2>2. \A i : (Answered(i)' <=> Answered(i)) /\ (Accepted(i)' <=> Accepted(i))
    <3>1. TAKE i
    <3>2. \A k \in Reports(i, {1, 2}) \cup Reports(i, {7, 8}) : built'[k] = built[k]
      BY <1>1
    <3> QED
      BY <2>1, <3>2, SameAnswer, Zenon
  <2> QED
    BY <1>1, <2>1, <2>2
<1>2. CASE \E service \in Nat \ {1} : Sends(service)
  <2>1. PICK service \in Nat : service # 1 /\ Sends(service)
    BY <1>2
  <2>2. PICK p \in Packet : built' = Append(built, p) /\ p.kind[1] = service /\ p.tc = Len(handled)
    BY <2>1, Appended
  <2>3. /\ \A i : (Answered(i)' <=> Answered(i)) /\ (Accepted(i)' <=> Accepted(i))
        /\ \A i, T : Reports(i, T)' = Reports(i, T)
    BY <2>1, <2>2, OtherAnswers, Zenon
  <2>4. \A k \in DOMAIN built' : built'[k].tc <= Len(handled')
    <3>1. built \in Seq(Packet) /\ handled \in Seq(FrameType)
      BY DEF BuiltInv
    <3> QED
      BY <2>2, <3>1
  <2> QED
    BY <2>3, <2>4
<1> QED
  BY <1>1, <1>2

\* What a verification report does, if the telecommand asks for one.
LEMMA VerifyReports ==
  ASSUME BuiltInv, UNCHANGED handled, NEW n \in Nat, n = Len(handled),
         \A k \in DOMAIN built : built[k].tc <= Len(handled),
         NEW ack, NEW subtype \in Nat, NEW code \in Codes, Verify(ack, subtype, code)
  PROVE  /\ \A i : i # n => (Answered(i)' <=> Answered(i))
         /\ \A T : Reports(n, T) \subseteq 1 .. Len(built)
         /\ \A T : Reports(n, T)' =
                     IF ack \in tc.acks /\ subtype \in T
                     THEN Reports(n, T) \cup {Len(built) + 1}
                     ELSE Reports(n, T)
         /\ ack \in tc.acks => built'[Len(built) + 1].kind = <<1, subtype>>
                               /\ built'[Len(built) + 1].code = code
         /\ \A k \in 1 .. Len(built) : built'[k] = built[k]
         /\ \A k \in DOMAIN built' : built'[k].tc <= Len(handled')
<1> DEFINE m == Len(built) + 1
<1>0. built \in Seq(Packet) /\ handled \in Seq(FrameType) /\ DOMAIN built = 1 .. Len(built)
  BY DEF BuiltInv
<1>1. CASE ack \in tc.acks
  <2>1. PICK fate \in {"queued", "refused", "lost"} :
          built' = Append(built, [apid |-> "TTC", seq |-> seq["TTC"], kind |-> <<1, subtype>>,
                                  count |-> CountOf(<<1, subtype>>), tc |-> n,
                                  code |-> code, fate |-> fate])
    BY <1>1 DEF Verify, Emit
  <2> DEFINE p == [apid |-> "TTC", seq |-> seq["TTC"], kind |-> <<1, subtype>>,
                   count |-> CountOf(<<1, subtype>>), tc |-> n, code |-> code, fate |-> fate]
  <2>2. p \in Packet
    <3>1. seq["TTC"] \in Nat /\ CountOf(<<1, subtype>>) \in Nat /\ n \in Nat /\ "TTC" \in Apids
      BY <1>0 DEF BuiltInv, CountOf, Apids
    <3> QED
      BY <3>1 DEF Packet
  <2>3. p.kind = <<1, subtype>> /\ p.tc = n /\ p.code = code /\ built' = Append(built, p)
    BY <2>1
  <2> HIDE DEF p
  <2>4. /\ \A i, T : /\ Reports(i, T) \subseteq 1 .. Len(built)
                     /\ Reports(i, T)' = IF p.tc = i /\ p.kind \in {<<1, s>> : s \in T}
                                         THEN Reports(i, T) \cup {m} ELSE Reports(i, T)
        /\ \A k \in 1 .. Len(built) : built'[k] = built[k]
        /\ built'[m] = p /\ Len(built') = m
    BY <2>2, <2>3, ReportsGrow
  <2>5. \A T : p.kind \in {<<1, s>> : s \in T} <=> subtype \in T
    BY <2>3
  <2>6. \A T : Reports(n, T)' = IF subtype \in T THEN Reports(n, T) \cup {m} ELSE Reports(n, T)
    BY <2>3, <2>4, <2>5, Zenon
  <2>7. \A i : i # n => (Answered(i)' <=> Answered(i))
    BY <2>2, <2>3, OtherAnswers, Zenon
  <2>8. \A k \in DOMAIN built' : built'[k].tc <= Len(handled')
    BY <1>0, <2>2, <2>3
  <2>9. built'[m].kind = <<1, subtype>> /\ built'[m].code = code
    BY <2>3, <2>4, Zenon
  <2>10. \A T : Reports(n, T) \subseteq 1 .. Len(built)
    BY <2>4, Zenon
  <2>11. \A k \in 1 .. Len(built) : built'[k] = built[k]
    BY <2>4, Zenon
  <2> QED
    BY <1>1, <2>6, <2>7, <2>8, <2>9, <2>10, <2>11, Zenon
<1>2. CASE ack \notin tc.acks
  <2>1. built' = built
    BY <1>2 DEF Verify, Silent, downlink
  <2>2. \A i : Answered(i)' <=> Answered(i)
    BY <2>1, UnrelatedStep, Zenon
  <2>3. \A T : Reports(n, T)' = Reports(n, T) /\ Reports(n, T) \subseteq 1 .. Len(built)
    BY <1>0, <2>1 DEF Reports
  <2> QED
    BY <1>2, <2>1, <2>2, <2>3
<1> QED
  BY <1>1, <1>2

LEMMA Singletons == \A x : Cardinality({x}) = 1 /\ Cardinality({}) = 0
<1> QED
  BY FS_Singleton, FS_EmptySet

\* Acceptance: the one report of it, or none, and nothing of the completion yet.
LEMMA AcceptanceIsReported ==
  ASSUME BuiltInv, VerificationInv, AcceptTc
  PROVE  VerificationInv'
<1> DEFINE m == Len(built) + 1
<1>0. PICK n \in Nat : n = Len(handled)
  BY DEF BuiltInv
<1>1. /\ step = "acceptance" /\ Acceptable /\ Verify("acceptance", 1, "Ok")
      /\ step' = "executing" /\ UNCHANGED <<tc, handled>>
  BY DEF AcceptTc
<1>2. /\ handled \in Seq(FrameType) /\ n > 0 /\ tc = handled[n]
      /\ Reports(n, {7, 8}) = {} /\ Reports(n, {1, 2}) = {}
      /\ \A k \in DOMAIN built : built[k].tc <= n
      /\ \A i \in DOMAIN handled : i < n => Answered(i)
  BY <1>0, <1>1 DEF BuiltInv, VerificationInv, ProgressInv, HandledIsAnswered
<1>3. /\ \A i : i # n => (Answered(i)' <=> Answered(i))
      /\ \A T : Reports(n, T)' = IF "acceptance" \in tc.acks /\ 1 \in T
                                 THEN Reports(n, T) \cup {m} ELSE Reports(n, T)
      /\ "acceptance" \in tc.acks => built'[m].kind = <<1, 1>> /\ built'[m].code = "Ok"
      /\ \A k \in DOMAIN built' : built'[k].tc <= Len(handled')
  <2>1. "Ok" \in Codes
    BY DEF Codes
  <2> QED
    BY <1>0, <1>1, <1>2, <2>1, VerifyReports, ZenonT(30)
<1>4. Reports(n, {7, 8})' = {}
  BY <1>2, <1>3
<1>5. Reports(n, {1, 2})' = IF "acceptance" \in tc.acks THEN {m} ELSE {}
  <2>1. 1 \in {1, 2} /\ 2 \in {1, 2}
    OBVIOUS
  <2> QED
    BY <1>2, <1>3, <2>1, Zenon
<1>6. Accepted(n)'
  <2>1. Cardinality(Reports(n, {1, 2})') = IF "acceptance" \in tc.acks THEN 1 ELSE 0
    BY <1>5, Singletons
  <2>2. \A a \in Reports(n, {1, 2})' : built'[a].kind = <<1, 1>> /\ built'[a].code = "Ok"
    BY <1>3, <1>5
  <2>3. handled'[n] = tc
    BY <1>1, <1>2
  <2> QED
    BY <2>1, <2>2, <2>3 DEF Accepted
<1>7. ProgressInv'
  BY <1>0, <1>1, <1>2, <1>4, <1>6 DEF ProgressInv, Acceptable
<1>8. HandledIsAnswered'
  BY <1>0, <1>1, <1>2, <1>3 DEF HandledIsAnswered
<1> QED
  BY <1>1, <1>3, <1>7, <1>8 DEF VerificationInv

\* Refusal: the one report of it, or none, and no completion to come.
LEMMA RefusalIsReported ==
  ASSUME BuiltInv, VerificationInv, RefuseTc
  PROVE  VerificationInv'
<1> DEFINE m == Len(built) + 1
<1>0. PICK n \in Nat : n = Len(handled)
  BY DEF BuiltInv
<1>1. PICK code \in Codes :
        /\ code # "Ok"
        /\ step = "acceptance" /\ ~Acceptable /\ Verify("acceptance", 2, code)
        /\ step' = "rejecting" /\ UNCHANGED <<tc, handled>>
  BY DEF RefuseTc, Codes
<1>2. /\ handled \in Seq(FrameType) /\ n > 0 /\ tc = handled[n]
      /\ Reports(n, {7, 8}) = {} /\ Reports(n, {1, 2}) = {}
      /\ \A k \in DOMAIN built : built[k].tc <= n
      /\ \A i \in DOMAIN handled : i < n => Answered(i)
  BY <1>0, <1>1 DEF BuiltInv, VerificationInv, ProgressInv, HandledIsAnswered
<1>3. /\ \A i : i # n => (Answered(i)' <=> Answered(i))
      /\ \A T : Reports(n, T)' = IF "acceptance" \in tc.acks /\ 2 \in T
                                 THEN Reports(n, T) \cup {m} ELSE Reports(n, T)
      /\ "acceptance" \in tc.acks => built'[m].kind = <<1, 2>> /\ built'[m].code = code
      /\ \A k \in DOMAIN built' : built'[k].tc <= Len(handled')
  <2>1. PICK subtype \in Nat : subtype = 2
    OBVIOUS
  <2>2. Verify("acceptance", subtype, code)
    BY <1>1, <2>1
  <2>3. /\ \A i : i # n => (Answered(i)' <=> Answered(i))
        /\ \A T : Reports(n, T)' = IF "acceptance" \in tc.acks /\ subtype \in T
                                   THEN Reports(n, T) \cup {m} ELSE Reports(n, T)
        /\ "acceptance" \in tc.acks => built'[m].kind = <<1, subtype>> /\ built'[m].code = code
        /\ \A k \in DOMAIN built' : built'[k].tc <= Len(handled')
    BY <1>0, <1>1, <1>2, <2>2, VerifyReports
  <2> QED
    BY <2>1, <2>3
<1>4. Reports(n, {7, 8})' = {}
  BY <1>2, <1>3
<1>5. Reports(n, {1, 2})' = IF "acceptance" \in tc.acks THEN {m} ELSE {}
  <2>1. 1 \in {1, 2} /\ 2 \in {1, 2}
    OBVIOUS
  <2> QED
    BY <1>2, <1>3, <2>1, Zenon
<1>6. Answered(n)'
  <2>1. Cardinality(Reports(n, {1, 2})') = IF "acceptance" \in tc.acks THEN 1 ELSE 0
    BY <1>5, Singletons
  <2>2. Cardinality(Reports(n, {7, 8})') = 0
    BY <1>4, Singletons
  <2>3. \A r \in Reports(n, {1, 2})' : built'[r].kind[2] = 2 /\ built'[r].code # "Ok"
    BY <1>1, <1>3, <1>5
  <2>4. handled'[n] = tc /\ ~(tc.command # "NO_SUCH_COMMAND" /\ tc.sized)
    BY <1>1, <1>2 DEF Acceptable
  <2> QED
    BY <1>4, <2>1, <2>2, <2>3, <2>4 DEF Answered
<1>7. ProgressInv'
  BY <1>0, <1>1, <1>2, <1>4, <1>6 DEF ProgressInv
<1>8. HandledIsAnswered'
  BY <1>0, <1>1, <1>2, <1>3 DEF HandledIsAnswered
<1> QED
  BY <1>1, <1>3, <1>7, <1>8 DEF VerificationInv

\* Completion: the one report of it, or none, after that of the acceptance.
LEMMA CompletionIsReported ==
  ASSUME BuiltInv, RequestInv, VerificationInv, CompleteTc
  PROVE  VerificationInv'
<1> DEFINE m == Len(built) + 1
<1>0. PICK n \in Nat : n = Len(handled)
  BY DEF BuiltInv
<1>1. PICK subtype \in Nat, code \in Codes :
        /\ subtype \in {7, 8} /\ step = "completion" /\ Verify("completion", subtype, code)
        /\ subtype = 8 <=> code # "Ok"
        /\ step' = "idle" /\ UNCHANGED handled
  BY DEF CompleteTc, RequestInv
<1>2. /\ handled \in Seq(FrameType) /\ n > 0 /\ tc = handled[n]
      /\ Reports(n, {7, 8}) = {} /\ Acceptable /\ Accepted(n)
      /\ \A k \in DOMAIN built : built[k].tc <= n
      /\ \A i \in DOMAIN handled : i < n => Answered(i)
  BY <1>0, <1>1 DEF BuiltInv, VerificationInv, ProgressInv, HandledIsAnswered
<1>3. /\ \A i : i # n => (Answered(i)' <=> Answered(i))
      /\ \A T : Reports(n, T) \subseteq 1 .. Len(built)
      /\ \A T : Reports(n, T)' = IF "completion" \in tc.acks /\ subtype \in T
                                 THEN Reports(n, T) \cup {m} ELSE Reports(n, T)
      /\ "completion" \in tc.acks => built'[m].kind = <<1, subtype>> /\ built'[m].code = code
      /\ \A k \in 1 .. Len(built) : built'[k] = built[k]
      /\ \A k \in DOMAIN built' : built'[k].tc <= Len(handled')
  BY <1>0, <1>1, <1>2, VerifyReports
<1>4. Reports(n, {7, 8})' = IF "completion" \in tc.acks THEN {m} ELSE {}
  <2>1. subtype \in {7, 8}
    BY <1>1
  <2> QED
    BY <1>2, <1>3, <2>1, Zenon
<1>5. Reports(n, {1, 2})' = Reports(n, {1, 2})
  <2>1. subtype \notin {1, 2}
    BY <1>1
  <2> QED
    BY <1>3, <2>1, Zenon
<1>6. Answered(n)'
  <2>1. Cardinality(Reports(n, {1, 2})') = IF "acceptance" \in tc.acks THEN 1 ELSE 0
    BY <1>2, <1>5 DEF Accepted
  <2>2. Cardinality(Reports(n, {7, 8})') = IF "completion" \in tc.acks THEN 1 ELSE 0
    BY <1>4, Singletons
  <2>3. \A a \in Reports(n, {1, 2})' :
          a \in 1 .. Len(built) /\ built'[a].kind = <<1, 1>> /\ built'[a].code = "Ok"
    BY <1>2, <1>3, <1>5 DEF Accepted
  <2>4. \A c \in Reports(n, {7, 8})' :
          c = m /\ built'[c].kind = <<1, subtype>> /\ built'[c].code = code
    BY <1>3, <1>4
  <2>5. handled'[n] = tc /\ tc.command # "NO_SUCH_COMMAND" /\ tc.sized
    BY <1>1, <1>2 DEF Acceptable
  <2>6. \A a \in Reports(n, {1, 2})', c \in Reports(n, {7, 8})' :
          a < c /\ built'[a].kind = <<1, 1>>
    BY <2>3, <2>4
  <2>7. \A r \in Reports(n, {1, 2})' \cup Reports(n, {7, 8})' :
          built'[r].kind[2] \in {2, 8} <=> built'[r].code # "Ok"
    BY <1>1, <2>3, <2>4
  <2> QED
    BY <2>1, <2>2, <2>5, <2>6, <2>7 DEF Answered
<1>7. ProgressInv'
  BY <1>1 DEF ProgressInv
<1>8. HandledIsAnswered'
  BY <1>0, <1>1, <1>2, <1>3, <1>6 DEF HandledIsAnswered
<1> QED
  BY <1>1, <1>3, <1>7, <1>8 DEF VerificationInv
\* A step that makes no report leaves the answers as they are, and their
\* progress too when it moves as the handlers move it.
LEMMA OtherStepsKeepAnswers ==
  ASSUME BuiltInv, VerificationInv, UNCHANGED handled,
         UNCHANGED built \/ \E service \in Nat \ {1} : Sends(service),
         \/ step' = step /\ tc' = tc
         \/ step = "rejecting" /\ step' = "idle"
         \/ step = "executing" /\ step' = "completion" /\ tc' = tc
  PROVE  VerificationInv'
<1>0. PICK n \in Nat : n = Len(handled) /\ n = Len(handled') /\ DOMAIN handled = 1 .. n
  BY DEF BuiltInv
<1>1. /\ \A i : (Answered(i)' <=> Answered(i)) /\ (Accepted(i)' <=> Accepted(i))
      /\ \A i, T : Reports(i, T)' = Reports(i, T)
      /\ \A k \in DOMAIN built' : built'[k].tc <= Len(handled')
  <2>1. \A k \in DOMAIN built : built[k].tc <= Len(handled)
    BY DEF VerificationInv
  <2> QED
    BY <2>1, UnrelatedStep
<1>2. /\ Reports(n, {7, 8})' = Reports(n, {7, 8}) /\ Reports(n, {1, 2})' = Reports(n, {1, 2})
      /\ (Answered(n)' <=> Answered(n)) /\ (Accepted(n)' <=> Accepted(n))
  BY <1>1, Zenon
<1>3. step # "idle" =>
        /\ n > 0 /\ tc = handled[n]
        /\ step # "rejecting" => Reports(n, {7, 8}) = {}
        /\ step = "acceptance" => Reports(n, {1, 2}) = {}
        /\ step \in {"executing", "completion"} => Acceptable /\ Accepted(n)
        /\ step = "rejecting" => Answered(n)
  BY <1>0 DEF VerificationInv, ProgressInv
<1>4. tc' = tc => (Acceptable' <=> Acceptable)
  BY DEF Acceptable
<1>5. step' # "idle" =>
        /\ n > 0 /\ tc' = handled'[n]
        /\ step' # "rejecting" => Reports(n, {7, 8})' = {}
        /\ step' = "acceptance" => Reports(n, {1, 2})' = {}
        /\ step' \in {"executing", "completion"} => Acceptable' /\ Accepted(n)'
        /\ step' = "rejecting" => Answered(n)'
  BY <1>2, <1>3, <1>4
<1>6. ProgressInv'
  BY <1>0, <1>5 DEF ProgressInv
<1>7. HandledIsAnswered'
  <2>1. \A i \in 1 .. n : i < n \/ step = "idle" => Answered(i)
    BY <1>0 DEF VerificationInv, HandledIsAnswered
  <2>2. ASSUME NEW i \in 1 .. n, i < n \/ step' = "idle" PROVE Answered(i)'
    <3>1. i < n \/ step = "idle" \/ (step = "rejecting" /\ i = n)
      BY <2>2
    <3>2. Answered(i)
      BY <1>3, <2>1, <3>1
    <3> QED
      BY <1>1, <3>2
  <2> QED
    BY <1>0, <2>2 DEF HandledIsAnswered
<1>8. step' \in {"idle", "acceptance", "rejecting", "executing", "completion"}
  BY DEF VerificationInv
<1> QED
  BY <1>1, <1>6, <1>7, <1>8 DEF VerificationInv

\* A telecommand taken: nothing has been said of it yet.
LEMMA DispatchStartsAnAnswer ==
  ASSUME BuiltInv, VerificationInv, NEW f \in FrameType, Dispatch(f)
  PROVE  VerificationInv'
<1>0. PICK n \in Nat : n = Len(handled) /\ DOMAIN handled = 1 .. n /\ handled \in Seq(FrameType)
  BY DEF BuiltInv
<1>1. /\ step = "idle" /\ step' = "acceptance" /\ tc' = f /\ handled' = Append(handled, f)
      /\ built' = built
  BY DEF Dispatch, NextFrame, downlink
<1>2. /\ Len(handled') = n + 1 /\ DOMAIN handled' = 1 .. n + 1 /\ handled'[n + 1] = f
      /\ \A i \in 1 .. n : handled'[i] = handled[i]
  BY <1>0, <1>1
<1>3. \A i, T : Reports(i, T)' = Reports(i, T)
  BY <1>1 DEF Reports
<1>4. \A k \in DOMAIN built : built[k].tc \in Nat /\ built[k].tc <= n
  <2>1. \A k \in DOMAIN built : built[k] \in Packet
    BY DEF BuiltInv
  <2> QED
    BY <1>0, <2>1 DEF VerificationInv, Packet
<1>5. Reports(n + 1, {1, 2})' = {} /\ Reports(n + 1, {7, 8})' = {}
  <2>1. \A T : Reports(n + 1, T) = {}
    BY <1>4 DEF Reports
  <2> QED
    BY <1>3, <2>1, Zenon
<1>6. ProgressInv'
  BY <1>0, <1>1, <1>2, <1>5 DEF ProgressInv
<1>7. HandledIsAnswered'
  <2>1. ASSUME NEW i \in 1 .. n PROVE Answered(i)'
    <3>1. Answered(i)
      BY <1>0, <1>1 DEF VerificationInv, HandledIsAnswered
    <3>2. \A k \in Reports(i, {1, 2}) \cup Reports(i, {7, 8}) : built'[k] = built[k]
      BY <1>1
    <3>3. handled'[i] = handled[i]
      BY <1>2
    <3>4. Reports(i, {1, 2})' = Reports(i, {1, 2}) /\ Reports(i, {7, 8})' = Reports(i, {7, 8})
      BY <1>3, Zenon
    <3> QED
      BY <3>1, <3>2, <3>3, <3>4, SameAnswer
  <2>2. \A i \in 1 .. n + 1 : i < n + 1 \/ step' = "idle" => i \in 1 .. n
    BY <1>1
  <2> QED
    BY <1>2, <2>1, <2>2 DEF HandledIsAnswered
<1>8. \A k \in DOMAIN built' : built'[k].tc <= Len(handled')
  BY <1>1, <1>2, <1>4
<1> QED
  BY <1>1, <1>6, <1>7, <1>8 DEF VerificationInv

LEMMA AnswersAreKept ==
  ASSUME BuiltInv, RequestInv, VerificationInv, Next
  PROVE  VerificationInv'
<1> DEFINE NoReport == UNCHANGED built \/ \E service \in Nat \ {1} : Sends(service)
<1>0. /\ \A severity \in Nat : EmitEvent(severity) => NoReport
      /\ \A service \in Nat \ {1} : \A subtype \in Nat :
           Emit("TTC", <<service, subtype>>, "Ok") => NoReport
      /\ Silent => NoReport
  <2>1. "Ok" \in Codes
    BY DEF Codes
  <2>2. \A severity \in Nat : EmitEvent(severity) => NoReport
    <3>1. 5 \in Nat \ {1}
      OBVIOUS
    <3> QED
      BY <3>1, HelpersSend, Zenon
  <2>3. ASSUME NEW service \in Nat \ {1}, NEW subtype \in Nat, Emit("TTC", <<service, subtype>>, "Ok")
        PROVE  NoReport
    BY <2>1, <2>3, HelpersSend
  <2>4. Silent => NoReport
    BY DEF Silent, downlink
  <2> QED
    BY <2>2, <2>3, <2>4
<1> USE DEF INFO, LOW, MEDIUM
<1>1. CASE \E f \in Frames : RejectFrame(f)
  <2>1. EmitEvent(LOW) /\ UNCHANGED <<handled, step, tc>>
    BY <1>1 DEF RejectFrame
  <2> QED
    BY <1>0, <2>1, OtherStepsKeepAnswers
<1>2. CASE \E f \in Frames : Dispatch(f)
  BY <1>2, DispatchStartsAnAnswer, TelecommandsAssumption
<1>3. CASE AcceptTc
  BY <1>3, AcceptanceIsReported
<1>4. CASE RefuseTc
  BY <1>4, RefusalIsReported
<1>5. CASE CompleteTc
  BY <1>5, CompletionIsReported
<1>6. CASE RaiseRejection
  <2>1. EmitEvent(LOW) /\ UNCHANGED handled /\ step = "rejecting" /\ step' = "idle"
    BY <1>6 DEF RaiseRejection
  <2> QED
    BY <1>0, <2>1, OtherStepsKeepAnswers
<1>7. CASE \/ SvcTest \/ SvcHousekeeping \/ SvcReportParam \/ SvcSetParam
           \/ SvcSetMode \/ SvcResetCounters
  <2>1. step = "executing" /\ step' = "completion" /\ UNCHANGED <<tc, handled>>
    BY <1>7 DEF SvcTest, SvcHousekeeping, SvcReportParam, SvcSetParam, SvcSetMode,
                SvcResetCounters, Execute
  <2>2. NoReport
    <3>1. \/ EmitEvent(INFO) \/ Silent \/ UNCHANGED built
          \/ Emit("TTC", <<17, 2>>, "Ok") \/ Emit("TTC", <<20, 2>>, "Ok")
      BY <1>7 DEF SvcTest, SvcHousekeeping, SvcReportParam, SvcSetParam, SvcSetMode,
                  SvcResetCounters, downlink
    <3> QED
      BY <1>0, <3>1
  <2> QED
    BY <2>1, <2>2, OtherStepsKeepAnswers
<1>8. CASE \E sid \in Sids : SendHk(sid)
  <2>1. PICK sid \in Sids : SendHk(sid)
    BY <1>8
  <2>2. ApidOf[sid] \in Apids /\ "Ok" \in Codes
    BY DEF Sids, ApidOf, Apids, Codes
  <2>3. Sends(3)
    BY <2>1, <2>2 DEF SendHk, Sends
  <2>4. UNCHANGED <<handled, step, tc>>
    BY <2>1 DEF SendHk
  <2> QED
    BY <2>3, <2>4, OtherStepsKeepAnswers
<1>9. CASE \E severity \in {INFO, LOW, MEDIUM} : OtherEvent(severity)
  <2>1. PICK severity \in Nat : EmitEvent(severity) /\ UNCHANGED <<handled, step, tc>>
    BY <1>9 DEF OtherEvent
  <2> QED
    BY <1>0, <2>1, OtherStepsKeepAnswers
<1>10. CASE LinkChanges
  BY <1>10, OtherStepsKeepAnswers DEF LinkChanges
<1> QED
  BY <1>1, <1>2, <1>3, <1>4, <1>5, <1>6, <1>7, <1>8, <1>9, <1>10 DEF Next, Handle

\* Every telecommand handled is answered with exactly the reports its flags ask
\* for, in their order and with the reason of a failure, for every sequence of
\* telecommands and whatever the link does at any packet (handle_tc,
\* send_verification).
THEOREM TelecommandsAreAnswered == Spec => []HandledIsAnswered
<1>1. Init => VerificationInv
  <2> SUFFICES ASSUME Init PROVE VerificationInv
    OBVIOUS
  <2>1. step = "idle" /\ handled = <<>> /\ built = <<>> /\ DOMAIN handled = {} /\ DOMAIN built = {}
    BY DEF Init
  <2> QED
    BY <2>1 DEF VerificationInv, ProgressInv, HandledIsAnswered
<1>2. TcInv /\ VerificationInv /\ [Next]_vars => VerificationInv'
  <2> SUFFICES ASSUME TcInv, VerificationInv, [Next]_vars PROVE VerificationInv'
    OBVIOUS
  <2>1. BuiltInv /\ RequestInv
    BY DEF TcInv, DownlinkInv
  <2>2. CASE Next
    BY <2>1, <2>2, AnswersAreKept
  <2>3. CASE UNCHANGED vars
    <3>1. UNCHANGED <<step, tc, handled, built>>
      BY <2>3 DEF vars, downlink
    <3> QED
      BY <2>1, <3>1, OtherStepsKeepAnswers
  <2> QED
    BY <2>2, <2>3
<1>3. VerificationInv => HandledIsAnswered
  BY DEF VerificationInv
<1> QED
  BY <1>1, <1>2, <1>3, AlwaysTcInv, PTL DEF Spec

-----------------------------------------------------------------------------
\* The histories run in step with what they are histories of.
HistoryInv ==
  /\ to \in Seq(Session \cup {NoPeer}) /\ Len(to) = Len(built)
  /\ from \in Seq(Session) /\ Len(from) = Len(handled)

\* The link of Telecommands is the peer of Sessions.
LinkInv == peer \in Session \cup {NoPeer} /\ link_up = connected

\* A report of verification belongs to a telecommand that was handled, and
\* went to the session of it.
AnswerInv ==
  /\ \A k \in DOMAIN built : built[k].kind[1] = 1 => built[k].tc \in 1 .. Len(from)
  /\ AnswersStayInSession

\* Nothing crosses from one session to another, on the way in or in the buffer.
StreamInv ==
  /\ waiting \in Seq(Session) /\ rx \in Seq(Session) /\ inbound \in [Session -> Seq(Session)]
  /\ \A s \in Session : \A k \in 1 .. Len(inbound[s]) : inbound[s][k] = s
  /\ connected => \A k \in 1 .. Len(rx) : rx[k] = peer

\* While a telecommand is handled, the peer is its sender or nobody.
PumpInv ==
  /\ phase # "draining" => rx = <<>> /\ step = "idle"
  /\ step # "idle" => Len(from) > 0 /\ (connected => peer = from[Len(from)])

\* What a step may change by building a packet, and what it leaves of the sessions.
Downlinked == BuiltInv /\ HistoryInv /\ LinkInv /\ AnswerInv

\* The inductive invariant of the application.
TtcInv == Downlinked /\ StreamInv /\ PumpInv /\ RequestInv

-----------------------------------------------------------------------------
\* The application starts with nothing built and nobody connected.
LEMMA TtcInitInv == TtcInit => TtcInv
<1> SUFFICES ASSUME TtcInit PROVE TtcInv
  OBVIOUS
<1> USE DEF TtcInit, Init, SessionsInit
<1>1. HistoryInv /\ AnswerInv
  BY DEF HistoryInv, AnswerInv, AnswersStayInSession
<1>2. BuiltInv
  BY DEF BuiltInv
<1>3. LinkInv
  BY DEF LinkInv, connected
<1>4. StreamInv /\ PumpInv
  BY DEF StreamInv, PumpInv, connected
<1>5. RequestInv
  BY NoTcIsAFrame DEF RequestInv, Codes
<1> QED
  BY <1>1, <1>2, <1>3, <1>4, <1>5 DEF TtcInv, Downlinked

\* A packet handed to the link, whatever becomes of it and of the link.
LEMMA PacketStep ==
  ASSUME TtcInv, OnThisLink, NEW service \in Nat, Sends(service),
         service = 1 => step # "idle", UNCHANGED <<handled, from>>
  PROVE  Downlinked' /\ peer' \in {peer, NoPeer}
<1>1. PICK p \in Packet :
        /\ built' = Append(built, p)
        /\ link_up' = (link_up /\ p.fate # "lost") /\ (~link_up => p.fate = "refused")
        /\ p.kind[1] = service /\ p.tc = Len(handled)
  BY Appended, ZenonT(30) DEF TtcInv, Downlinked
<1>2. /\ built \in Seq(Packet) /\ handled \in Seq(FrameType) /\ to \in Seq(Session \cup {NoPeer})
      /\ from \in Seq(Session) /\ Len(from) = Len(handled) /\ Len(to) = Len(built)
      /\ peer \in Session \cup {NoPeer}
  BY DEF TtcInv, Downlinked, BuiltInv, HistoryInv, LinkInv
<1>3. to' = Append(to, peer)
  <2>1. built' # built
    BY <1>1, <1>2
  <2> QED
    BY <2>1 DEF OnThisLink
<1>4. peer' = IF link_up' THEN peer ELSE NoPeer
  BY DEF OnThisLink
<1>5. HistoryInv'
  BY <1>1, <1>2, <1>3 DEF HistoryInv
<1>6. BuiltInv'
  BY <1>2, PacketIsTyped DEF TtcInv, Downlinked
<1>7. LinkInv'
  BY <1>1, <1>2, <1>4 DEF TtcInv, Downlinked, LinkInv, connected, Session, NoPeer
<1>8. AnswerInv'
  <2>1. \A k \in 1 .. Len(built) : built'[k] = built[k] /\ to'[k] = to[k]
    BY <1>1, <1>2, <1>3
  <2>2. built'[Len(built) + 1] = p /\ to'[Len(built) + 1] = peer
    BY <1>1, <1>2, <1>3
  <2>3. DOMAIN built' = 1 .. Len(built) + 1 /\ DOMAIN built = 1 .. Len(built) /\ Len(built) \in Nat
    BY <1>1, <1>2
  <2>4. SUFFICES ASSUME NEW k \in 1 .. Len(built) + 1, built'[k].kind[1] = 1
                 PROVE  /\ built'[k].tc \in 1 .. Len(from)
                        /\ built'[k].fate # "refused" => to'[k] = from[built'[k].tc]
    BY <2>3 DEF AnswerInv, AnswersStayInSession
  <2>5. CASE k \in 1 .. Len(built)
    BY <2>1, <2>3, <2>4, <2>5 DEF TtcInv, Downlinked, AnswerInv, AnswersStayInSession
  <2>6. CASE k = Len(built) + 1
    <3>1. step # "idle"
      BY <1>1, <2>2, <2>4, <2>6
    <3>2. Len(from) > 0 /\ (connected => peer = from[Len(from)])
      BY <3>1 DEF TtcInv, PumpInv
    <3>3. p.fate # "refused" => connected
      BY <1>1 DEF TtcInv, Downlinked, LinkInv
    <3>4. Len(handled) = Len(from) /\ Len(from) \in Nat
      BY <1>2
    <3> QED
      BY <1>1, <2>2, <2>6, <3>2, <3>3, <3>4
  <2> QED
    BY <2>3, <2>5, <2>6
<1> QED
  BY <1>4, <1>5, <1>6, <1>7, <1>8 DEF Downlinked

\* A step that builds nothing.
LEMMA QuietStep ==
  ASSUME TtcInv, OnThisLink, UNCHANGED downlink, UNCHANGED <<handled, from>>
  PROVE  Downlinked' /\ peer' = peer
<1>1. UNCHANGED <<seq, msg_count, link_up, built, to>>
  BY DEF downlink, OnThisLink
<1>2. peer' = peer
  BY <1>1 DEF OnThisLink, TtcInv, Downlinked, LinkInv, connected
<1> QED
  BY <1>1, <1>2 DEF TtcInv, Downlinked, BuiltInv, HistoryInv, LinkInv, connected, AnswerInv,
                    AnswersStayInSession

\* The ground only adds to what is on its way, under the session it sends in.
LEMMA GroundKeepsInv ==
  ASSUME TtcInv, GroundActs
  PROVE  TtcInv'
<1>1. UNCHANGED <<vars, peer, pump, history>>
  BY DEF GroundActs, GroundConnect, GroundSend, GroundClose
<1>2. UNCHANGED <<step, tc, result, seq, msg_count, link_up, built, handled, from, to,
                  phase, rx, peer>>
  BY <1>1 DEF vars, downlink, pump, history
<1>3. StreamInv'
  <2>1. /\ waiting \in Seq(Session) /\ inbound \in [Session -> Seq(Session)]
        /\ \A s \in Session : \A k \in 1 .. Len(inbound[s]) : inbound[s][k] = s
    BY DEF TtcInv, StreamInv
  <2>2. PICK s \in Session : GroundConnect(s) \/ GroundClose(s) \/ GroundSend(s, <<s>>)
    BY DEF GroundActs
  <2>3. /\ waiting' \in Seq(Session) /\ inbound' \in [Session -> Seq(Session)]
        /\ \A r \in Session : \A k \in 1 .. Len(inbound'[r]) : inbound'[r][k] = r
    <3>1. CASE GroundConnect(s)
      BY <2>1, <3>1 DEF GroundConnect
    <3>2. CASE GroundClose(s)
      <4>1. inbound' = inbound \/ inbound' = [inbound EXCEPT ![s] = <<>>]
        BY <3>2 DEF GroundClose
      <4>2. waiting' = waiting
        BY <3>2 DEF GroundClose
      <4>3. CASE inbound' = inbound
        BY <2>1, <4>2, <4>3
      <4>4. CASE inbound' = [inbound EXCEPT ![s] = <<>>]
        <5>1. <<>> \in Seq(Session) /\ Len(<<>>) = 0
          OBVIOUS
        <5>2. \A r \in Session : inbound'[r] = inbound[r] \/ inbound'[r] = <<>>
          BY <2>1, <4>4
        <5>3. inbound' \in [Session -> Seq(Session)]
          BY <2>1, <4>4, <5>1
        <5> QED
          BY <2>1, <4>2, <5>1, <5>2, <5>3
      <4> QED
        BY <4>1, <4>3, <4>4
    <3>3. CASE GroundSend(s, <<s>>)
      <4>1. /\ inbound[s] \o <<s>> \in Seq(Session)
            /\ \A k \in 1 .. Len(inbound[s] \o <<s>>) : (inbound[s] \o <<s>>)[k] = s
        BY <2>1
      <4> QED
        BY <2>1, <3>3, <4>1 DEF GroundSend
    <3> QED
      BY <2>2, <3>1, <3>2, <3>3
  <2> QED
    BY <1>2, <2>3 DEF TtcInv, StreamInv, connected
<1> QED
  BY <1>2, <1>3 DEF TtcInv, Downlinked, BuiltInv, HistoryInv, LinkInv, connected, AnswerInv,
                    AnswersStayInSession, PumpInv, RequestInv

\* A peer is accepted, or found gone, only where the buffer is empty.
LEMMA PollKeepsInv ==
  ASSUME TtcInv, Poll
  PROVE  TtcInv'
<1>1. /\ phase = "between" /\ rx = <<>> /\ step = "idle"
      /\ phase' = "polled" /\ rx' = <<>> /\ step' = "idle"
  BY DEF Poll, LinkStep, TtcInv, PumpInv
<1>2. UNCHANGED <<tc, result, seq, msg_count, built, handled, from, to>>
  BY DEF Poll, LinkStep
<1>3. peer' \in Session \cup {NoPeer} /\ waiting' \in Seq(Session)
  <2>1. waiting \in Seq(Session) /\ peer \in Session \cup {NoPeer}
    BY DEF TtcInv, Downlinked, StreamInv, LinkInv
  <2>2. waiting # <<>> => Head(waiting) \in Session /\ Tail(waiting) \in Seq(Session)
    BY <2>1
  <2> QED
    BY <2>1, <2>2 DEF Poll, LinkPoll, AcceptPeer, NobodyWaits, RefuseSecond, ClosePeer
<1>4. LinkInv'
  BY <1>3 DEF Poll, LinkStep, LinkInv, connected
<1>5. StreamInv'
  <2>1. /\ inbound \in [Session -> Seq(Session)] /\ waiting \in Seq(Session)
        /\ \A s \in Session : \A k \in 1 .. Len(inbound[s]) : inbound[s][k] = s
    BY DEF TtcInv, StreamInv
  <2>2. /\ inbound' \in [Session -> Seq(Session)]
        /\ \A s \in Session : \A k \in 1 .. Len(inbound'[s]) : inbound'[s][k] = s
    <3>1. CASE UNCHANGED inbound
      BY <2>1, <3>1
    <3>2. CASE RefuseSecond
      BY <2>1, <3>2 DEF RefuseSecond
    <3> QED
      BY <3>1, <3>2 DEF Poll, LinkPoll, AcceptPeer, NobodyWaits
  <2> QED
    BY <1>1, <1>3, <2>2 DEF StreamInv
<1> QED
  BY <1>1, <1>2, <1>4, <1>5 DEF TtcInv, Downlinked, BuiltInv, HistoryInv, AnswerInv,
                                AnswersStayInSession, PumpInv, RequestInv

\* What is received was sent in the session of the peer.
LEMMA ReceiveKeepsInv ==
  ASSUME TtcInv, Receive
  PROVE  TtcInv'
<1>1. /\ phase = "receiving" /\ rx = <<>> /\ step = "idle"
      /\ phase' = "draining" /\ step' = "idle"
  BY DEF Receive, LinkStep, TtcInv, PumpInv
<1>2. UNCHANGED <<tc, result, seq, msg_count, built, handled, from, to>>
  BY DEF Receive, LinkStep
<1>3. LinkInv' /\ StreamInv'
  <2>1. /\ inbound \in [Session -> Seq(Session)] /\ waiting \in Seq(Session)
        /\ \A s \in Session : \A k \in 1 .. Len(inbound[s]) : inbound[s][k] = s
        /\ peer \in Session \cup {NoPeer}
    BY DEF TtcInv, Downlinked, StreamInv, LinkInv
  <2>2. CASE \E n \in 1 .. MaxQueued : RecvBytes(n) /\ rx' = rx \o SubSeq(inbound[peer], 1, n)
    <3>1. PICK n \in 1 .. MaxQueued : RecvBytes(n) /\ rx' = rx \o SubSeq(inbound[peer], 1, n)
      BY <2>2
    <3> DEFINE queued == inbound[peer]
    <3>2. /\ peer \in Session /\ peer' = peer /\ waiting' = waiting
          /\ queued \in Seq(Session) /\ n \in 1 .. Len(queued)
          /\ inbound' = [inbound EXCEPT ![peer] = SubSeq(queued, n + 1, Len(queued))]
          /\ rx' = SubSeq(queued, 1, n)
      <4>1. /\ connected /\ n \in 1 .. Len(queued)
            /\ inbound' = [inbound EXCEPT ![peer] = SubSeq(@, n + 1, Len(@))]
            /\ UNCHANGED <<peer, waiting>>
        BY <3>1 DEF RecvBytes
      <4>2. peer \in Session
        BY <2>1, <4>1 DEF connected
      <4>3. queued \in Seq(Session)
        BY <2>1, <4>2
      <4>4. SubSeq(queued, 1, n) \in Seq(Session)
        BY <4>1, <4>3
      <4>5. rx' = SubSeq(queued, 1, n)
        BY <1>1, <3>1, <4>4
      <4> QED
        BY <4>1, <4>2, <4>3, <4>5
    <3>3. \A k \in 1 .. Len(queued) : queued[k] = peer
      BY <2>1, <3>2
    <3>4. /\ SubSeq(queued, 1, n) \in Seq(Session)
          /\ \A k \in 1 .. Len(SubSeq(queued, 1, n)) : SubSeq(queued, 1, n)[k] = peer
      BY <3>2, <3>3
    <3>5. /\ SubSeq(queued, n + 1, Len(queued)) \in Seq(Session)
          /\ \A k \in 1 .. Len(SubSeq(queued, n + 1, Len(queued))) :
               SubSeq(queued, n + 1, Len(queued))[k] = peer
      BY <3>2, <3>3
    <3>6. /\ inbound' \in [Session -> Seq(Session)]
          /\ \A s \in Session : \A k \in 1 .. Len(inbound'[s]) : inbound'[s][k] = s
      BY <2>1, <3>2, <3>5
    <3>7. LinkInv'
      BY <2>1, <3>2 DEF Receive, LinkStep, LinkInv, connected
    <3> QED
      BY <2>1, <3>2, <3>4, <3>6, <3>7 DEF StreamInv
  <2>3. CASE (RecvClosed \/ RecvNothing) /\ UNCHANGED rx
    <3>1. UNCHANGED <<waiting, inbound, rx>> /\ peer' \in {peer, NoPeer}
      BY <2>3 DEF RecvClosed, RecvNothing, ClosePeer, connections
    <3> QED
      BY <1>1, <2>1, <3>1 DEF Receive, LinkStep, LinkInv, StreamInv, connected
  <2> QED
    BY <2>2, <2>3 DEF Receive
<1> QED
  BY <1>1, <1>2, <1>3 DEF TtcInv, Downlinked, BuiltInv, HistoryInv, AnswerInv,
                          AnswersStayInSession, PumpInv, RequestInv

\* What a step of the packet handling leaves of the sessions.
LEMMA StreamsStay ==
  ASSUME TtcInv, UNCHANGED <<waiting, inbound>>, peer' \in {peer, NoPeer},
         rx' = rx \/ rx' = <<>> \/ (rx # <<>> /\ rx' = Tail(rx))
  PROVE  StreamInv'
<1>1. rx' \in Seq(Session) /\ (connected => \A k \in 1 .. Len(rx') : rx'[k] = peer)
  <2>1. rx \in Seq(Session) /\ (connected => \A k \in 1 .. Len(rx) : rx[k] = peer)
    BY DEF TtcInv, StreamInv
  <2>2. CASE rx' = rx
    BY <2>1, <2>2
  <2>3. CASE rx' = <<>>
    BY <2>3
  <2>4. CASE rx # <<>> /\ rx' = Tail(rx)
    <3>1. /\ Tail(rx) \in Seq(Session) /\ Len(Tail(rx)) \in Nat
          /\ \A k \in 1 .. Len(Tail(rx)) : k + 1 \in 1 .. Len(rx) /\ Tail(rx)[k] = rx[k + 1]
      BY <2>1, <2>4
    <3> QED
      BY <2>1, <2>4, <3>1
  <2> QED
    BY <2>2, <2>3, <2>4
<1> QED
  BY <1>1 DEF TtcInv, StreamInv, connected

\* Each packet of an answer goes to the peer there is when it is built.
LEMMA HandleTcKeepsInv ==
  ASSUME TtcInv, HandleTc
  PROVE  TtcInv'
<1>1. /\ Handle /\ OnThisLink /\ phase = "draining"
      /\ UNCHANGED <<phase, rx, from, waiting, inbound>>
  BY DEF HandleTc, pump, OnThisLink
<1>2. step # "idle" /\ UNCHANGED <<handled, from>> /\ RequestInv'
  BY <1>1, HandleEffects DEF TtcInv
<1>3. Downlinked' /\ peer' \in {peer, NoPeer}
  <2>1. CASE UNCHANGED downlink
    BY <1>1, <1>2, <2>1, QuietStep
  <2>2. CASE \E service \in Nat : Sends(service)
    BY <1>1, <1>2, <2>2, PacketStep
  <2> QED
    BY <1>1, <2>1, <2>2, HandleEffects DEF TtcInv, Builds
<1>4. StreamInv'
  BY <1>1, <1>3, StreamsStay
<1>5. PumpInv'
  BY <1>1, <1>2, <1>3 DEF TtcInv, PumpInv, connected
<1> QED
  BY <1>2, <1>3, <1>4, <1>5 DEF TtcInv, Downlinked

\* Events and housekeeping go to whoever is connected: they answer nobody.
LEMMA AnnounceKeepsInv ==
  ASSUME TtcInv, Announce
  PROVE  TtcInv'
<1>1. PICK severity \in {INFO, LOW} : OtherEvent(severity)
  BY DEF Announce
<1>2. Sends(5)
  BY <1>1 DEF OtherEvent, EmitEvent, Sends, INFO, LOW, Apids, Codes
<1>3. /\ UNCHANGED <<handled, from, tc, result, step>> /\ step = "idle"
      /\ OnThisLink /\ UNCHANGED <<waiting, inbound>>
      /\ rx' = rx \/ rx' = <<>>
  BY <1>1 DEF Announce, OtherEvent, OnThisLink
<1>4. Downlinked' /\ peer' \in {peer, NoPeer}
  BY <1>2, <1>3, PacketStep
<1>5. StreamInv'
  BY <1>3, <1>4, StreamsStay
<1>6. PumpInv'
  <2>1. rx = <<>>
    BY DEF Announce, TtcInv, PumpInv
  <2> QED
    BY <1>3, <2>1 DEF PumpInv
<1> QED
  BY <1>3, <1>4, <1>5, <1>6 DEF TtcInv, Downlinked, RequestInv

\* As Announce, outside the pump.
LEMMA BetweenKeepsInv ==
  ASSUME TtcInv, Between
  PROVE  TtcInv'
<1>1. PICK service \in Nat : service # 1 /\ Sends(service)
  <2>1. CASE \E sid \in Sids : SendHk(sid)
    BY <2>1, SMTT(30) DEF SendHk, Sends, Sids, ApidOf, Apids, Codes
  <2>2. CASE OtherEvent(MEDIUM)
    BY <2>2 DEF OtherEvent, EmitEvent, Sends, MEDIUM, Apids, Codes
  <2> QED
    BY <2>1, <2>2 DEF Between
<1>2. /\ UNCHANGED <<handled, from, tc, result, step, phase, rx>> /\ step = "idle"
      /\ OnThisLink /\ UNCHANGED <<waiting, inbound>>
  BY DEF Between, SendHk, OtherEvent, OnThisLink, pump
<1>3. Downlinked' /\ peer' \in {peer, NoPeer}
  BY <1>1, <1>2, PacketStep
<1>4. StreamInv'
  BY <1>2, <1>3, StreamsStay
<1>5. PumpInv'
  BY <1>2 DEF TtcInv, PumpInv
<1> QED
  BY <1>2, <1>3, <1>4, <1>5 DEF TtcInv, Downlinked, RequestInv

\* The packet taken is of the peer there is, if there is one still.
LEMMA TakeKeepsInv ==
  ASSUME TtcInv, Take
  PROVE  TtcInv'
<1>1. /\ phase = "draining" /\ rx # <<>> /\ rx' = Tail(rx) /\ OnThisLink
      /\ UNCHANGED <<phase, waiting, inbound>>
  BY DEF Take, OnThisLink
<1>2. PICK f \in Frames : \/ RejectFrame(f) /\ UNCHANGED from
                          \/ Dispatch(f) /\ from' = Append(from, Head(rx))
  BY DEF Take
<1>3. CASE RejectFrame(f) /\ UNCHANGED from
  <2>1. Sends(5)
    BY <1>3 DEF RejectFrame, EmitEvent, Sends, LOW, Apids, Codes
  <2>2. UNCHANGED <<handled, from, tc, result, step>> /\ step = "idle"
    BY <1>3 DEF RejectFrame, NextFrame
  <2>3. Downlinked' /\ peer' \in {peer, NoPeer}
    BY <1>1, <2>1, <2>2, PacketStep
  <2>4. StreamInv'
    BY <1>1, <2>3, StreamsStay
  <2>5. PumpInv'
    BY <1>1, <2>2 DEF PumpInv
  <2> QED
    BY <2>2, <2>3, <2>4, <2>5 DEF TtcInv, Downlinked, RequestInv
<1>4. CASE Dispatch(f) /\ from' = Append(from, Head(rx))
  <2>1. /\ step' = "acceptance" /\ tc' = f /\ result' = result
        /\ handled' = Append(handled, f)
        /\ UNCHANGED <<seq, msg_count, link_up, built>>
    BY <1>4 DEF Dispatch, downlink
  <2>2. f \in FrameType
    BY TelecommandsAssumption
  <2>3. peer' = peer /\ to' = to
    BY <1>1, <2>1 DEF OnThisLink, TtcInv, Downlinked, LinkInv, connected
  <2>4. Head(rx) \in Session /\ (connected => Head(rx) = peer)
    BY <1>1 DEF TtcInv, StreamInv
  <2>5. /\ from' \in Seq(Session) /\ Len(from') = Len(from) + 1 /\ Len(from) \in Nat
        /\ \A i \in 1 .. Len(from) : from'[i] = from[i]
        /\ from'[Len(from')] = Head(rx)
    BY <1>4, <2>4 DEF TtcInv, Downlinked, HistoryInv
  <2>6. HistoryInv'
    BY <2>1, <2>2, <2>3, <2>5 DEF TtcInv, Downlinked, HistoryInv
  <2>7. AnswerInv'
    BY <2>1, <2>3, <2>5 DEF TtcInv, Downlinked, AnswerInv, AnswersStayInSession
  <2>8. LinkInv' /\ BuiltInv' /\ RequestInv'
    BY <2>1, <2>2, <2>3 DEF TtcInv, Downlinked, LinkInv, connected, BuiltInv, RequestInv
  <2>9. StreamInv'
    BY <1>1, <2>3, StreamsStay
  <2>10. PumpInv'
    BY <1>1, <2>3, <2>4, <2>5 DEF PumpInv, connected
  <2> QED
    BY <2>6, <2>7, <2>8, <2>9, <2>10 DEF TtcInv, Downlinked
<1> QED
  BY <1>2, <1>3, <1>4

\* The steps that change no more than where the pump is.
LEMMA PumpMovesOn ==
  ASSUME TtcInv, NothingToAnnounce \/ PumpEnds \/ UNCHANGED ttcVars
  PROVE  TtcInv'
<1>1. /\ UNCHANGED <<step, tc, result, seq, msg_count, link_up, built, handled, from, to,
                     peer, waiting, inbound, rx>>
      /\ phase' # "draining" => rx = <<>> /\ step = "idle"
  BY DEF NothingToAnnounce, PumpEnds, Drained, ttcVars, vars, downlink, pump, history,
         connections, TtcInv, PumpInv
<1> QED
  BY <1>1 DEF TtcInv, Downlinked, BuiltInv, HistoryInv, LinkInv, AnswerInv, AnswersStayInSession,
              StreamInv, connected, PumpInv, RequestInv

\* The invariant is inductive: one lemma per action above.
LEMMA TtcInductive == TtcInv /\ [TtcNext]_ttcVars => TtcInv'
  BY GroundKeepsInv, PollKeepsInv, ReceiveKeepsInv, HandleTcKeepsInv, AnnounceKeepsInv,
     BetweenKeepsInv, TakeKeepsInv, PumpMovesOn DEF TtcNext

\* The invariant holds throughout: the buffer and the queue of a session hold its own
\* packets only, and while one is answered the peer is its sender or nobody.
THEOREM AlwaysInv == TtcSpec => []TtcInv
  BY TtcInitInv, TtcInductive, PTL DEF TtcSpec

-----------------------------------------------------------------------------
\* A verification report that reaches anybody reaches the session its telecommand
\* came from: for any frames, any number of sessions that replace each other, and
\* a peer found gone at any packet (pump_link, handle_tc, send).
THEOREM AnswersReachTheirSender == TtcSpec => []AnswersStayInSession
<1>1. TtcInv => AnswersStayInSession
  BY DEF TtcInv, Downlinked, AnswerInv
<1> QED
  BY <1>1, AlwaysInv, PTL

\* What was received is what was parsed and what the buffer holds.
ReceiptInv == framed \in Seq(FrameType) /\ received \in Nat /\ ReceivedIsParsed

\* The steps that receive nothing and parse nothing keep the buffer, but for the
\* one that clears it, which finds it empty.
LEMMA ReceiptStays ==
  ASSUME TtcInv, ReceiptInv,
         \/ Poll \/ Announce \/ NothingToAnnounce \/ HandleTc \/ PumpEnds \/ Between
         \/ GroundActs \/ UNCHANGED ttcVars
  PROVE  ReceiptInv'
<1>1. CASE Poll \/ NothingToAnnounce \/ PumpEnds \/ GroundActs \/ UNCHANGED ttcVars
  <2>1. UNCHANGED <<framed, received, rx>>
    BY <1>1 DEF Poll, LinkStep, NothingToAnnounce, PumpEnds, GroundActs, ttcVars, vars, pump, history
  <2> QED
    BY <2>1 DEF ReceiptInv, ReceivedIsParsed
<1>2. CASE Announce
  <2>1. rx = <<>> /\ rx' = <<>>
    BY <1>2 DEF Announce, TtcInv, PumpInv
  <2>2. UNCHANGED <<framed, received>>
    BY <1>2 DEF Announce, OtherEvent
  <2> QED
    BY <2>1, <2>2 DEF ReceiptInv, ReceivedIsParsed
<1>3. CASE HandleTc
  <2>1. UNCHANGED framed
    BY <1>3 DEF HandleTc, Handle, AcceptTc, RefuseTc, RaiseRejection, CompleteTc, SvcTest,
                SvcHousekeeping, SvcReportParam, SvcSetParam, SvcSetMode, SvcResetCounters, Execute
  <2> QED
    BY <1>3, <2>1 DEF HandleTc, pump, ReceiptInv, ReceivedIsParsed
<1>4. CASE Between
  <2>1. UNCHANGED framed
    BY <1>4 DEF Between, SendHk, OtherEvent
  <2> QED
    BY <1>4, <2>1 DEF Between, pump, ReceiptInv, ReceivedIsParsed
<1> QED
  BY <1>1, <1>2, <1>3, <1>4

\* One packet taken out of the buffer is one more parsed.
LEMMA TakeParsesOne ==
  ASSUME TtcInv, ReceiptInv, Take
  PROVE  ReceiptInv'
<1>1. PICK f \in FrameType : framed' = Append(framed, f)
  BY TelecommandsAssumption DEF Take, RejectFrame, Dispatch
<1>2. rx \in Seq(Session) /\ rx # <<>> /\ rx' = Tail(rx) /\ received' = received
  BY DEF Take, TtcInv, StreamInv
<1>3. framed \in Seq(FrameType) /\ received = Len(framed) + Len(rx)
  BY DEF ReceiptInv, ReceivedIsParsed
<1>4. /\ Len(framed') = Len(framed) + 1 /\ Len(framed) \in Nat /\ framed' \in Seq(FrameType)
      /\ Len(rx') = Len(rx) - 1 /\ Len(rx) \in Nat
  BY <1>1, <1>2, <1>3
<1> QED
  BY <1>2, <1>3, <1>4 DEF ReceiptInv, ReceivedIsParsed

\* What is received is put behind what the buffer holds.
LEMMA ReceiveAdds ==
  ASSUME TtcInv, ReceiptInv, Receive
  PROVE  ReceiptInv'
<1>1. UNCHANGED framed
  BY DEF Receive, LinkStep
<1>2. CASE UNCHANGED <<rx, received>>
  BY <1>1, <1>2 DEF ReceiptInv, ReceivedIsParsed
<1>3. CASE \E n \in 1 .. MaxQueued :
             /\ RecvBytes(n)
             /\ rx' = rx \o SubSeq(inbound[peer], 1, n) /\ received' = received + n
  <2>1. PICK n \in 1 .. MaxQueued :
          /\ RecvBytes(n)
          /\ rx' = rx \o SubSeq(inbound[peer], 1, n) /\ received' = received + n
    BY <1>3
  <2> DEFINE queued == inbound[peer]
  <2>2. queued \in Seq(Session) /\ n \in 1 .. Len(queued)
    BY <2>1 DEF RecvBytes, TtcInv, Downlinked, LinkInv, StreamInv, connected
  <2>3. SubSeq(queued, 1, n) \in Seq(Session) /\ Len(SubSeq(queued, 1, n)) = n
    BY <2>2
  <2>4. rx \in Seq(Session) /\ Len(rx') = Len(rx) + n /\ Len(rx) \in Nat
    BY <2>1, <2>3 DEF TtcInv, StreamInv
  <2>5. framed \in Seq(FrameType) /\ Len(framed) \in Nat /\ received = Len(framed) + Len(rx)
    BY DEF ReceiptInv, ReceivedIsParsed
  <2> QED
    BY <1>1, <2>1, <2>4, <2>5 DEF ReceiptInv, ReceivedIsParsed
<1> QED
  BY <1>2, <1>3 DEF Receive

\* No whole packet that was received is dropped: each is parsed or in the buffer
\* still, whichever packet of an answer finds the peer gone, and whatever the next
\* pump clears out of the buffer (pump_link, drain_rx_buffer).
THEOREM ReceivedIsAlwaysParsed == TtcSpec => []ReceivedIsParsed
<1>1. TtcInit => ReceiptInv
  BY DEF TtcInit, Init, ReceiptInv, ReceivedIsParsed
<1>2. TtcInv /\ ReceiptInv /\ [TtcNext]_ttcVars => ReceiptInv'
  BY ReceiptStays, TakeParsesOne, ReceiveAdds DEF TtcNext
<1>3. ReceiptInv => ReceivedIsParsed
  BY DEF ReceiptInv
<1> QED
  BY <1>1, <1>2, <1>3, AlwaysInv, PTL DEF TtcSpec

\* The handling of packets in the application is that of Telecommands: its link
\* changes between two telecommands only, because a pump that polls or receives
\* finds none being handled.
LEMMA StepSimulation == TtcInv /\ [TtcNext]_ttcVars => [Next]_vars
<1> SUFFICES ASSUME TtcInv, [TtcNext]_ttcVars PROVE [Next]_vars
  OBVIOUS
<1>1. link_up \in BOOLEAN
  BY DEF TtcInv, Downlinked, LinkInv, connected
<1>2. ASSUME LinkStep, step = "idle" PROVE LinkChanges \/ UNCHANGED vars
  <2>1. link_up' \in BOOLEAN
    BY <1>2 DEF LinkStep
  <2>2. CASE link_up' = link_up
    BY <1>2, <2>2 DEF LinkStep, vars, downlink
  <2>3. CASE link_up' = ~link_up
    BY <1>2, <2>3 DEF LinkStep, LinkChanges
  <2> QED
    BY <1>1, <2>1, <2>2, <2>3
<1>3. CASE Poll \/ Receive
  BY <1>2, <1>3 DEF Poll, Receive, Next, TtcInv, PumpInv
<1>4. CASE Announce
  BY <1>4 DEF Announce, Next
<1>5. CASE Take
  BY <1>5 DEF Take, Next
<1>6. CASE HandleTc
  BY <1>6 DEF HandleTc, Next
<1>7. CASE Between
  BY <1>7 DEF Between, Next
<1>8. CASE NothingToAnnounce \/ PumpEnds \/ GroundActs \/ UNCHANGED ttcVars
  BY <1>8 DEF NothingToAnnounce, PumpEnds, GroundActs, ttcVars
<1> QED
  BY <1>3, <1>4, <1>5, <1>6, <1>7, <1>8 DEF TtcNext

\* So what is shown of Telecommands holds of the application on its link.
COROLLARY TelecommandsOnTheLink ==
  TtcSpec => [](LossIsVisible /\ StatisticsMatch /\ HandledIsAnswered)
<1>1. TtcInit => Init
  BY DEF TtcInit
<1>2. TtcSpec => Spec
  BY <1>1, StepSimulation, AlwaysInv, PTL DEF TtcSpec, Spec
<1> QED
  BY <1>2, LossIsAlwaysVisible, StatisticsAlwaysMatch, TelecommandsAreAnswered, PTL

-----------------------------------------------------------------------------
\* The housekeeping schedule.

\* A run of the task as the history has it.
Run == [at : Nat, period : [Structures -> Nat \ {0}],
        enabled : [Structures -> BOOLEAN], sent : [Structures -> BOOLEAN]]

ScheduleOK ==
  /\ now \in Nat /\ log \in Seq(Run)
  /\ enabled \in [Structures -> BOOLEAN] /\ next_due \in [Structures -> Nat]
  /\ period \in [Structures -> Nat \ {0}]

\* The deadline a run sets for a structure it finds enabled.
DeadlineAt(s, j) == log[j].at + log[j].period[s]

\* next_due is the nearest of the deadlines set since the last report, itself
\* included; before the first report it is at boot.
DueInv ==
  \A s \in Structures :
    \/ next_due[s] = 0 /\ \A j \in 1 .. Len(log) : ~Sent(s, j)
    \/ \E i \in 1 .. Len(log) :
         /\ LastBefore(s, i, Len(log) + 1)
         /\ \E j \in i .. Len(log) : log[j].enabled[s] /\ next_due[s] = DeadlineAt(s, j)
         /\ \A j \in i .. Len(log) : log[j].enabled[s] => next_due[s] <= DeadlineAt(s, j)

ScheduleInv == ScheduleOK /\ DueInv /\ OnSchedule
-----------------------------------------------------------------------------
\* A run of the task, by what it appends to the history.
LEMMA RunOfTheTask ==
  ASSUME ScheduleOK, TaskTelemetry
  PROVE  /\ log' \in Seq(Run) /\ Len(log') = Len(log) + 1
         /\ \A k \in 1 .. Len(log) : log'[k] = log[k]
         /\ log'[Len(log) + 1] = [at |-> now, period |-> period, enabled |-> enabled,
                                  sent |-> [s \in Structures |-> IsDue(s)]]
<1> DEFINE run == [at |-> now, period |-> period, enabled |-> enabled,
                   sent |-> [s \in Structures |-> IsDue(s)]]
<1>1. run \in Run
  <2>1. \A s \in Structures : IsDue(s) \in BOOLEAN
    BY DEF IsDue, ScheduleOK
  <2>2. [s \in Structures |-> IsDue(s)] \in [Structures -> BOOLEAN]
    BY <2>1, Zenon
  <2> QED
    BY <2>2 DEF ScheduleOK, Run
<1>2. log' = Append(log, run) /\ log \in Seq(Run)
  BY DEF TaskTelemetry, ScheduleOK
<1> HIDE DEF run
<1>3. /\ log' \in Seq(Run) /\ Len(log') = Len(log) + 1
      /\ \A k \in 1 .. Len(log) : log'[k] = log[k]
      /\ log'[Len(log) + 1] = run
  BY <1>1, <1>2
<1> QED
  BY <1>3 DEF run

\* The deadline at a run is a time, and later than the run.
LEMMA DeadlinesAreTimes ==
  ASSUME ScheduleOK
  PROVE  \A s \in Structures, j \in 1 .. Len(log) :
           /\ DeadlineAt(s, j) \in Nat
           /\ log[j].at \in Nat /\ log[j].period[s] \in Nat
           /\ log[j].enabled[s] \in BOOLEAN /\ Sent(s, j) \in BOOLEAN
<1>1. SUFFICES ASSUME NEW s \in Structures, NEW j \in 1 .. Len(log)
               PROVE  /\ DeadlineAt(s, j) \in Nat
                      /\ log[j].at \in Nat /\ log[j].period[s] \in Nat
                      /\ log[j].enabled[s] \in BOOLEAN /\ Sent(s, j) \in BOOLEAN
  OBVIOUS
<1>2. log[j] \in Run
  BY DEF ScheduleOK
<1>3. /\ log[j].at \in Nat /\ log[j].period \in [Structures -> Nat \ {0}]
      /\ log[j].enabled \in [Structures -> BOOLEAN] /\ log[j].sent \in [Structures -> BOOLEAN]
  BY <1>2 DEF Run
<1>4. log[j].period[s] \in Nat
  BY <1>3
<1>5. log[j].enabled[s] \in BOOLEAN /\ log[j].sent[s] \in BOOLEAN
  BY <1>3
<1> QED
  BY <1>3, <1>4, <1>5 DEF DeadlineAt, Sent

LEMMA TypesAreKept == ScheduleOK /\ [HkNext]_hkVars => ScheduleOK'
<1> SUFFICES ASSUME ScheduleOK, [HkNext]_hkVars PROVE ScheduleOK'
  OBVIOUS
<1> USE DEF ScheduleOK
<1>1. CASE TaskTelemetry
  <2>1. now' \in Nat /\ UNCHANGED <<enabled, period>>
    BY <1>1, HousekeepingAssumption DEF TaskTelemetry
  <2>2. next_due' \in [Structures -> Nat]
    <3>1. \A s \in Structures : NextDue(s) \in Nat
      <4>1. TAKE s \in Structures
      <4>2. next_due[s] \in Nat /\ now + period[s] \in Nat
        OBVIOUS
      <4>3. Clamped(s) \in Nat
        BY <4>2 DEF Clamped
      <4> QED
        BY <4>2, <4>3 DEF NextDue
    <3> QED
      BY <1>1, <3>1 DEF TaskTelemetry, NextDues
  <2> QED
    BY <1>1, <2>1, <2>2, RunOfTheTask
<1>2. ASSUME NEW s \in Structures, NEW on \in BOOLEAN, Enable(s, on) PROVE ScheduleOK'
  BY <1>2 DEF Enable
<1>3. ASSUME NEW s \in Structures, NEW p \in Periods, SetPeriod(s, p) PROVE ScheduleOK'
  BY <1>3, HousekeepingAssumption DEF SetPeriod
<1>4. CASE UNCHANGED hkVars
  BY <1>4 DEF hkVars
<1> QED
  BY <1>1, <1>2, <1>3, <1>4 DEF HkNext

\* What OnSchedule says of one structure and one run.
DueAt(s, k) ==
  /\ log[k].enabled[s]
  /\ \/ \A j \in 1 .. k - 1 : ~Sent(s, j)
     \/ \E i \in 1 .. k - 1 :
          /\ LastBefore(s, i, k)
          /\ \E j \in i .. k - 1 :
               log[j].enabled[s] /\ log[j].at + log[j].period[s] <= log[k].at

\* It depends on the runs so far only.
LEMMA HistoryStands ==
  ASSUME NEW s, NEW n \in Nat, \A j \in 1 .. n : log'[j] = log[j]
  PROVE  /\ \A k \in 1 .. n : (Sent(s, k)' <=> Sent(s, k)) /\ (DueAt(s, k)' <=> DueAt(s, k))
         /\ \A i \in 1 .. n : LastBefore(s, i, n + 1)' <=> LastBefore(s, i, n + 1)
<1>1. \A k \in 1 .. n : Sent(s, k)' <=> Sent(s, k)
  BY DEF Sent
<1>2. \A k \in 1 .. n + 1 : \A i \in 1 .. k - 1 : LastBefore(s, i, k)' <=> LastBefore(s, i, k)
  <2>1. TAKE k \in 1 .. n + 1
  <2>2. TAKE i \in 1 .. k - 1
  <2>3. i \in 1 .. n /\ \A j \in i + 1 .. k - 1 : j \in 1 .. n
    OBVIOUS
  <2> QED
    BY <1>1, <2>3 DEF LastBefore
<1>3. ASSUME NEW k \in 1 .. n PROVE DueAt(s, k)' <=> DueAt(s, k)
  <2>1. \A j \in 1 .. k : j \in 1 .. n /\ log'[j] = log[j]
    OBVIOUS
  <2>2. \A j \in 1 .. k - 1 : j \in 1 .. n /\ log'[j] = log[j] /\ (Sent(s, j)' <=> Sent(s, j))
    BY <1>1
  <2>3. \A i \in 1 .. k - 1 : LastBefore(s, i, k)' <=> LastBefore(s, i, k)
    <3>1. k \in 1 .. n + 1
      OBVIOUS
    <3> QED
      BY <1>2, <3>1
  <2>4. \A i \in 1 .. k - 1 : \A j \in i .. k - 1 : j \in 1 .. k - 1
    OBVIOUS
  <2>5. log'[k] = log[k]
    OBVIOUS
  <2> QED
    BY <2>2, <2>3, <2>4, <2>5 DEF DueAt
<1> QED
  BY <1>1, <1>2, <1>3

\* There is one last report before a run.
LEMMA OneLastReport ==
  ASSUME NEW s, NEW k \in Nat, NEW i \in 1 .. k - 1, NEW j \in 1 .. k - 1,
         LastBefore(s, i, k), LastBefore(s, j, k)
  PROVE  i = j
<1>1. ~(i < j) /\ ~(j < i)
  BY DEF LastBefore
<1> QED
  BY <1>1

\* What a run sends is what is due by then.
LEMMA SentWhenDue ==
  ASSUME ScheduleOK, DueInv, TaskTelemetry, NEW s \in Structures,
         NEW n \in Nat, n = Len(log)
  PROVE  (Sent(s, n + 1)' <=> IsDue(s)) /\ (DueAt(s, n + 1)' <=> IsDue(s))
<1>1. /\ Len(log') = n + 1 /\ \A k \in 1 .. n : log'[k] = log[k]
      /\ log'[n + 1] = [at |-> now, period |-> period, enabled |-> enabled,
                        sent |-> [t \in Structures |-> IsDue(t)]]
  BY RunOfTheTask
<1>2. Sent(s, n + 1)' <=> IsDue(s)
  BY <1>1 DEF Sent
<1>3. log'[n + 1].at = now /\ log'[n + 1].enabled[s] = enabled[s]
  BY <1>1
<1>4. /\ \A k \in 1 .. n : Sent(s, k)' <=> Sent(s, k)
      /\ \A i \in 1 .. n : LastBefore(s, i, n + 1)' <=> LastBefore(s, i, n + 1)
  BY <1>1, HistoryStands, Zenon
<1>5. (n + 1) - 1 = n
  OBVIOUS
<1>6. DueAt(s, n + 1)' <=>
        /\ enabled[s]
        /\ \/ \A j \in 1 .. n : ~Sent(s, j)
           \/ \E i \in 1 .. n :
                /\ LastBefore(s, i, n + 1)
                /\ \E j \in i .. n : log[j].enabled[s] /\ DeadlineAt(s, j) <= now
  <2>1. \A i \in 1 .. n : \A j \in i .. n : j \in 1 .. n
    OBVIOUS
  <2>2. \A j \in 1 .. n : /\ log'[j].enabled[s] = log[j].enabled[s]
                          /\ log'[j].at + log'[j].period[s] = DeadlineAt(s, j)
    BY <1>1 DEF DeadlineAt
  <2> QED
    BY <1>3, <1>4, <1>5, <2>1, <2>2 DEF DueAt
<1>7. PICK t \in Nat, d \in Nat, p \in Nat \ {0} : t = now /\ d = next_due[s] /\ p = period[s]
  BY DEF ScheduleOK
<1>8. IsDue(s) <=> enabled[s] /\ d <= t
  BY <1>7 DEF IsDue, Clamped
<1>9. CASE d = 0 /\ \A j \in 1 .. n : ~Sent(s, j)
  BY <1>6, <1>7, <1>8, <1>9, <1>2
<1>10. CASE \E i \in 1 .. n :
              /\ LastBefore(s, i, n + 1)
              /\ \E j \in i .. n : log[j].enabled[s] /\ d = DeadlineAt(s, j)
              /\ \A j \in i .. n : log[j].enabled[s] => d <= DeadlineAt(s, j)
  <2>1. PICK i \in 1 .. n :
          /\ LastBefore(s, i, n + 1)
          /\ \E j \in i .. n : log[j].enabled[s] /\ d = DeadlineAt(s, j)
          /\ \A j \in i .. n : log[j].enabled[s] => d <= DeadlineAt(s, j)
    BY <1>10
  <2>2. ~(\A j \in 1 .. n : ~Sent(s, j))
    BY <2>1 DEF LastBefore
  <2>3. \A h \in 1 .. n : LastBefore(s, h, n + 1) <=> h = i
    BY <1>5, <2>1, OneLastReport
  <2>4. \A j \in i .. n : DeadlineAt(s, j) \in Nat
    BY DeadlinesAreTimes
  <2>5. (\E j \in i .. n : log[j].enabled[s] /\ DeadlineAt(s, j) <= now) <=> d <= t
    BY <1>7, <2>1, <2>4
  <2> QED
    BY <1>2, <1>6, <1>8, <2>1, <2>2, <2>3, <2>5
<1>11. \/ d = 0 /\ \A j \in 1 .. n : ~Sent(s, j)
       \/ \E i \in 1 .. n :
              /\ LastBefore(s, i, n + 1)
              /\ \E j \in i .. n : log[j].enabled[s] /\ d = DeadlineAt(s, j)
              /\ \A j \in i .. n : log[j].enabled[s] => d <= DeadlineAt(s, j)
  BY <1>7 DEF DueInv
<1> QED
  BY <1>9, <1>10, <1>11

\* And the deadline moves with it.
LEMMA DeadlineMoves ==
  ASSUME ScheduleOK, DueInv, TaskTelemetry
  PROVE  DueInv'
<1>0. PICK n \in Nat : n = Len(log)
  BY DEF ScheduleOK
<1>1. SUFFICES ASSUME NEW s \in Structures
               PROVE  \/ next_due'[s] = 0 /\ \A j \in 1 .. n + 1 : ~Sent(s, j)'
                      \/ \E i \in 1 .. n + 1 :
                           /\ LastBefore(s, i, n + 2)'
                           /\ \E j \in i .. n + 1 : log'[j].enabled[s] /\ next_due'[s] = DeadlineAt(s, j)'
                           /\ \A j \in i .. n + 1 :
                                log'[j].enabled[s] => next_due'[s] <= DeadlineAt(s, j)'
  <2>1. Len(log') = n + 1 /\ Len(log') + 1 = n + 2
    BY <1>0, RunOfTheTask
  <2> QED
    BY <2>1 DEF DueInv, LastBefore
<1>2. /\ \A k \in 1 .. n : log'[k] = log[k]
      /\ log'[n + 1] = [at |-> now, period |-> period, enabled |-> enabled,
                        sent |-> [t \in Structures |-> IsDue(t)]]
  BY <1>0, RunOfTheTask
<1>3. PICK t \in Nat, d \in Nat, p \in Nat \ {0} : t = now /\ d = next_due[s] /\ p = period[s]
  BY DEF ScheduleOK
<1>4. /\ log'[n + 1].enabled[s] = enabled[s] /\ DeadlineAt(s, n + 1)' = t + p
      /\ \A j \in 1 .. n : /\ log'[j].enabled[s] = log[j].enabled[s]
                           /\ DeadlineAt(s, j)' = DeadlineAt(s, j) /\ DeadlineAt(s, j) \in Nat
  BY <1>0, <1>2, <1>3, DeadlinesAreTimes DEF DeadlineAt
<1>5. /\ Sent(s, n + 1)' <=> IsDue(s)
      /\ \A j \in 1 .. n : Sent(s, j)' <=> Sent(s, j)
  BY <1>0, <1>2, SentWhenDue, HistoryStands
<1>6. next_due'[s] = NextDue(s)
  BY DEF TaskTelemetry, NextDues
<1>7. CASE IsDue(s)
  <2>1. next_due'[s] = t + p /\ enabled[s]
    BY <1>3, <1>6, <1>7 DEF NextDue, IsDue
  <2>2. LastBefore(s, n + 1, n + 2)'
    <3>1. \A j \in (n + 1) + 1 .. (n + 2) - 1 : FALSE
      OBVIOUS
    <3> QED
      BY <1>5, <1>7, <3>1 DEF LastBefore
  <2>3. n + 1 \in 1 .. n + 1 /\ n + 1 \in n + 1 .. n + 1 /\ \A j \in n + 1 .. n + 1 : j = n + 1
    OBVIOUS
  <2>4. t + p <= t + p
    BY <1>3
  <2> QED
    BY <1>4, <2>1, <2>2, <2>3, <2>4
<1>8. CASE ~IsDue(s)
  <2>1. \/ ~enabled[s] /\ next_due'[s] = d
        \/ /\ enabled[s] /\ t < d
           /\ \/ d <= t + p /\ next_due'[s] = d
              \/ d > t + p /\ next_due'[s] = t + p
    BY <1>3, <1>6, <1>8 DEF NextDue, IsDue, Clamped
  <2>2. CASE d = 0 /\ \A j \in 1 .. n : ~Sent(s, j)
    <3>1. next_due'[s] = 0
      BY <1>3, <2>1, <2>2
    <3>2. \A j \in 1 .. n + 1 : j \in 1 .. n \/ j = n + 1
      OBVIOUS
    <3> QED
      BY <1>5, <1>8, <2>2, <3>1, <3>2
  <2>3. CASE \E i \in 1 .. n :
               /\ LastBefore(s, i, n + 1)
               /\ \E j \in i .. n : log[j].enabled[s] /\ d = DeadlineAt(s, j)
               /\ \A j \in i .. n : log[j].enabled[s] => d <= DeadlineAt(s, j)
    <3>1. PICK i \in 1 .. n :
               /\ LastBefore(s, i, n + 1)
               /\ \E j \in i .. n : log[j].enabled[s] /\ d = DeadlineAt(s, j)
               /\ \A j \in i .. n : log[j].enabled[s] => d <= DeadlineAt(s, j)
      BY <2>3
    <3>2. \A j \in i .. n + 1 : (j \in i .. n /\ j \in 1 .. n) \/ j = n + 1
      OBVIOUS
    <3>3. LastBefore(s, i, n + 2)'
      <4>1. \A j \in i + 1 .. (n + 2) - 1 : (j \in i + 1 .. (n + 1) - 1 /\ j \in 1 .. n) \/ j = n + 1
        OBVIOUS
      <4> QED
        BY <1>5, <1>8, <3>1, <4>1 DEF LastBefore
    <3>4. PICK e \in Nat : e = next_due'[s] /\ e <= d
      BY <1>3, <2>1
    <3>5. \A j \in i .. n + 1 : log'[j].enabled[s] => e <= DeadlineAt(s, j)'
      <4>1. ASSUME NEW j \in 1 .. n, j \in i .. n, log'[j].enabled[s] PROVE e <= DeadlineAt(s, j)'
        <5>1. d <= DeadlineAt(s, j)
          BY <1>4, <3>1, <4>1
        <5> QED
          BY <1>4, <3>4, <5>1
      <4>2. log'[n + 1].enabled[s] => e <= DeadlineAt(s, n + 1)'
        BY <1>3, <1>4, <2>1, <3>4
      <4> QED
        BY <3>2, <4>1, <4>2
    <3>6. \E j \in i .. n + 1 : log'[j].enabled[s] /\ e = DeadlineAt(s, j)'
      <4>1. CASE e = d
        <5>1. PICK j \in i .. n : log[j].enabled[s] /\ d = DeadlineAt(s, j)
          BY <3>1
        <5>2. j \in 1 .. n /\ j \in i .. n + 1
          OBVIOUS
        <5> QED
          BY <1>4, <4>1, <5>1, <5>2
      <4>2. CASE e # d
        <5>1. enabled[s] /\ e = t + p /\ n + 1 \in i .. n + 1
          BY <2>1, <3>4, <4>2
        <5> QED
          BY <1>4, <5>1
      <4> QED
        BY <4>1, <4>2
    <3>7. i \in 1 .. n + 1
      OBVIOUS
    <3> QED
      BY <3>3, <3>4, <3>5, <3>6, <3>7
  <2> QED
    BY <1>0, <1>3, <2>2, <2>3 DEF DueInv
<1> QED
  BY <1>7, <1>8

\* OnSchedule is DueAt at every run.
LEMMA OnScheduleIsDue ==
  OnSchedule <=> \A s \in Structures, k \in DOMAIN log : Sent(s, k) <=> DueAt(s, k)
<1> QED
  BY DEF OnSchedule, DueAt

LEMMA ScheduleIsKept == ScheduleInv /\ [HkNext]_hkVars => ScheduleInv'
<1> SUFFICES ASSUME ScheduleInv, [HkNext]_hkVars PROVE ScheduleInv'
  OBVIOUS
<1>0. ScheduleOK /\ DueInv /\ OnSchedule /\ ScheduleOK'
  BY TypesAreKept DEF ScheduleInv
<1>1. CASE TaskTelemetry
  <2>1. PICK n \in Nat : n = Len(log) /\ DOMAIN log = 1 .. n
    BY <1>0 DEF ScheduleOK
  <2>2. /\ DOMAIN log' = 1 .. n + 1 /\ \A k \in 1 .. n : log'[k] = log[k]
    BY <1>0, <1>1, <2>1, RunOfTheTask
  <2>3. ASSUME NEW s \in Structures, NEW k \in 1 .. n + 1
        PROVE  Sent(s, k)' <=> DueAt(s, k)'
    <3>1. CASE k \in 1 .. n
      <4>1. Sent(s, k) <=> DueAt(s, k)
        BY <1>0, <2>1, <3>1, OnScheduleIsDue
      <4>2. (Sent(s, k)' <=> Sent(s, k)) /\ (DueAt(s, k)' <=> DueAt(s, k))
        BY <2>2, <3>1, HistoryStands
      <4> QED
        BY <4>1, <4>2
    <3>2. CASE k = n + 1
      BY <1>0, <1>1, <2>1, <3>2, SentWhenDue
    <3> QED
      BY <3>1, <3>2
  <2>4. OnSchedule'
    <3>1. (\A s \in Structures, k \in DOMAIN log : Sent(s, k) <=> DueAt(s, k))'
      BY <2>2, <2>3
    <3> QED
      BY <3>1, OnScheduleIsDue, PTL
  <2> QED
    BY <1>0, <1>1, <2>4, DeadlineMoves DEF ScheduleInv
<1>2. CASE UNCHANGED <<log, next_due>>
  BY <1>0, <1>2 DEF ScheduleInv, DueInv, OnSchedule, LastBefore, Sent, DeadlineAt
<1>3. TaskTelemetry \/ UNCHANGED <<log, next_due>>
  BY DEF HkNext, Enable, SetPeriod, hkVars
<1> QED
  BY <1>1, <1>2, <1>3

\* Each structure is reported in the first run that finds it enabled one period
\* after its last report, the period as any run since found it, and in no other
\* run (TtcApp::task_telemetry): for any set of structures and periods, any gaps
\* between the runs, and any changes of the enables and the periods in between.
THEOREM ReportsAreOnSchedule == HkSpec => []OnSchedule
<1>1. HkInit => ScheduleInv
  <2> SUFFICES ASSUME HkInit PROVE ScheduleInv
    OBVIOUS
  <2>1. Len(log) = 0 /\ log \in Seq(Run) /\ DOMAIN log = {}
    BY DEF HkInit
  <2>2. ScheduleOK
    BY <2>1, HousekeepingAssumption DEF HkInit, ScheduleOK
  <2>3. DueInv
    <3>1. \A s \in Structures : next_due[s] = 0
      BY DEF HkInit
    <3>2. 1 .. Len(log) = {}
      BY <2>1
    <3> QED
      BY <3>1, <3>2 DEF DueInv
  <2>4. OnSchedule
    BY <2>1 DEF OnSchedule
  <2> QED
    BY <2>2, <2>3, <2>4 DEF ScheduleInv
<1>2. ScheduleInv => OnSchedule
  BY DEF ScheduleInv
<1> QED
  BY <1>1, <1>2, ScheduleIsKept, PTL DEF HkSpec
=============================================================================
