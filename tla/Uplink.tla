------------------------------- MODULE Uplink -------------------------------
(***************************************************************************)
(* TtcApp::pump_link and drain_rx_buffer over TcpServerLink: from a byte   *)
(* stream per session to telecommands, one pump of the link per base tick. *)
(*                                                                         *)
(* A byte is <<session, packet, position, size>>, packets being numbered   *)
(* within their session; position 0 marks a damaged byte.  The code sees   *)
(* only whether a header is that of a packet, and whether the CRC agrees;  *)
(* a damaged or misaligned header claims any length.  What is sent to the  *)
(* ground on the way is left out, but for the peer it may find gone.       *)
(***************************************************************************)
EXTENDS Sessions, FiniteSets

CONSTANTS
  HeaderBytes,       \* kSpacePacketHeaderBytes
  MaxPacketBytes,    \* kMaxPacketBytes
  RxBufferBytes,     \* kRxBufferBytes
  Sizes,             \* the sizes of the telecommands the ground sends
  MaxSent            \* bound on the packets sent in a session

ASSUME UplinkAssumption ==
  /\ HeaderBytes \in Nat \ {0} /\ MaxPacketBytes \in Nat /\ RxBufferBytes \in Nat
  /\ HeaderBytes <= MaxPacketBytes /\ MaxPacketBytes < RxBufferBytes
  /\ Sizes \subseteq HeaderBytes .. MaxPacketBytes
  /\ MaxSent \in [Session -> Nat]

VARIABLES
  phase,          \* "idle", "polled", "receiving" or "draining"
  rx_buffer,      \* rx_buffer_ up to rx_used_
  consumed,       \* the local of drain_rx_buffer
  was_connected,  \* was_connected_
  tc_received, tc_rejected

\* History: packets sent in each session, the telecommands handled, the sessions
\* accepted with nothing of another one left in the buffer, and those whose
\* bytes were damaged.
VARIABLES sent, handled, fresh, damaged

software == <<phase, rx_buffer, consumed, was_connected, tc_received, tc_rejected>>
past     == <<sent, handled, fresh, damaged>>
vars     == <<connections, software, past>>

Init ==
  /\ SessionsInit
  /\ phase = "idle" /\ rx_buffer = <<>> /\ consumed = 0
  /\ was_connected = FALSE /\ tc_received = 0 /\ tc_rejected = 0
  /\ sent = [s \in Session |-> 0] /\ handled = <<>>
  /\ fresh = {} /\ damaged = {}

-----------------------------------------------------------------------------
\* The ground sends a packet whole; the network may damage one byte of it.
Intact(s, i, n) == [k \in 1 .. n |-> <<s, i, k, n>>]
Damage(bytes, k) == [bytes EXCEPT ![k][3] = 0]

GroundSendsPacket(s) ==
  /\ sent[s] < MaxSent[s]
  /\ \E n \in Sizes :
       LET bytes == Intact(s, sent[s] + 1, n)
       IN \/ GroundSend(s, bytes) /\ UNCHANGED damaged
          \/ /\ \E k \in 1 .. n : GroundSend(s, Damage(bytes, k))
             /\ damaged' = damaged \cup {s}
  /\ sent' = [sent EXCEPT ![s] = @ + 1]
  /\ UNCHANGED <<software, handled, fresh>>

GroundConnectsOrLeaves ==
  /\ \E s \in Session : GroundConnect(s) \/ GroundClose(s)
  /\ UNCHANGED <<software, past>>

-----------------------------------------------------------------------------
\* Anything sent to the ground may find that the peer is gone: flush_tx closes it.
MayFindPeerGone ==
  \/ peer' = peer
  \/ connected /\ ground[peer] = "gone" /\ ClosePeer

Poll ==
  /\ phase = "idle" /\ phase' = "polled"
  /\ \/ (NobodyWaits \/ RefuseSecond) /\ MayFindPeerGone /\ UNCHANGED fresh
     \/ /\ AcceptPeer
        /\ fresh' = IF rx_buffer = <<>> THEN fresh \cup {peer'} ELSE fresh
  /\ UNCHANGED <<rx_buffer, consumed, was_connected, tc_received, tc_rejected,
                 sent, handled, damaged>>

\* connected() is sampled once; a transition raises LINK_CONNECTED or LINK_LOST.
SampleConnection ==
  /\ phase = "polled"
  /\ was_connected' = connected
  /\ rx_buffer' = IF was_connected /\ ~connected THEN <<>> ELSE rx_buffer
  /\ phase' = IF connected THEN "receiving" ELSE "idle"
  /\ MayFindPeerGone
  /\ UNCHANGED <<waiting, ground, inbound, consumed, tc_received, tc_rejected,
                 sent, handled, fresh, damaged>>

Room == RxBufferBytes - Len(rx_buffer)

\* Mutant of Receive: recv() giving 0 is taken for nothing there yet.
ReceiveIgnoringClose ==
  /\ phase = "receiving" /\ phase' = "draining"
  /\ \/ \E n \in 1 .. Room : RecvBytes(n) /\ rx_buffer' = rx_buffer \o SubSeq(inbound[peer], 1, n)
     \/ (connected => inbound[peer] = <<>>) /\ UNCHANGED <<connections, rx_buffer>>
     \/ Room = 0 /\ UNCHANGED <<connections, rx_buffer>>
  /\ UNCHANGED <<consumed, was_connected, tc_received, tc_rejected, past>>

Receive ==
  /\ phase = "receiving" /\ phase' = "draining"
  /\ \/ \E n \in 1 .. Room : RecvBytes(n) /\ rx_buffer' = rx_buffer \o SubSeq(inbound[peer], 1, n)
     \/ Room > 0 /\ (RecvClosed \/ RecvNothing) /\ UNCHANGED rx_buffer
     \/ Room = 0 /\ UNCHANGED <<connections, rx_buffer>>
  /\ UNCHANGED <<consumed, was_connected, tc_received, tc_rejected, past>>

-----------------------------------------------------------------------------
\* drain_rx_buffer, one turn of its loop per step.
Available == Len(rx_buffer) - consumed
At(k)     == rx_buffer[consumed + k]

\* The first n available bytes are the first n of one packet, in order.
Aligned(n) == \A k \in 1 .. n : At(k) = <<At(1)[1], At(1)[2], k, At(1)[4]>>

\* total_size(): of a packet, or whatever a header that is none happens to say.
Totals == IF Aligned(HeaderBytes) THEN {At(1)[4]} ELSE HeaderBytes .. MaxPacketBytes + 1

Reject(bytes) ==
  /\ consumed' = consumed + bytes
  /\ tc_rejected' = tc_rejected + 1
  /\ UNCHANGED <<tc_received, handled>>

\* Mutant of Accept: the loop goes on behind the header.
AcceptHeader(bytes) ==
  /\ consumed' = consumed + HeaderBytes
  /\ tc_received' = tc_received + 1
  /\ handled' = Append(handled, <<At(1)[1], At(1)[2]>>)
  /\ UNCHANGED tc_rejected

Accept(bytes) ==
  /\ consumed' = consumed + bytes
  /\ tc_received' = tc_received + 1
  /\ handled' = Append(handled, <<At(1)[1], At(1)[2]>>)
  /\ UNCHANGED tc_rejected

ParsesAs(total) == Aligned(total) /\ At(1)[4] = total

DrainOne ==
  /\ phase = "draining" /\ Available >= HeaderBytes
  /\ \E total \in Totals :
       \/ total > MaxPacketBytes /\ Reject(1)
       \/ total <= MaxPacketBytes /\ total <= Available
            /\ IF ParsesAs(total) THEN Accept(total) ELSE Reject(total)
  /\ MayFindPeerGone
  /\ UNCHANGED <<waiting, ground, inbound, phase, rx_buffer, was_connected,
                 sent, fresh, damaged>>

\* Mutant of Waits: also for a packet that could never be accepted.
WaitsForAnySize == Available >= HeaderBytes => \E total \in Totals : Available < total

\* No whole header, or a packet still to come; what is left moves to the front.
Waits ==
  Available >= HeaderBytes =>
    \E total \in Totals : total <= MaxPacketBytes /\ Available < total

\* Mutants of Leftover: the buffer is not shuffled; the partial packet is lost.
LeftoverAll  == rx_buffer
LeftoverNone == <<>>

Leftover == SubSeq(rx_buffer, consumed + 1, Len(rx_buffer))

FinishDrain ==
  /\ phase = "draining" /\ Waits
  /\ phase' = "idle" /\ consumed' = 0
  /\ \/ /\ consumed > 0
        /\ rx_buffer' = Leftover
        /\ UNCHANGED peer
     \/ /\ consumed = 0 /\ Len(rx_buffer) = RxBufferBytes
        /\ rx_buffer' = <<>>
        /\ MayFindPeerGone
     \/ /\ consumed = 0 /\ Len(rx_buffer) # RxBufferBytes
        /\ UNCHANGED <<rx_buffer, peer>>
  /\ UNCHANGED <<waiting, ground, inbound, was_connected, tc_received, tc_rejected, past>>

Pump == Poll \/ SampleConnection \/ Receive \/ DrainOne \/ FinishDrain

Next == Pump \/ GroundConnectsOrLeaves \/ \E s \in Session : GroundSendsPacket(s)

Spec == Init /\ [][Next]_vars

\* The scheduler calls the task on every base tick.
FairSpec == Spec /\ WF_vars(Pump)

-----------------------------------------------------------------------------
\* "Reset rather than wedge the uplink forever": it never comes to that.  At
\* most an incomplete packet is carried from one pump to the next, whatever was
\* received, so that receive() always has room.
AlwaysRoom ==
  /\ Len(rx_buffer) <= RxBufferBytes
  /\ phase # "draining" => Len(rx_buffer) < MaxPacketBytes

\* Damage, resynchronisation and reconnection never make a telecommand run
\* twice, nor after one that was sent later in its session.
OnceAndInOrder ==
  \A j, k \in DOMAIN handled :
    j < k /\ handled[j][1] = handled[k][1] => handled[j][2] < handled[k][2]

\* A session that started with an empty buffer and was not damaged is framed
\* exactly: every packet taken so far was handled, and what is in the buffer
\* is the beginning of the next one.
HandledIn(s) == {k \in DOMAIN handled : handled[k][1] = s}
Last(s) == IF HandledIn(s) = {} THEN 0
           ELSE handled[CHOOSE k \in HandledIn(s) : \A j \in HandledIn(s) : j <= k][2]
CleanSessionIsFramed ==
  phase = "idle" /\ peer \in fresh \ damaged =>
    \A k \in DOMAIN rx_buffer :
      rx_buffer[k] = <<peer, Last(peer) + 1, k, rx_buffer[1][4]>>

\* A telecommand sent in such a session is handled, unless the ground leaves.
CommandsGetThrough ==
  \A s \in Session : \A i \in 1 .. MaxSent[s] :
    peer = s /\ s \in fresh \ damaged /\ sent[s] >= i
      ~> <<s, i>> \in {handled[k] : k \in DOMAIN handled} \/ ground[s] # "up" \/ s \in damaged

\* A ground that is gone is noticed, whatever it left unread or incomplete, so
\* that the next one is not refused for ever: receive() finds the end of a
\* connection only when there is room to read up to it.
PeerGoneIsNoticed ==
  \A s \in Session : peer = s /\ ground[s] = "gone" ~> peer # s

\* "Resuming a partial packet across a reconnection would splice two unrelated
\* byte streams together": the buffer holds bytes of one session only.
NoSplice == \A j, k \in DOMAIN rx_buffer : rx_buffer[j][1] = rx_buffer[k][1]
=============================================================================
