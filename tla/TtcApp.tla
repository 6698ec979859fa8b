------------------------------- MODULE TtcApp -------------------------------
(***************************************************************************)
(* The TT&C application on its link: pump_link over the sessions of the    *)
(* ground, the telecommands it takes out of the receive buffer and their   *)
(* answers, and housekeeping between two pumps.  Telecommands says how one *)
(* packet is handled; here it gets its packets from the session they were  *)
(* sent in, and its link comes and goes with the peer.                     *)
(*                                                                         *)
(* The ground sends whole packets (Uplink frames the bytes), whose content *)
(* is chosen when they are parsed; a packet is known by its session.       *)
(***************************************************************************)
EXTENDS Telecommands, Sessions

CONSTANT MaxQueued   \* bound: packets sent and not received, in one session

ASSUME TtcAppAssumption == MaxQueued \in Nat

VARIABLES
  phase,          \* of pump_link: "between" two of them, "polled", "receiving", "draining"
  rx,             \* the packets in rx_buffer_, by session
  was_connected

\* History: the session of each telecommand handled, the peer when each packet
\* was handed to the link, and how many packets were ever received.
VARIABLES from, to, received

pump    == <<phase, rx, was_connected>>
history == <<from, to, received>>
ttcVars == <<vars, connections, pump, history>>

TtcInit ==
  /\ Init /\ SessionsInit
  /\ phase = "between" /\ rx = <<>> /\ was_connected = FALSE
  /\ from = <<>> /\ to = <<>> /\ received = 0

-----------------------------------------------------------------------------
\* The ground (external).
GroundActs ==
  /\ \E s \in Session : \/ GroundConnect(s) \/ GroundClose(s)
                        \/ Len(inbound[s]) < MaxQueued /\ GroundSend(s, <<s>>)
  /\ UNCHANGED <<vars, pump, history>>

\* What a step of Telecommands means for the peer: send() reports Ok and leaves
\* no peer when its flush found that peer gone.
OnThisLink ==
  /\ link_up /\ ~link_up' => ground[peer] = "gone"
  /\ peer' = IF link_up' THEN peer ELSE NoPeer
  /\ to' = IF built' = built THEN to ELSE Append(to, peer)
  /\ UNCHANGED <<waiting, ground, inbound>>

\* A step of the link that handles no packet.
LinkStep ==
  /\ link_up' = (peer' # NoPeer)
  /\ UNCHANGED <<step, tc, result, effects, statistics, seq, msg_count, built, framed,
                 handled, reset_at, reject_events, from, to>>

-----------------------------------------------------------------------------
\* poll(): accept_pending(), then flush_tx(), which may find the peer gone.
LinkPoll ==
  \/ AcceptPeer
  \/ /\ NobodyWaits \/ RefuseSecond
     /\ \/ peer' = peer
        \/ connected /\ ground[peer] = "gone" /\ ClosePeer

Poll ==
  /\ phase = "between" /\ phase' = "polled"
  /\ LinkPoll
  /\ LinkStep
  /\ UNCHANGED <<rx, was_connected, received>>

\* connected() is sampled once: a transition raises its event, and the rest of
\* the pump goes by the sample, whatever sending that event does to the link.
Announce ==
  /\ phase = "polled" /\ was_connected # connected
  /\ OtherEvent(IF connected THEN INFO ELSE LOW) /\ OnThisLink
  /\ was_connected' = connected
  /\ rx' = IF connected THEN rx ELSE <<>>
  /\ phase' = IF connected THEN "receiving" ELSE "between"
  /\ UNCHANGED <<from, received>>

NothingToAnnounce ==
  /\ phase = "polled" /\ was_connected = connected
  /\ phase' = IF connected THEN "receiving" ELSE "between"
  /\ UNCHANGED <<vars, connections, rx, was_connected, history>>

Receive ==
  /\ phase = "receiving" /\ phase' = "draining"
  /\ \/ \E n \in 1 .. MaxQueued :
          /\ RecvBytes(n)
          /\ rx' = rx \o SubSeq(inbound[peer], 1, n) /\ received' = received + n
     \/ (RecvClosed \/ RecvNothing) /\ UNCHANGED <<rx, received>>
  /\ LinkStep
  /\ UNCHANGED was_connected

Take ==
  /\ phase = "draining" /\ rx # <<>> /\ rx' = Tail(rx)
  /\ \E f \in Frames : \/ RejectFrame(f) /\ UNCHANGED from
                       \/ Dispatch(f) /\ from' = Append(from, Head(rx))
  /\ OnThisLink
  /\ UNCHANGED <<phase, was_connected, received>>

HandleTc ==
  /\ phase = "draining" /\ Handle /\ OnThisLink
  /\ UNCHANGED <<pump, from, received>>

\* Mutants of Drained: one packet per pump; and nothing more once the peer is gone.
DrainedWhileUp == phase = "draining" /\ step = "idle" /\ (rx = <<>> \/ ~connected)
DrainedOne == phase = "draining" /\ step = "idle"

Drained == phase = "draining" /\ step = "idle" /\ rx = <<>>

PumpEnds ==
  /\ Drained /\ phase' = "between"
  /\ UNCHANGED <<vars, connections, rx, was_connected, history>>

\* The telemetry task and the scheduler's overrun event, between two pumps.
Between ==
  /\ phase = "between"
  /\ (\E sid \in Sids : SendHk(sid)) \/ OtherEvent(MEDIUM)
  /\ OnThisLink
  /\ UNCHANGED <<pump, from, received>>

TtcNext == \/ Poll \/ Announce \/ NothingToAnnounce \/ Receive \/ Take \/ HandleTc
           \/ PumpEnds \/ Between \/ GroundActs

TtcSpec == TtcInit /\ [][TtcNext]_ttcVars

-----------------------------------------------------------------------------
\* A verification report goes to the session its telecommand came from, although
\* sessions follow each other, the next one waits at the socket already, and any
\* packet sent may find its peer gone.
AnswersStayInSession ==
  \A k \in DOMAIN built :
    built[k].kind[1] = 1 /\ built[k].fate # "refused" => to[k] = from[built[k].tc]

\* Every packet received is parsed, and answered if it is a telecommand, also when
\* sending an answer to one of them finds the peer gone while others of the same
\* read are in the buffer still: what LINK_LOST drops at the next pump is never a
\* whole packet ("Drop any half-received packet").
ReceivedIsParsed == received = Len(framed) + Len(rx)
=============================================================================
