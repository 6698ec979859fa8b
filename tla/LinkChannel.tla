---------------------------- MODULE LinkChannel ----------------------------
(***************************************************************************)
(* What ILink promises its user for the downlink: while one peer is there, *)
(* every packet send() accepts is added whole to the peer's byte stream,   *)
(* and the peer reads a prefix of that stream and nothing else.  A peer    *)
(* that is gone takes what it has not read with it; the next one starts    *)
(* with an empty stream.                                                   *)
(***************************************************************************)
EXTENDS Integers, Sequences

CONSTANTS Peers, NoPeer, Packets

VARIABLES peer, sent, read

channel == <<peer, sent, read>>

Init == peer = NoPeer /\ sent = <<>> /\ read = <<>>

Connect ==
  /\ peer = NoPeer /\ peer' \in Peers
  /\ sent' = <<>> /\ read' = <<>>

Drop == peer # NoPeer /\ peer' = NoPeer /\ UNCHANGED <<sent, read>>

\* The attempt to send may itself find the peer gone.
Send ==
  /\ peer # NoPeer /\ peer' \in {peer, NoPeer}
  /\ \E p \in Packets : sent' = sent \o p
  /\ UNCHANGED read

Read ==
  /\ peer # NoPeer
  /\ \E n \in Len(read) + 1 .. Len(sent) : read' = SubSeq(sent, 1, n)
  /\ UNCHANGED <<peer, sent>>

Next == Connect \/ Drop \/ Send \/ Read

Spec == Init /\ [][Next]_channel
=============================================================================
