------------------------------ MODULE TcpLink ------------------------------
(***************************************************************************)
(* TcpServerLink with its circular transmit queue.  send() queues a packet *)
(* whole or refuses it; flush_tx() moves bytes into the kernel until the   *)
(* queue is empty or the socket full, and closes the peer on an error.     *)
(* A byte is <<packet, position>>; packets are numbered as they are sent.  *)
(***************************************************************************)
EXTENDS Sessions

CONSTANTS
  TxQueueBytes,   \* kTxQueueBytes
  SocketBytes,    \* how much the kernel buffers towards the ground
  PacketSizes,    \* the sizes of the packets sent
  MaxPackets      \* bound on the packets sent

ASSUME TcpLinkAssumption ==
  /\ TxQueueBytes \in Nat \ {0} /\ SocketBytes \in Nat \ {0}
  /\ PacketSizes \subseteq Nat \ {0} /\ MaxPackets \in Nat

VARIABLES
  tx_queue, tx_head, tx_size, tx_dropped,
  socket,     \* bytes in the kernel the peer has not read
  packets     \* packets offered to send() so far

\* History of the current or last peer: the bytes send() accepted, the bytes
\* the ground has read.
VARIABLES accepted, read

transmit == <<tx_queue, tx_head, tx_size, tx_dropped, socket, packets, accepted, read>>
vars     == <<connections, transmit>>

NoByte == <<0, 0>>
Packet(id, n) == [k \in 1 .. n |-> <<id, k>>]

Init ==
  /\ SessionsInit
  /\ tx_queue = [i \in 0 .. TxQueueBytes - 1 |-> NoByte]
  /\ tx_head = 0 /\ tx_size = 0 /\ tx_dropped = 0
  /\ socket = <<>> /\ packets = 0 /\ accepted = <<>> /\ read = <<>>

Queued == [k \in 1 .. tx_size |-> tx_queue[(tx_head + k - 1) % TxQueueBytes]]

-----------------------------------------------------------------------------
\* Mutant of ForgetQueue: nothing is.
ForgetNothing == UNCHANGED <<tx_head, tx_size>>

\* Both accept_pending() and close_peer() forget what is queued.
ForgetQueue == tx_head' = 0 /\ tx_size' = 0

\* flush_tx() with `bytes` queued from `head` on: whole runs of send() calls,
\* each up to the wrap point of the array.  Only a peer that is gone makes
\* send() fail, and only once it is called, with something queued.
Flush(head, bytes) ==
  LET room == SocketBytes - Len(socket)
      n    == IF Len(bytes) < room THEN Len(bytes) ELSE room
  IN \/ /\ socket' = socket \o SubSeq(bytes, 1, n)
        /\ tx_head' = (head + n) % TxQueueBytes
        /\ tx_size' = Len(bytes) - n
        /\ peer' = peer
     \/ /\ connected /\ bytes # <<>> /\ ground[peer] = "gone"
        /\ ClosePeer /\ ForgetQueue
        /\ socket' = <<>>

\* Mutant of Poll: only packets sent later push the queued ones out.
PollWithoutFlush ==
  /\ NobodyWaits \/ RefuseSecond
  /\ UNCHANGED <<peer, transmit>>

\* poll() is accept_pending() and flush_tx(); a new peer has nothing to flush.
Poll ==
  /\ NobodyWaits \/ RefuseSecond
  /\ Flush(tx_head, Queued)
  /\ UNCHANGED <<tx_queue, tx_dropped, packets, accepted, read>>

PollAccepts ==
  /\ AcceptPeer
  /\ ForgetQueue
  /\ socket' = <<>> /\ accepted' = <<>> /\ read' = <<>>
  /\ UNCHANGED <<tx_queue, tx_dropped, packets>>

\* Mutant of FitsQueue: off by one.
FitsQueueAndOne(n) == tx_size + n <= TxQueueBytes + 1

\* send() of the next packet.
FitsQueue(n) == tx_size + n <= TxQueueBytes

SendQueues(n) ==
  /\ connected /\ packets < MaxPackets /\ FitsQueue(n)
  /\ LET p == Packet(packets + 1, n)
     IN /\ tx_queue' = [i \in DOMAIN tx_queue |->
                          LET k == (i - tx_head - tx_size) % TxQueueBytes
                          IN IF k < n THEN p[k + 1] ELSE tx_queue[i]]
        /\ Flush(tx_head, Queued \o p)
        /\ accepted' = accepted \o p
  /\ packets' = packets + 1
  /\ UNCHANGED <<waiting, ground, inbound, tx_dropped, read>>

SendRefuses(n) ==
  /\ connected /\ packets < MaxPackets /\ ~FitsQueue(n)
  /\ tx_dropped' = tx_dropped + 1
  /\ packets' = packets + 1
  /\ UNCHANGED <<connections, tx_queue, tx_head, tx_size, socket, accepted, read>>

\* receive(), with the bytes themselves left out: they are Uplink's subject.
Receive ==
  /\ RecvClosed
  /\ ForgetQueue /\ socket' = <<>>
  /\ UNCHANGED <<tx_queue, tx_dropped, packets, accepted, read>>

\* The ground reads some of what the kernel holds for it.
GroundRead ==
  /\ connected /\ ground[peer] = "up" /\ socket # <<>>
  /\ \E n \in 1 .. Len(socket) :
       /\ read' = read \o SubSeq(socket, 1, n)
       /\ socket' = SubSeq(socket, n + 1, Len(socket))
  /\ UNCHANGED <<connections, tx_queue, tx_head, tx_size, tx_dropped, packets, accepted>>

Ground == \E s \in Session : GroundConnect(s) \/ GroundClose(s)

Next == \/ Poll \/ PollAccepts \/ Receive \/ GroundRead
        \/ \E n \in PacketSizes : SendQueues(n) \/ SendRefuses(n)
        \/ Ground /\ UNCHANGED transmit

\* The 50 Hz task polls and receives for ever; a ground that stays up reads.
Fairness == WF_vars(Poll \/ PollAccepts) /\ WF_vars(Receive) /\ WF_vars(GroundRead)

Spec == Init /\ [][Next]_vars /\ Fairness

-----------------------------------------------------------------------------
\* The link implements the channel its interface promises: packets go into the
\* peer's stream whole and in order, none of an earlier peer's bytes leak into
\* a later peer's stream, and wrapping the queue loses and repeats nothing.
Channel == INSTANCE LinkChannel WITH
  Peers <- Session, sent <- accepted,
  Packets <- {Packet(id, n) : id \in 1 .. MaxPackets, n \in PacketSizes}
ImplementsChannel == Channel!Spec

\* Nothing between send() and the ground is lost while the peer stays.
NothingIsLost == connected => accepted = read \o socket \o Queued

\* Every byte send() accepted reaches a ground that stays connected, although
\* the socket fills up and the queue drains only once per tick.
EventuallyRead ==
  \A n \in 1 .. 4 : connected /\ Len(accepted) >= n ~> Len(read) >= n \/ ~connected
=============================================================================
