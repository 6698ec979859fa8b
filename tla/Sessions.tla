------------------------------ MODULE Sessions ------------------------------
(***************************************************************************)
(* The connection side of TcpServerLink: one listening socket, one peer,   *)
(* and the ground tools that connect, send, and go away.  A session is one *)
(* TCP connection of the ground, numbered in the order they are made.      *)
(* Every operator is the effect of one system call the code makes; the     *)
(* ground acts between any two of them.                                    *)
(***************************************************************************)
EXTENDS Integers, Sequences

CONSTANTS
  MaxSessions,    \* bound on the connections the ground makes
  Backlog         \* connections the kernel holds before accept()

ASSUME SessionsAssumption == MaxSessions \in Nat /\ Backlog \in Nat

Session == 1 .. MaxSessions
NoPeer  == 0

VARIABLES
  peer,       \* the session peer_fd_ belongs to, NoPeer when it is -1
  waiting,    \* connected sessions accept() has not taken yet
  ground,     \* the ground's end: "new", "up", "gone" or "refused"
  inbound     \* bytes the ground sent that recv() has not taken

connections == <<peer, waiting, ground, inbound>>

SessionsInit ==
  /\ peer = NoPeer /\ waiting = <<>>
  /\ ground  = [s \in Session |-> "new"]
  /\ inbound = [s \in Session |-> <<>>]

connected == peer # NoPeer

-----------------------------------------------------------------------------
\* The ground (external): the kernel completes its connections and takes its
\* bytes whether or not the flight software is looking.

GroundConnect(s) ==
  /\ ground[s] = "new" /\ \A r \in Session : r < s => ground[r] # "new"
  /\ Len(waiting) < Backlog
  /\ ground' = [ground EXCEPT ![s] = "up"]
  /\ waiting' = Append(waiting, s)
  /\ UNCHANGED <<peer, inbound>>

GroundSend(s, bytes) ==
  /\ ground[s] = "up"
  /\ inbound' = [inbound EXCEPT ![s] = @ \o bytes]
  /\ UNCHANGED <<peer, waiting, ground>>

\* An orderly close leaves what was sent readable; a reset discards it.
GroundClose(s) ==
  /\ ground[s] = "up"
  /\ ground' = [ground EXCEPT ![s] = "gone"]
  /\ \/ UNCHANGED inbound
     \/ inbound' = [inbound EXCEPT ![s] = <<>>]
  /\ UNCHANGED <<peer, waiting>>

-----------------------------------------------------------------------------
\* accept_pending(): takes at most one waiting connection and, when there is
\* a peer already, closes it again.  RefuseSecond leaves peer to its user.

NobodyWaits == waiting = <<>> /\ UNCHANGED <<waiting, ground, inbound>>

AcceptPeer ==
  /\ waiting # <<>> /\ ~connected
  /\ peer' = Head(waiting)
  /\ waiting' = Tail(waiting)
  /\ UNCHANGED <<ground, inbound>>

RefuseSecond ==
  /\ waiting # <<>> /\ connected
  /\ waiting' = Tail(waiting)
  /\ ground'  = [ground EXCEPT ![Head(waiting)] = "refused"]
  /\ inbound' = [inbound EXCEPT ![Head(waiting)] = <<>>]

\* close_peer(), as far as the connection goes.
ClosePeer == peer' = NoPeer

\* recv(): n bytes; or the close of the peer, found when there are none left;
\* or nothing yet.
RecvBytes(n) ==
  /\ connected /\ n \in 1 .. Len(inbound[peer])
  /\ inbound' = [inbound EXCEPT ![peer] = SubSeq(@, n + 1, Len(@))]
  /\ UNCHANGED <<peer, waiting, ground>>

RecvClosed ==
  /\ connected /\ inbound[peer] = <<>> /\ ground[peer] = "gone"
  /\ ClosePeer
  /\ UNCHANGED <<waiting, ground, inbound>>

RecvNothing ==
  /\ connected => inbound[peer] = <<>> /\ ground[peer] = "up"
  /\ UNCHANGED connections
=============================================================================
