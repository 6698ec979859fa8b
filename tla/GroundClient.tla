---------------------------- MODULE GroundClient ----------------------------
(***************************************************************************)
(* The Python ground client reading every parameter back (pyground params) *)
(* over the telemetry stream of one session: GroundClient's framing, its   *)
(* poll and wait_for with their timeouts, and the loop of cmd_params.  The *)
(* packets are those SpacePacket builds; the ground decodes them with its  *)
(* own arithmetic.                                                         *)
(*                                                                         *)
(* An octet of the stream is <<packet, position>>.  rx_ is the stretch of  *)
(* the stream between the octets taken and those that have arrived.  Time  *)
(* is left out: a timeout may expire whenever the code looks at it.        *)
(***************************************************************************)
EXTENDS SpacePacket, Sequences

CONSTANTS
  Starts,         \* the sequence counts a session may begin with
  Params,         \* the number of parameters of the dictionary
  ReportPayload,  \* octets of a parameter report between header and CRC
  MaxBuilt        \* bound on the packets the spacecraft builds unasked

kTmSecondary == 13                                       \* of a telemetry packet
kTmMinimum   == kHeaderBytes + kTmSecondary + kCrcBytes

ASSUME GroundAssumption ==
  /\ Starts \subseteq Nat /\ \A start \in Starts : start <= 16383
  /\ Params \in Nat /\ MaxBuilt \in Nat
  /\ ReportPayload \in Nat /\ \A payload \in Payloads \cup {ReportPayload} : payload >= kTmSecondary

VARIABLES
  link,           \* "up" or "closed", as the spacecraft has it
  uplink,         \* parameters asked for that the spacecraft has yet to report
  stream,         \* every octet sent in this session
  arrived, taken, \* how much of it is in _rx, and how much was before that
  client,         \* "ready", "waiting", "done" or "failed"
  answers,        \* what wait_for returned for each parameter: a parameter or None
  tc_sent, tm_received, crc_failures

\* History: every packet built, which of them the link took, and what poll has
\* yielded.
VARIABLES log, queued, yielded

craft  == <<count, sent, words, size, log, queued>>
ground == <<taken, answers, tm_received, crc_failures, yielded>>
groundVars == <<craft, ground, link, uplink, stream, arrived, client, tc_sent>>

None    == 0
Nothing == -1     \* the parameter of a packet that is no parameter report

GroundInit ==
  /\ count \in Starts /\ sent = NoHeader /\ words = Encode(NoHeader) /\ size = 0
  /\ link = "up" /\ uplink = <<>> /\ stream = <<>> /\ log = <<>> /\ queued = <<>>
  /\ arrived = 0 /\ taken = 0 /\ client = "ready" /\ answers = <<>> /\ yielded = <<>>
  /\ tc_sent = 0 /\ tm_received = 0 /\ crc_failures = 0

-----------------------------------------------------------------------------
\* The spacecraft, as Telecommands has it: reports in the order of the
\* telecommands, other telemetry in between, each queued whole or refused.
Octets(packet, n) == [i \in 1 .. n |-> <<packet, i>>]

Emit(name, param, apid, payload) ==
  /\ Build(apid, payload)
  /\ log' = Append(log, [header |-> sent', words |-> words', size |-> size',
                         name |-> name, param |-> param])
  /\ \/ /\ link = "up" /\ size' # 0
        /\ queued' = Append(queued, Len(log) + 1)
        /\ stream' = stream \o Octets(Len(log) + 1, size')
     \/ UNCHANGED <<queued, stream>>
  /\ UNCHANGED <<ground, link, arrived, client, tc_sent>>

ReportParam ==
  /\ uplink # <<>>
  /\ \E apid \in Apids : Emit("PARAM_REPORT", Head(uplink), apid, ReportPayload)
  /\ uplink' = Tail(uplink)

OtherTelemetry ==
  /\ Len(log) < MaxBuilt
  /\ \E apid \in Apids, payload \in Payloads : Emit("OTHER", Nothing, apid, payload)
  /\ UNCHANGED uplink

CloseLink ==
  /\ link = "up" /\ link' = "closed"
  /\ UNCHANGED <<craft, ground, uplink, stream, arrived, client, tc_sent>>

-----------------------------------------------------------------------------
\* _drain: frame by the length field, in arithmetic without a width.
Available == arrived - taken
Octet(k)  == stream[taken + k]

\* Mutant of GroundTotal: without the "minus one".
GroundTotalPlain(length) == kHeaderBytes + length

GroundTotal(length) == kHeaderBytes + length + 1

\* The header at the front of _rx, or whatever octets that are none may say.
HeaderInFront == \A k \in 1 .. kHeaderBytes : Octet(k) = <<Octet(1)[1], k>>
FrontTotals == IF HeaderInFront THEN {GroundTotal(log[Octet(1)[1]].words[3])}
               ELSE kHeaderBytes + 1 .. kTmMinimum

\* No field of a built packet reaches the 65536 where _drain drops an octet.
Whole(total) == total <= Available

HasPacket == Available >= kHeaderBytes /\ \E total \in FrontTotals : Whole(total)

\* parse_tm.  A frame that is not one packet fails its CRC.
Garbage == [apid |-> 0, seq |-> 0, name |-> "OTHER", param |-> Nothing, crc_ok |-> FALSE]
ApidIn(word) == word % 2048
SeqIn(word)  == word % 16384
Decoded(p) == [apid |-> ApidIn(p.words[1]), seq |-> SeqIn(p.words[2]),
               name |-> p.name, param |-> p.param, crc_ok |-> TRUE]
ParseTm(total) ==
  LET k == Octet(1)[1]
  IN IF total >= kTmMinimum /\ SubSeq(stream, taken + 1, taken + total) = Octets(k, log[k].size)
     THEN Decoded(log[k]) ELSE Garbage

\* Mutant of Wanted: any packet will do.
WantedAny(tm) == TRUE

\* The test of wait_for.
Wanted(tm) == tm.name = "PARAM_REPORT"

\* One packet out of _drain and into the loop of wait_for, which discards it or
\* leaves the generators where they are.
TakePacket ==
  /\ client = "waiting" /\ Available >= kHeaderBytes
  /\ \E total \in FrontTotals :
       /\ Whole(total)
       /\ taken' = taken + total
       /\ LET tm == ParseTm(total)
          IN /\ tm_received' = tm_received + 1
             /\ crc_failures' = IF tm.crc_ok THEN crc_failures ELSE crc_failures + 1
             /\ yielded' = Append(yielded, tm)
             /\ IF Wanted(tm)
                THEN client' = "ready" /\ answers' = Append(answers, tm.param)
                ELSE UNCHANGED <<client, answers>>
  /\ UNCHANGED <<craft, link, uplink, stream, arrived, tc_sent>>

\* Mutant of Receive: what was incomplete is overwritten.
ReceiveOver ==
  /\ client = "waiting" /\ ~HasPacket
  /\ \E n \in 1 .. Len(stream) - arrived : arrived' = arrived + n /\ taken' = arrived
  /\ UNCHANGED <<craft, link, uplink, stream, client, answers, tc_sent, tm_received,
                 crc_failures, yielded>>

\* recv() of whatever has come, once nothing whole is left in _rx.
Receive ==
  /\ client = "waiting" /\ ~HasPacket
  /\ \E n \in 1 .. Len(stream) - arrived : arrived' = arrived + n
  /\ UNCHANGED <<craft, ground, link, uplink, stream, client, tc_sent>>

\* Mutant of GiveUp: a link that was closed is waited for.
GiveUpIfUp ==
  /\ client = "waiting" /\ ~HasPacket /\ link = "up"
  /\ client' = "ready" /\ answers' = Append(answers, None)
  /\ UNCHANGED <<craft, link, uplink, stream, arrived, taken, tc_sent, tm_received,
                 crc_failures, yielded>>

\* The deadline of wait_for, found only when nothing whole is left in _rx.  A
\* closed link makes poll() return at once, and wait_for call it again.
GiveUp ==
  /\ client = "waiting" /\ ~HasPacket
  /\ client' = "ready" /\ answers' = Append(answers, None)
  /\ UNCHANGED <<craft, link, uplink, stream, arrived, taken, tc_sent, tm_received,
                 crc_failures, yielded>>

\* recv() raises ConnectionResetError: the spacecraft closed with telecommands unread.
LinkReset ==
  /\ client = "waiting" /\ ~HasPacket /\ link = "closed"
  /\ client' = "failed"
  /\ UNCHANGED <<craft, ground, link, uplink, stream, arrived, tc_sent>>

-----------------------------------------------------------------------------
\* cmd_params: the next parameter; a closed link is noticed by sendall or not.
Ask ==
  /\ client = "ready" /\ Len(answers) < Params
  /\ \/ /\ client' = "waiting" /\ tc_sent' = tc_sent + 1
        /\ uplink' = IF link = "up" THEN Append(uplink, Len(answers) + 1) ELSE uplink
     \/ /\ link = "closed" /\ client' = "failed"
        /\ UNCHANGED <<tc_sent, uplink>>
  /\ UNCHANGED <<craft, ground, link, stream, arrived>>

Finish ==
  /\ client = "ready" /\ Len(answers) = Params
  /\ client' = "done" /\ link' = "closed"
  /\ UNCHANGED <<craft, ground, uplink, stream, arrived, tc_sent>>

Client == Ask \/ TakePacket \/ Receive \/ GiveUp \/ Finish

GroundNext == Client \/ ReportParam \/ OtherTelemetry \/ CloseLink \/ LinkReset

\* The client is a program of its own that waits for nothing without a deadline.
GroundSpec == GroundInit /\ [][GroundNext]_groundVars /\ WF_groundVars(Client)

-----------------------------------------------------------------------------
\* The two independent implementations agree: whatever pieces the stream
\* arrives in, and wherever a wait ended in the middle of it, the ground is
\* handed exactly the packets that were queued, each with the header it was
\* built with, none twice and none left out.
FramedExactly ==
  /\ Len(yielded) <= Len(queued)
  /\ \A k \in DOMAIN yielded :
       LET p == log[queued[k]]
       IN yielded[k] = [apid |-> p.header.apid, seq |-> p.header.sequence_count,
                        name |-> p.name, param |-> p.param, crc_ok |-> TRUE]

\* As long as no wait has timed out, a value is shown against the parameter it
\* was read from; and after that it is at least that of one asked for before.
AnswersMatchUntilATimeout ==
  \A k \in DOMAIN answers :
    /\ answers[k] \in 0 .. k
    /\ (\A j \in 1 .. k - 1 : answers[j] # None) => answers[k] \in {None, k}

\* Every wait ends, also on a link that is closed or silent.
EveryWaitEnds == client = "waiting" ~> client # "waiting"
=============================================================================
