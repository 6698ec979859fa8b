---------------------------- MODULE Telecommands ----------------------------
(***************************************************************************)
(* TtcApp from a framed packet to its answers: parse_tc's verdict,         *)
(* handle_tc, the service handlers, and every telemetry packet they build. *)
(* One packet is built and handed to the link per step, so that the link   *)
(* may fill up or go down at any packet of one telecommand's answer.       *)
(*                                                                         *)
(* A packet counts as built when it takes its sequence count; what became  *)
(* of it is its fate: "queued" for the ground, "refused" by send(), or     *)
(* "lost" when send() said Ok although its flush found the peer gone.      *)
(***************************************************************************)
EXTENDS Integers, Sequences, FiniteSets

CONSTANTS
  SeqModulus,     \* 2^14, the CCSDS sequence count
  CountModulus,   \* 2^16, the message counts
  Frames,         \* the packets the ground may have framed
  MaxFrames,      \* bound: packets framed
  MaxBuilt        \* bound: no new work starts once so many packets were built

Apids == {"TTC", "ADCS", "EPS"}
Sids  == {"SYS_HK", "ADCS_HK", "EPS_HK"}
ApidOf == [SYS_HK |-> "TTC", ADCS_HK |-> "ADCS", EPS_HK |-> "EPS"]

\* Commands by name; an argument is good when it names something that exists
\* and lies within its limits, otherwise "unknown" or "range".
Commands == {"TEST", "ENABLE_HK", "DISABLE_HK", "REPORT_PARAM", "SET_PARAM",
             "SET_MODE", "RESET_COUNTERS", "NO_SUCH_COMMAND"}
FrameType == [verdict : {"Ok", "BadCrc", "BadLength", "UnknownService"}, command : Commands,
              sized : BOOLEAN, acks : SUBSET {"acceptance", "completion"},
              arg : {"good", "unknown", "range"}]

ASSUME TelecommandsAssumption ==
  /\ SeqModulus \in Nat \ {0} /\ CountModulus \in Nat \ {0} /\ MaxFrames \in Nat /\ MaxBuilt \in Nat
  /\ Frames \subseteq FrameType

VARIABLES
  step,           \* "idle", "acceptance", "rejecting", "executing" or "completion"
  tc,             \* the telecommand being handled
  result,         \* the FailureCode its execution returned
  hk_enabled,     \* enabled of each structure in hk_
  param_sets,     \* parameter writes that took effect
  mode_requests,  \* ModeRequest publications on the bus
  tc_received, tc_rejected, tm_sent,
  seq,            \* the sequence counters
  msg_count,      \* msg_counters_, by service and subtype
  link_up

\* History: every packet built, the packets framed and the telecommands handled
\* so far, how many packets had been built at the last reset of the counters,
\* and the TC_REJECTED events since then.
VARIABLES built, framed, handled, reset_at, reject_events

statistics == <<tc_received, tc_rejected, tm_sent>>
downlink   == <<seq, msg_count, link_up, built>>
effects    == <<hk_enabled, param_sets, mode_requests>>
vars == <<step, tc, result, effects, statistics, downlink, framed, handled, reset_at, reject_events>>

NoTc == [verdict |-> "Ok", command |-> "TEST", sized |-> TRUE, acks |-> {}, arg |-> "good"]

Init ==
  /\ step = "idle" /\ tc = NoTc /\ result = "Ok"
  /\ hk_enabled = [s \in Sids |-> TRUE] /\ param_sets = 0 /\ mode_requests = 0
  /\ tc_received = 0 /\ tc_rejected = 0 /\ tm_sent = 0
  /\ seq = [a \in Apids |-> 0] /\ msg_count = <<>> /\ link_up = FALSE
  /\ built = <<>> /\ framed = <<>> /\ handled = <<>> /\ reset_at = 0 /\ reject_events = 0

-----------------------------------------------------------------------------
\* Downlink

\* next_message_count(): a 16-bit counter per (service, subtype) from its first use.
CountOf(kind) == IF kind \in DOMAIN msg_count THEN msg_count[kind] ELSE 0
NextMessageCount(kind) ==
  msg_count' = [k \in DOMAIN msg_count \cup {kind} |->
                  IF k = kind THEN (CountOf(kind) + 1) % CountModulus ELSE msg_count[k]]

\* Mutant of TakeCount: no count without a link.
TakeCountIfUp(apid) ==
  seq' = IF link_up THEN [seq EXCEPT ![apid] = (@ + 1) % SeqModulus] ELSE seq

\* SequenceCounter::next().
NextCount(n)    == (n + 1) % SeqModulus
TakeCount(apid) == seq' = [seq EXCEPT ![apid] = NextCount(@)]

\* Build one packet and hand it to the link.  The sequence count and the
\* message count are taken before anything is known about the link.
Emit(apid, kind, code) ==
  /\ TakeCount(apid)
  /\ NextMessageCount(kind)
  /\ \E fate \in IF link_up THEN {"queued", "refused", "lost"} ELSE {"refused"} :
       /\ built' = Append(built, [apid |-> apid, seq |-> seq[apid], kind |-> kind,
                                  count |-> CountOf(kind), tc |-> Len(handled),
                                  code |-> code, fate |-> fate])
       /\ tm_sent' = IF fate = "refused" THEN tm_sent ELSE tm_sent + 1
       /\ link_up' = (link_up /\ fate # "lost")

Silent == UNCHANGED <<downlink, tm_sent>>

\* The sink of the event log: ST[5] with the severity as its subtype.
INFO == 1
LOW  == 2
MEDIUM == 3
EmitEvent(severity) == Emit("TTC", <<5, severity>>, "Ok")

\* send_verification, if the telecommand asked for that report.
Verify(ack, subtype, code) ==
  IF ack \in tc.acks THEN Emit("TTC", <<1, subtype>>, code) ELSE Silent

-----------------------------------------------------------------------------
\* Uplink

Busy == Len(built) >= MaxBuilt
NextFrame == step = "idle" /\ ~Busy /\ Len(framed) < MaxFrames

\* A framed packet that parse_tc refuses: counted and reported as an event.
RejectFrame(f) ==
  /\ NextFrame /\ f.verdict # "Ok"
  /\ tc_rejected' = tc_rejected + 1
  /\ reject_events' = reject_events + 1
  /\ EmitEvent(LOW)
  /\ framed' = Append(framed, f)
  /\ UNCHANGED <<step, tc, result, effects, tc_received, handled, reset_at>>

Dispatch(f) ==
  /\ NextFrame /\ f.verdict = "Ok"
  /\ tc' = f /\ step' = "acceptance"
  /\ tc_received' = tc_received + 1
  /\ framed' = Append(framed, f) /\ handled' = Append(handled, f)
  /\ UNCHANGED <<result, effects, tc_rejected, tm_sent, downlink, reset_at, reject_events>>

Acceptable == tc.command # "NO_SUCH_COMMAND" /\ tc.sized

AcceptTc ==
  /\ step = "acceptance" /\ Acceptable
  /\ Verify("acceptance", 1, "Ok")
  /\ step' = "executing"
  /\ UNCHANGED <<tc, result, effects, tc_received, tc_rejected, framed, handled, reset_at,
                 reject_events>>

RefuseTc ==
  /\ step = "acceptance" /\ ~Acceptable
  /\ Verify("acceptance", 2, IF tc.command = "NO_SUCH_COMMAND" THEN "UnknownService" ELSE "BadLength")
  /\ tc_rejected' = tc_rejected + 1
  /\ step' = "rejecting"
  /\ UNCHANGED <<tc, result, effects, tc_received, framed, handled, reset_at, reject_events>>

RaiseRejection ==
  /\ step = "rejecting"
  /\ EmitEvent(LOW)
  /\ reject_events' = reject_events + 1
  /\ step' = "idle" /\ tc' = NoTc
  /\ UNCHANGED <<result, effects, tc_received, tc_rejected, framed, handled, reset_at>>

-----------------------------------------------------------------------------
\* Execution, one action per service handler

Execute(commands) ==
  /\ step = "executing" /\ tc.command \in commands
  /\ step' = "completion"
  /\ UNCHANGED <<tc, framed, handled>>

KeepRest == UNCHANGED <<tc_received, tc_rejected, reset_at, reject_events>>

SvcTest ==
  /\ Execute({"TEST"})
  /\ Emit("TTC", <<17, 2>>, "Ok") /\ result' = "Ok"
  /\ KeepRest /\ UNCHANGED effects

SvcHousekeeping ==
  /\ Execute({"ENABLE_HK", "DISABLE_HK"})
  /\ IF tc.arg = "good"
       THEN /\ \E sid \in Sids :
                 hk_enabled' = [hk_enabled EXCEPT ![sid] = (tc.command = "ENABLE_HK")]
            /\ EmitEvent(INFO) /\ result' = "Ok"
       ELSE Silent /\ result' = "IllegalArg" /\ UNCHANGED hk_enabled
  /\ KeepRest /\ UNCHANGED <<param_sets, mode_requests>>

SvcReportParam ==
  /\ Execute({"REPORT_PARAM"})
  /\ IF tc.arg # "unknown"
       THEN Emit("TTC", <<20, 2>>, "Ok") /\ result' = "Ok"
       ELSE Silent /\ result' = "IllegalArg"
  /\ KeepRest /\ UNCHANGED effects

\* to_failure of what ParamStore::set returned.
ToFailure(arg) == CASE arg = "good"    -> "Ok"
                    [] arg = "range"   -> "IllegalArg"
                    [] arg = "unknown" -> "UnknownService"

SvcSetParam ==
  /\ Execute({"SET_PARAM"})
  /\ result' = ToFailure(tc.arg)
  /\ IF tc.arg = "good"
       THEN param_sets' = param_sets + 1 /\ EmitEvent(INFO)
       ELSE Silent /\ UNCHANGED param_sets
  /\ KeepRest /\ UNCHANGED <<hk_enabled, mode_requests>>

\* The request goes on the bus, which nobody in this build subscribes to.
SvcSetMode ==
  /\ Execute({"SET_MODE"})
  /\ mode_requests' = mode_requests + 1
  /\ Silent /\ result' = "Ok"
  /\ KeepRest /\ UNCHANGED <<hk_enabled, param_sets>>

\* Mutant of SvcResetCounters: one counter is left out.
SvcResetReceived ==
  /\ Execute({"RESET_COUNTERS"})
  /\ tc_received' = 0 /\ tc_rejected' = 0
  /\ reset_at' = Len(built) /\ reject_events' = 0
  /\ result' = "Ok"
  /\ UNCHANGED <<effects, tm_sent, downlink>>

SvcResetCounters ==
  /\ Execute({"RESET_COUNTERS"})
  /\ tc_received' = 0 /\ tc_rejected' = 0 /\ tm_sent' = 0
  /\ reset_at' = Len(built) /\ reject_events' = 0
  /\ result' = "Ok"
  /\ UNCHANGED <<effects, downlink>>

\* Mutant of CompleteTc: only success is reported.
CompleteSuccess ==
  /\ step = "completion"
  /\ IF result = "Ok" THEN Verify("completion", 7, result) ELSE Silent
  /\ step' = "idle" /\ tc' = NoTc /\ result' = "Ok"
  /\ UNCHANGED <<effects, tc_received, tc_rejected, framed, handled, reset_at, reject_events>>

CompleteTc ==
  /\ step = "completion"
  /\ Verify("completion", IF result = "Ok" THEN 7 ELSE 8, result)
  /\ step' = "idle" /\ tc' = NoTc /\ result' = "Ok"
  /\ UNCHANGED <<effects, tc_received, tc_rejected, framed, handled, reset_at, reject_events>>

-----------------------------------------------------------------------------
\* The other sources of telemetry, between two telecommands

SendHk(sid) ==
  /\ step = "idle" /\ ~Busy /\ hk_enabled[sid]
  /\ Emit(ApidOf[sid], <<3, 25>>, "Ok")
  /\ UNCHANGED <<step, tc, result, effects, tc_received, tc_rejected, framed, handled,
                 reset_at, reject_events>>

\* LINK_CONNECTED, LINK_LOST, SCHED_OVERRUN.
OtherEvent(severity) ==
  /\ step = "idle" /\ ~Busy
  /\ EmitEvent(severity)
  /\ UNCHANGED <<step, tc, result, effects, tc_received, tc_rejected, framed, handled,
                 reset_at, reject_events>>

\* poll() takes a peer, or receive() finds it gone; both only between packets.
LinkChanges ==
  /\ step = "idle" /\ link_up' = ~link_up
  /\ UNCHANGED <<step, tc, result, effects, statistics, seq, msg_count, built, framed,
                 handled, reset_at, reject_events>>

Handle == \/ AcceptTc \/ RefuseTc \/ RaiseRejection \/ CompleteTc
          \/ SvcTest \/ SvcHousekeeping \/ SvcReportParam \/ SvcSetParam
          \/ SvcSetMode \/ SvcResetCounters

Next == \/ \E f \in Frames : RejectFrame(f) \/ Dispatch(f)
        \/ Handle
        \/ \E sid \in Sids : SendHk(sid)
        \/ \E severity \in {INFO, LOW, MEDIUM} : OtherEvent(severity)
        \/ LinkChanges

Spec == Init /\ [][Next]_vars

-----------------------------------------------------------------------------
\* "The ground's only means of detecting a lost packet": between any two packets
\* of an application that the ground may receive one after the other, the
\* sequence counts tell how many others were built and never reached it, whatever
\* kept them from it: no peer, a full queue, or a peer found gone; and between
\* two reports of a kind, "a lost report of one specific kind" is told by the
\* message counts.  Each tells it up to where its counter wraps.
LossIsVisible ==
  \A j, k \in DOMAIN built : j < k =>
    /\ built[j].apid = built[k].apid =>
         (built[k].seq - built[j].seq - 1) % SeqModulus
           = Cardinality({m \in j + 1 .. k - 1 : built[m].apid = built[k].apid}) % SeqModulus
    /\ built[j].kind = built[k].kind =>
         (built[k].count - built[j].count - 1) % CountModulus
           = Cardinality({m \in j + 1 .. k - 1 : built[m].kind = built[k].kind}) % CountModulus

\* Each telecommand handled is answered with exactly the reports its flags ask
\* for: one acceptance report; then one completion report if it was accepted
\* and none otherwise; a report of failure, and no other, gives a reason.  No
\* link state makes one be skipped or built twice.
Reports(i, subtypes) ==
  {k \in DOMAIN built : built[k].tc = i /\ built[k].kind \in {<<1, s>> : s \in subtypes}}
Answered(i) ==
  LET f == handled[i]
      acceptance == Reports(i, {1, 2})
      completion == Reports(i, {7, 8})
      accepted   == f.command # "NO_SUCH_COMMAND" /\ f.sized
  IN /\ Cardinality(acceptance) = (IF "acceptance" \in f.acks THEN 1 ELSE 0)
     /\ Cardinality(completion) = (IF "completion" \in f.acks /\ accepted THEN 1 ELSE 0)
     /\ \A a \in acceptance, c \in completion : a < c /\ built[a].kind = <<1, 1>>
     /\ \A r \in acceptance \cup completion :
          built[r].kind[2] \in {2, 8} <=> built[r].code # "Ok"
HandledIsAnswered ==
  \A i \in DOMAIN handled : i < Len(handled) \/ step = "idle" => Answered(i)

\* The statistics in SYS_HK tell what happened since they were last reset, also
\* when the reset falls between two reports of one telecommand: tm_sent counts
\* the packets send() took, tc_rejected the TC_REJECTED events.
StatisticsMatch ==
  /\ tm_sent = Cardinality({k \in reset_at + 1 .. Len(built) : built[k].fate # "refused"})
  /\ step # "rejecting" => tc_rejected = reject_events
=============================================================================
