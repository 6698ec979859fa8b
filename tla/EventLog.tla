------------------------------ MODULE EventLog ------------------------------
(***************************************************************************)
(* fsw/core/event_log.hpp: every event goes into the history, is counted   *)
(* and handed to the sink on the stack of the task that raised it.  The    *)
(* time stamp is left out.  MaxRaised bounds the model.                    *)
(***************************************************************************)
EXTENDS RingBuffer

CONSTANTS EventIds, Severity, Aux, MaxRaised

\* The dictionary gives some identifiers a severity; find_event fails on the rest.
ASSUME EventAssumption ==
  /\ DOMAIN Severity \subseteq EventIds
  /\ \A id \in DOMAIN Severity : Severity[id] \in 1 .. 4
  /\ Items = [id : EventIds, severity : 1 .. 4, aux : Aux]
  /\ MaxRaised \in Nat

VARIABLES raised, last_id, sink_set, sunk
VARIABLES all       \* history: every record raised since the boot
VARIABLES before    \* history: how many of them before the sink was set

eventVars == <<raised, last_id, sink_set, sunk, all, before>>
logVars   == <<ring, eventVars>>

LOW == 2

LogInit ==
  /\ RingInit
  /\ raised = 0 /\ last_id = 0 /\ sink_set = FALSE /\ sunk = <<>>
  /\ all = <<>> /\ before = 0

Record(id, aux) ==
  [id |-> id, severity |-> IF id \in DOMAIN Severity THEN Severity[id] ELSE LOW, aux |-> aux]

SetSink == sink_set' = TRUE /\ UNCHANGED <<ring, raised, last_id, sunk, all, before>>

\* Mutant of Raise: an event the dictionary does not know is not sent.
RaiseKnown(id, aux) ==
  /\ Len(all) < MaxRaised
  /\ Push(Record(id, aux))
  /\ raised' = (raised + 1) % CountModulus
  /\ last_id' = id
  /\ sunk' = IF sink_set /\ id \in DOMAIN Severity THEN Append(sunk, Record(id, aux)) ELSE sunk
  /\ all' = Append(all, Record(id, aux))
  /\ before' = IF sink_set THEN before ELSE before + 1
  /\ UNCHANGED sink_set

Raise(id, aux) ==
  /\ Len(all) < MaxRaised
  /\ Push(Record(id, aux))
  /\ raised' = (raised + 1) % CountModulus
  /\ last_id' = id
  /\ sunk' = IF sink_set THEN Append(sunk, Record(id, aux)) ELSE sunk
  /\ all' = Append(all, Record(id, aux))
  /\ before' = IF sink_set THEN before ELSE before + 1
  /\ UNCHANGED sink_set

LogNext == SetSink \/ \E id \in EventIds, aux \in Aux : Raise(id, aux)

LogSpec == LogInit /\ [][LogNext]_logVars

-----------------------------------------------------------------------------
Last(s, n) == SubSeq(s, Len(s) - n + 1, Len(s))

\* The history a ground dump would walk is exactly the newest events, in the
\* order they were raised, and as many of them as fit.
HistoryIsTheNewest ==
  /\ size = IF Len(all) < Capacity THEN Len(all) ELSE Capacity
  /\ Retained = Last(all, size)

\* events_logged and last_event_id in SYS_HK describe the same log: what is
\* retained plus what was discarded is what was raised, and the newest
\* retained record is the one last_id names.
CountersAgree ==
  /\ raised = (size + dropped_count) % CountModulus
  /\ size > 0 => At(size - 1).id = last_id

\* The ground is sent every record raised after the sink was installed, also
\* those the history has long discarded.
SinkMissesNothing == sunk = Last(all, Len(all) - before)
=============================================================================
