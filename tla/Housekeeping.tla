---------------------------- MODULE Housekeeping ----------------------------
(***************************************************************************)
(* TtcApp::task_telemetry: which housekeeping structures are due when the  *)
(* task runs.  The task runs when the scheduler lets it, so the interval   *)
(* between two runs is any; periods and enables are changed in between by  *)
(* telecommands.  Mission time is counted in steps of the shortest period. *)
(***************************************************************************)
EXTENDS Integers, Sequences

CONSTANTS
  Structures,   \* the housekeeping structures of the dictionary
  Periods,      \* the periods a parameter may hold (its minimum is not 0)
  Default,      \* the period of each structure at boot
  Gaps,         \* what may pass between two runs of the task
  MaxRuns,      \* bound: runs of the task
  MaxChanges    \* bound: telecommands

ASSUME HousekeepingAssumption ==
  /\ Periods \subseteq Nat \ {0} /\ Default \in [Structures -> Periods]
  /\ Gaps \subseteq Nat /\ MaxRuns \in Nat /\ MaxChanges \in Nat

VARIABLES
  now,        \* mission_time_s()
  enabled,    \* HkState::enabled
  next_due,   \* HkState::next_due
  period,     \* the *_HK_PERIOD_MS parameters
  log,        \* history: the runs of the task, with what each saw and sent
  changes     \* telecommands so far

hkVars == <<now, enabled, next_due, period, log, changes>>

HkInit ==
  /\ now \in Gaps
  /\ enabled = [s \in Structures |-> TRUE]
  /\ next_due = [s \in Structures |-> 0]
  /\ period = Default
  /\ log = <<>> /\ changes = 0

-----------------------------------------------------------------------------
\* Mutant of Clamped: the deadline stands.
Unclamped(s) == next_due[s]

\* A shortened period takes effect now: the deadline is never further away
\* than one period.
Clamped(s) == IF next_due[s] > now + period[s] THEN now + period[s] ELSE next_due[s]
IsDue(s) == enabled[s] /\ now >= Clamped(s)

NextDue(s) == CASE ~enabled[s] -> next_due[s]
                [] IsDue(s)    -> now + period[s]
                [] OTHER       -> Clamped(s)

NextDues == [s \in Structures |-> NextDue(s)]

TaskTelemetry ==
  /\ Len(log) < MaxRuns
  /\ next_due' = NextDues
  /\ log' = Append(log, [at |-> now, period |-> period, enabled |-> enabled,
                         sent |-> [s \in Structures |-> IsDue(s)]])
  /\ \E gap \in Gaps : now' = now + gap
  /\ UNCHANGED <<enabled, period, changes>>

\* ST[3,5] and ST[3,6].
Enable(s, on) ==
  /\ changes < MaxChanges /\ enabled' = [enabled EXCEPT ![s] = on]
  /\ changes' = changes + 1
  /\ UNCHANGED <<now, next_due, period, log>>

\* ST[20,3] on the period of a structure.
SetPeriod(s, p) ==
  /\ changes < MaxChanges /\ period' = [period EXCEPT ![s] = p]
  /\ changes' = changes + 1
  /\ UNCHANGED <<now, enabled, next_due, log>>

HkNext == \/ TaskTelemetry
          \/ \E s \in Structures, on \in BOOLEAN : Enable(s, on)
          \/ \E s \in Structures, p \in Periods : SetPeriod(s, p)

HkSpec == HkInit /\ [][HkNext]_hkVars

-----------------------------------------------------------------------------
Sent(s, k) == log[k].sent[s]
LastBefore(s, i, k) == Sent(s, i) /\ \A j \in i + 1 .. k - 1 : ~Sent(s, j)

\* A structure's report is due one period after the last one, as that period
\* stood at any run since that found the structure enabled; it goes out in the
\* first run from then on that finds the structure enabled, and in no other.
\* So a structure is never reported early or in a burst after a long gap, a
\* shortened period counts from the first run that sees it, and no structure
\* keeps another from being reported.
OnSchedule ==
  \A s \in Structures, k \in DOMAIN log :
    Sent(s, k) <=>
      /\ log[k].enabled[s]
      /\ \/ \A j \in 1 .. k - 1 : ~Sent(s, j)
         \/ \E i \in 1 .. k - 1 :
              /\ LastBefore(s, i, k)
              /\ \E j \in i .. k - 1 :
                   log[j].enabled[s] /\ log[j].at + log[j].period[s] <= log[k].at
=============================================================================
