------------------------------ MODULE Watchdog ------------------------------
(***************************************************************************)
(* PosixWatchdog: a watchdog that cannot reset the processor, so it counts *)
(* the kicks that came too late.  Gaps are measured in whole milliseconds, *)
(* of which each holds UnitsPerMilli units of the clock.                   *)
(***************************************************************************)
EXTENDS Integers

CONSTANTS UnitsPerMilli, ResetModulus   \* ResetModulus: 2^16, uint16

VARIABLES
  enabled, timeout, last_kick, longest_gap,
  would_have_reset

WatchdogInit ==
  /\ enabled = FALSE /\ timeout = 0 /\ last_kick = 0
  /\ longest_gap = 0 /\ would_have_reset = 0

Enable(t, millis) ==
  /\ enabled' = TRUE /\ timeout' = millis /\ last_kick' = t
  /\ UNCHANGED <<longest_gap, would_have_reset>>

GapAt(t) == (t - last_kick) \div UnitsPerMilli

\* Mutants of Kick: the gap runs on from the first kick; only a gap longer than
\* any before is counted.
KickWithoutRestart(t) ==
  /\ would_have_reset' = IF enabled /\ timeout > 0 /\ GapAt(t) > timeout
                           THEN (would_have_reset + 1) % ResetModulus
                           ELSE would_have_reset
  /\ UNCHANGED <<enabled, timeout, last_kick, longest_gap>>
KickOnRecord(t) ==
  /\ longest_gap' = IF GapAt(t) > longest_gap THEN GapAt(t) ELSE longest_gap
  /\ would_have_reset' = IF GapAt(t) > timeout /\ GapAt(t) > longest_gap
                           THEN (would_have_reset + 1) % ResetModulus
                           ELSE would_have_reset
  /\ last_kick' = t
  /\ UNCHANGED <<enabled, timeout>>

Kick(t) ==
  IF ~enabled
  THEN UNCHANGED <<enabled, timeout, last_kick, longest_gap, would_have_reset>>
  ELSE
    /\ longest_gap' = IF GapAt(t) > longest_gap THEN GapAt(t) ELSE longest_gap
    /\ would_have_reset' = IF timeout > 0 /\ GapAt(t) > timeout
                             THEN (would_have_reset + 1) % ResetModulus
                             ELSE would_have_reset
    /\ last_kick' = t
    /\ UNCHANGED <<enabled, timeout>>
=============================================================================
