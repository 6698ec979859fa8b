------------------------------ MODULE MainLoop ------------------------------
(***************************************************************************)
(* The loop of main(): run_tick_realtime, then watchdog.kick, until        *)
(* --max-ticks.  Composes the scheduler and the watchdog over one clock.   *)
(***************************************************************************)
EXTENDS Scheduler

CONSTANTS UnitsPerMilli, ResetModulus, Timeout

\* A timeout of 0 would switch the watchdog off.
ASSUME WatchdogAssumption ==
  /\ UnitsPerMilli \in Nat \ {0}
  /\ ResetModulus \in Nat \ {0, 1}
  /\ Timeout \in Nat \ {0}

\* The timeout, three base periods, is longer than a punctual tick can take:
\* neither a whole period after the loop's own time, nor a sleep between two
\* deadlines that begins early and ends late, outlasts it.
ASSUME TimeoutAssumption ==
  /\ (Period + MaxOverhead) \div UnitsPerMilli <= Timeout
  /\ (Period + EarlyWake + LateWake) \div UnitsPerMilli <= Timeout

VARIABLES enabled, timeout, last_kick, longest_gap, would_have_reset

Dog == INSTANCE Watchdog

dogVars  == <<enabled, timeout, last_kick, longest_gap, would_have_reset>>
loopVars == <<vars, dogVars>>

LoopInit == Init /\ Dog!WatchdogInit

\* The registrations, then watchdog.enable, then scheduler.start.
Register == \E r \in Requests : AddTask(r) /\ UNCHANGED dogVars

EnableAndStart ==
  /\ Start
  /\ Dog!Enable(now, Timeout)

Tick ==
  /\ RunTick \/ Pace
  /\ UNCHANGED dogVars

\* Mutant of KickAndLoop: the loop forgets the watchdog.
LoopWithoutKick == CallAgain /\ UNCHANGED dogVars

KickAndLoop ==
  /\ CallAgain
  /\ Dog!Kick(now)

LoopNext == Register \/ EnableAndStart \/ Tick \/ KickAndLoop

LoopSpec == LoopInit /\ [][LoopNext]_loopVars /\ WF_loopVars(LoopNext)

-----------------------------------------------------------------------------
\* "tolerate one bad tick": the watchdog fires only if a tick overran; with
\* the pacing as it is, no run of punctual ticks starves it.
ResetsNeedOverruns == would_have_reset <= overruns

\* "short enough that a genuinely wedged loop is caught": a tick that took
\* longer than the timeout is never kicked away unseen.
WedgeIsCaught ==
  [][KickAndLoop /\ (now - tick_start) \div UnitsPerMilli > Timeout
       => would_have_reset' # would_have_reset]_loopVars

\* The loop comes back to the watchdog: every tick that starts is followed by
\* a kick, whatever its tasks cost.
KicksGoOn == phase = "running" ~> last_kick >= tick_start /\ phase # "running"
=============================================================================
