------------------------------ MODULE Scheduler ------------------------------
(***************************************************************************)
(* The rate-group scheduler of fsw/core: one thread, a base tick, tasks    *)
(* that run in registration order on the ticks (tick % divider) = offset,  *)
(* and the pacing of ticks against the monotonic clock.                    *)
(*                                                                         *)
(* Time is a natural number of abstract units, Period of them to a base    *)
(* tick.  It passes while a task runs (up to MaxExec), between two calls   *)
(* of run_tick_realtime (up to MaxOverhead) and while the thread sleeps.   *)
(* A sleep ends within EarlyWake before and LateWake after its deadline:   *)
(* PosixClock truncates the scaled interval, so it may return early.       *)
(***************************************************************************)
EXTENDS Integers, Sequences, FiniteSets

CONSTANTS
  Requests,       \* the registrations the application may attempt
  MaxTasks,       \* kMaxTasks
  Period,         \* tick_period()
  LoadWindow,     \* kBaseRateHz, as the length of the occupancy window
  TickModulus,    \* 2^32: tick_ and overruns_ are uint32
  MaxTicks,       \* --max-ticks: the loop stops after this many ticks
  MaxExec,        \* bound on one task's execution time
  MaxOverhead,    \* bound on the main loop's own time between two ticks
  EarlyWake,      \* how far before the deadline a sleep may end
  LateWake        \* how far after the deadline a sleep may end

ASSUME RequestsAssumption ==
  Requests \subseteq [bound : BOOLEAN, divider : Nat, offset : Nat]

ASSUME NumbersAssumption ==
  /\ Period \in Nat \ {0}  /\ LoadWindow \in Nat \ {0}
  /\ TickModulus \in Nat \ {0}
  /\ MaxTasks \in Nat      /\ MaxTicks \in Nat
  /\ MaxExec \in Nat       /\ MaxOverhead \in Nat
  /\ EarlyWake \in Nat     /\ LateWake \in Nat

VARIABLES
  tasks,          \* the registered tasks with their statistics
  tick,           \* tick_
  overruns,       \* overruns_
  next_deadline,  \* next_deadline_
  busy_accum,     \* busy_us_accum_
  window_ticks,   \* load_window_ticks_
  load_pct,       \* load_pct_
  now,            \* the monotonic clock
  phase,          \* where the thread is: see Phases
  cursor,         \* the task the loop of run_tick is at
  tick_start,     \* the local of the same name
  overran,        \* what the last run_tick found
  blamed          \* what the overrun handler was last told

\* History: no code reads these.
VARIABLES
  started,        \* ticks started since start(), without wrap-around
  anchor,         \* the time of start()
  paced_at,       \* when the last call of run_tick_realtime returned
  ran,            \* tasks run in this tick, with the time each took
  last_run        \* the tick number, unwrapped, of each task's last two runs

pacing == <<next_deadline, now, phase, started, anchor, paced_at, tick_start>>
stats  == <<busy_accum, window_ticks, load_pct, overruns, overran, blamed>>
vars   == <<tasks, tick, cursor, ran, last_run, pacing, stats>>

Phases == {"init", "called", "running", "ended", "returned", "stopped"}

\* The overrun handler has never been called.
NoBlame == [task |-> 0, used |-> 0]
Never   == -1

Init ==
  /\ tasks = <<>> /\ tick = 0 /\ overruns = 0
  /\ busy_accum = 0 /\ window_ticks = 0 /\ load_pct = 0
  /\ now = 0 /\ next_deadline = 0 /\ tick_start = 0
  /\ phase = "init" /\ cursor = 1
  /\ overran = FALSE /\ blamed = NoBlame
  /\ started = 0 /\ anchor = 0 /\ paced_at = 0
  /\ ran = <<>> /\ last_run = <<>>

-----------------------------------------------------------------------------
\* Registration

\* add_task refuses a request that could never run, and one too many.
Accepts(r) ==
  r.bound /\ r.divider # 0 /\ r.offset < r.divider /\ Len(tasks) < MaxTasks

NewTask(r) == [divider |-> r.divider, offset |-> r.offset,
               runs |-> 0, last |-> 0, max |-> 0]

AddTask(r) ==
  /\ phase = "init"
  /\ Accepts(r)
  /\ tasks' = Append(tasks, NewTask(r))
  /\ ran' = Append(ran, Never)
  /\ last_run' = Append(last_run, <<Never, Never>>)
  /\ UNCHANGED <<tick, cursor, pacing, stats>>

\* start(): anchors the timeline.
Start ==
  /\ phase = "init" /\ tasks # <<>>
  /\ next_deadline' = now + Period
  /\ anchor' = now /\ paced_at' = now
  /\ phase' = "called"
  /\ UNCHANGED <<tasks, tick, cursor, now, started, tick_start, ran, last_run, stats>>

-----------------------------------------------------------------------------
\* run_tick

\* Mutant of Due: every tick from the offset on.
DueFromOffset(t) == tick % t.divider >= t.offset

Due(t) == tick % t.divider = t.offset

BeginTick ==
  /\ phase = "called"
  /\ \E d \in 0 .. MaxOverhead :
       /\ now' = now + d
       /\ tick_start' = now + d
  /\ phase' = "running" /\ cursor' = 1
  /\ started' = started + 1
  /\ ran' = [i \in DOMAIN tasks |-> Never]
  /\ UNCHANGED <<tasks, tick, next_deadline, anchor, paced_at, last_run, stats>>

SkipTask ==
  /\ phase = "running" /\ cursor <= Len(tasks)
  /\ ~Due(tasks[cursor])
  /\ cursor' = cursor + 1
  /\ UNCHANGED <<tasks, tick, ran, last_run, pacing, stats>>

RunTask ==
  /\ phase = "running" /\ cursor <= Len(tasks)
  /\ Due(tasks[cursor])
  /\ \E elapsed \in 0 .. MaxExec :
       /\ now' = now + elapsed
       /\ tasks' = [tasks EXCEPT ![cursor].last = elapsed,
                                 ![cursor].runs = @ + 1,
                                 ![cursor].max  = IF elapsed > @ THEN elapsed ELSE @]
       /\ ran' = [ran EXCEPT ![cursor] = elapsed]
  /\ last_run' = [last_run EXCEPT ![cursor] = <<@[2], started - 1>>]
  /\ cursor' = cursor + 1
  /\ UNCHANGED <<tick, next_deadline, phase, started, anchor, paced_at, tick_start, stats>>

\* The scan that attributes an overrun: the first of the slowest tasks whose
\* turn it was, read from statistics that outlive the tick.  0 stands for "?".
\* Mutant of TookTurn: the tick count has already moved on.
TookNextTurn(t) == tick' % t.divider = t.offset

TookTurn(t) == ((tick' - 1) % TickModulus) % t.divider = t.offset

Worst ==
  LET slow == {i \in DOMAIN tasks : TookTurn(tasks[i]) /\ tasks[i].last > 0}
      top  == {i \in slow : \A j \in slow : tasks[i].last >= tasks[j].last}
  IN IF slow = {} THEN 0 ELSE CHOOSE i \in top : \A j \in top : i <= j

\* Mutant of Percent: not clamped.
PercentUnclamped(busy) == (busy * 100) \div (Period * LoadWindow)

Percent(busy) ==
  LET pct == (busy * 100) \div (Period * LoadWindow)
  IN IF pct > 100 THEN 100 ELSE pct

EndTick ==
  /\ phase = "running" /\ cursor > Len(tasks)
  /\ tick' = (tick + 1) % TickModulus
  /\ LET busy == now - tick_start
         full == window_ticks + 1 >= LoadWindow
     IN /\ busy_accum'   = IF full THEN 0 ELSE busy_accum + busy
        /\ window_ticks' = IF full THEN 0 ELSE window_ticks + 1
        /\ load_pct'     = IF full THEN Percent(busy_accum + busy) ELSE load_pct
        /\ overran'      = (busy > Period)
        /\ IF busy > Period
             THEN /\ overruns' = (overruns + 1) % TickModulus
                  /\ blamed' = [task |-> Worst, used |-> busy]
             ELSE UNCHANGED <<overruns, blamed>>
  /\ phase' = "ended"
  /\ UNCHANGED <<tasks, cursor, ran, last_run, next_deadline, now, started,
                 anchor, paced_at, tick_start>>

-----------------------------------------------------------------------------
\* run_tick_realtime, after run_tick

\* Mutant of Reanchor: the timeline stays, and the ticks catch up with it.
CatchUp ==
  /\ phase = "ended" /\ now >= next_deadline
  /\ next_deadline' = next_deadline + Period
  /\ paced_at' = now
  /\ phase' = "returned"
  /\ UNCHANGED <<tasks, tick, cursor, ran, last_run, now, started, anchor, tick_start, stats>>

\* Already late: no sleep, the timeline moves.
Reanchor ==
  /\ phase = "ended" /\ now >= next_deadline
  /\ next_deadline' = now + Period
  /\ paced_at' = now
  /\ phase' = "returned"
  /\ UNCHANGED <<tasks, tick, cursor, ran, last_run, now, started, anchor, tick_start, stats>>

\* Mutant of SleepUntilDeadline: a period from whenever the sleep ended.
SleepThenRestart ==
  /\ phase = "ended" /\ now < next_deadline
  /\ \E wake \in now .. next_deadline + LateWake :
       /\ wake >= next_deadline - EarlyWake
       /\ now' = wake /\ paced_at' = wake /\ next_deadline' = wake + Period
  /\ phase' = "returned"
  /\ UNCHANGED <<tasks, tick, cursor, ran, last_run, started, anchor, tick_start, stats>>

SleepUntilDeadline ==
  /\ phase = "ended" /\ now < next_deadline
  /\ \E wake \in now .. next_deadline + LateWake :
       /\ wake >= next_deadline - EarlyWake
       /\ now' = wake /\ paced_at' = wake
  /\ next_deadline' = next_deadline + Period
  /\ phase' = "returned"
  /\ UNCHANGED <<tasks, tick, cursor, ran, last_run, started, anchor, tick_start, stats>>

\* The caller's loop: once more, or stop at --max-ticks.
CallAgain ==
  /\ phase = "returned"
  /\ phase' = IF started >= MaxTicks THEN "stopped" ELSE "called"
  /\ UNCHANGED <<tasks, tick, cursor, ran, last_run, next_deadline, now, started,
                 anchor, paced_at, tick_start, stats>>

RunTick == BeginTick \/ SkipTask \/ RunTask \/ EndTick
Pace    == Reanchor \/ SleepUntilDeadline

Next == \/ \E r \in Requests : AddTask(r)
        \/ Start \/ RunTick \/ Pace \/ CallAgain

Spec == Init /\ [][Next]_vars

-----------------------------------------------------------------------------
TaskRecord == [divider : Nat \ {0}, offset : Nat, runs : Nat, last : Nat, max : Nat]

TasksOK ==
  /\ tasks \in Seq(TaskRecord) /\ Len(tasks) <= MaxTasks
  /\ \A i \in DOMAIN tasks : tasks[i].offset < tasks[i].divider
  /\ ran \in Seq(Nat \cup {Never}) /\ Len(ran) = Len(tasks)
  /\ last_run \in Seq((Nat \cup {Never}) \X (Nat \cup {Never})) /\ Len(last_run) = Len(tasks)

CountersOK ==
  /\ tick \in 0 .. TickModulus - 1 /\ overruns \in 0 .. TickModulus - 1
  /\ busy_accum \in Nat /\ window_ticks \in 0 .. LoadWindow - 1
  /\ load_pct \in 0 .. 100
  /\ overran \in BOOLEAN
  /\ blamed \in [task : Nat, used : Nat]

TimesOK ==
  /\ phase \in Phases /\ cursor \in Nat \ {0} /\ started \in Nat
  /\ next_deadline \in Nat /\ now \in Nat /\ tick_start \in Nat
  /\ anchor \in Nat /\ paced_at \in Nat
  /\ tick_start <= now

\* Types; and the bounds the code relies on: an offset below its divider, an
\* occupancy that fits the percentage it is downlinked as.
TypeOK == TasksOK /\ CountersOK /\ TimesOK

\* "Do NOT run catch-up ticks": however late ticks have been, tick number k
\* never starts before its own place on the timeline anchored by start(),
\* give or take the error of ONE sleep.  The errors never add up.
NeverAhead ==
  phase = "running" => tick_start + EarlyWake >= anchor + (started - 1) * Period

\* One late tick does not make the next one late: when a tick is found to have
\* missed its deadline, a whole period (less the overshoot of one sleep) went
\* by since the previous call returned, so the time was spent in this tick.
NoCascade ==
  phase = "ended" /\ now >= next_deadline => now - paced_at >= Period - LateWake

\* The task an overrun is attributed to ran in this tick, and none of the
\* tasks that ran in this tick took longer, although the scan reads statistics
\* that also hold the times of tasks last run in earlier ticks.
BlamesTheSlowest ==
  phase = "ended" /\ overran =>
    IF blamed.task = 0
    THEN \A i \in DOMAIN ran : ran[i] <= 0
    ELSE /\ ran[blamed.task] # Never
         /\ \A i \in DOMAIN ran : ran[i] <= ran[blamed.task]

\* "run every N ticks": two consecutive runs of a task are divider ticks apart.
EveryDividerTicks ==
  \A i \in DOMAIN last_run :
    last_run[i][1] # Never => last_run[i][2] - last_run[i][1] = tasks[i].divider
=============================================================================
