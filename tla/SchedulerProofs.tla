--------------------------- MODULE SchedulerProofs ---------------------------
(***************************************************************************)
(* Theorems about Scheduler, for every set of registrations and every      *)
(* period, window, execution time and sleep error.                         *)
(***************************************************************************)
EXTENDS MainLoop, SequenceTheorems, WellFoundedInduction, TLAPS

\* No task runs longer than the bound on execution times.
ExecInv == \A i \in DOMAIN tasks : tasks[i].last <= MaxExec

\* The timeline never falls behind its anchor, and is never further from the
\* last return than one period and the overshoot of one sleep.
PacingInv ==
  /\ phase = "init" => started = 0
  /\ phase \in {"called", "returned"} =>
       /\ next_deadline >= anchor + started * Period + Period
       /\ now + EarlyWake >= anchor + started * Period
       /\ now >= paced_at
  /\ phase \in {"running", "ended"} =>
       /\ started >= 1
       /\ next_deadline >= anchor + started * Period
       /\ tick_start + EarlyWake >= anchor + (started - 1) * Period
       /\ now >= paced_at
  /\ phase # "init" => next_deadline + LateWake >= paced_at + Period

\* While a tick runs, the tasks behind the cursor that were due have run, with
\* the time their statistics hold, and no other task has.
TurnInv ==
  phase = "running" =>
    \A i \in DOMAIN tasks :
      ran[i] = IF i < cursor /\ Due(tasks[i]) THEN tasks[i].last ELSE Never

IInv == TypeOK /\ ExecInv /\ PacingInv /\ TurnInv /\ BlamesTheSlowest

-----------------------------------------------------------------------------
\* A percentage is one, whatever it is computed from.
LEMMA PercentIsBounded == ASSUME NEW busy \in Nat PROVE Percent(busy) \in 0 .. 100
<1>1. Period * LoadWindow \in Nat \ {0}
  BY NumbersAssumption
<1>2. \A a \in Nat, b \in Nat \ {0} : a \div b \in Nat
  OBVIOUS
<1>3. (busy * 100) \div (Period * LoadWindow) \in Nat
  BY <1>1, <1>2
<1> QED
  BY <1>3 DEF Percent

\* A non-empty set of natural numbers has a smallest member.
LEMMA SmallestMember ==
  ASSUME NEW T \in SUBSET Nat, T # {}
  PROVE  \E x \in T : \A y \in T : x <= y
<1> DEFINE Less == {p \in Nat \X Nat : p[1] < p[2]}
<1>1. IsWellFoundedOn(Less, Nat)
  BY NatLessThanWellFounded, Zenon DEF OpToRel
<1>2. PICK x \in T : \A y \in T : <<y, x>> \notin Less
  <2> HIDE DEF Less
  <2> QED BY <1>1, WFMin
<1>3. \A y \in T : ~(y < x)
  BY <1>2
<1> QED
  BY <1>3

\* What the tick before the increment was is what the scan recomputes after it,
\* also across the wrap-around.
LEMMA TickBefore ==
  ASSUME NEW t \in 0 .. TickModulus - 1
  PROVE  (((t + 1) % TickModulus) - 1) % TickModulus = t
<1> USE NumbersAssumption
<1>1. CASE t + 1 < TickModulus
  <2>1. (t + 1) % TickModulus = t + 1
    BY <1>1
  <2>2. t % TickModulus = t
    BY <1>1
  <2> QED
    BY <2>1, <2>2
<1>2. CASE t + 1 = TickModulus
  <2>1. (t + 1) % TickModulus = 0
    BY <1>2
  <2>2. (0 - 1) % TickModulus = TickModulus - 1
    OBVIOUS
  <2> QED
    BY <1>2, <2>1, <2>2
<1> QED
  BY <1>1, <1>2

\* The scan finds the slowest of the tasks whose turn it was, or none when
\* none of them took any time.
LEMMA ScanFindsTheSlowest ==
  ASSUME TypeOK, ExecInv, tick' = (tick + 1) % TickModulus
  PROVE  \/ /\ Worst = 0
            /\ \A i \in DOMAIN tasks : Due(tasks[i]) => tasks[i].last = 0
         \/ /\ Worst \in DOMAIN tasks /\ Due(tasks[Worst])
            /\ \A i \in DOMAIN tasks : Due(tasks[i]) => tasks[i].last <= tasks[Worst].last
<1> DEFINE slow == {i \in DOMAIN tasks : TookTurn(tasks[i]) /\ tasks[i].last > 0}
           top  == {i \in slow : \A j \in slow : tasks[i].last >= tasks[j].last}
<1>1. \A i \in DOMAIN tasks : tasks[i] \in TaskRecord /\ i \in Nat \ {0}
  BY DEF TypeOK, TasksOK
<1>2. \A i \in DOMAIN tasks : tasks[i].last \in 0 .. MaxExec
  BY <1>1 DEF ExecInv, TaskRecord
<1>3. \A i \in DOMAIN tasks : TookTurn(tasks[i]) <=> Due(tasks[i])
  BY TickBefore DEF TookTurn, Due, TypeOK, CountersOK, TasksOK, TaskRecord
<1>4. Worst = IF slow = {} THEN 0 ELSE CHOOSE i \in top : \A j \in top : i <= j
  BY DEF Worst
<1>5. CASE slow = {}
  BY <1>2, <1>3, <1>4, <1>5
<1>6. CASE slow # {}
  <2> DEFINE slack == {MaxExec - tasks[i].last : i \in slow}
  <2>1. slack \in SUBSET Nat /\ slack # {}
    BY <1>2, <1>6, NumbersAssumption
  <2>2. PICK x \in slack : \A y \in slack : x <= y
    BY <2>1, SmallestMember
  <2>3. PICK i \in slow : x = MaxExec - tasks[i].last
    BY <2>2
  <2>4. \A j \in slow : tasks[i].last >= tasks[j].last
    <3>1. TAKE j \in slow
    <3>2. MaxExec - tasks[j].last \in slack
      OBVIOUS
    <3>3. MaxExec - tasks[i].last <= MaxExec - tasks[j].last
      BY <2>2, <2>3, <3>2
    <3> QED
      BY <1>2, <3>3, NumbersAssumption
  <2>5. top \in SUBSET Nat /\ top # {}
    BY <1>1, <2>3, <2>4
  <2>6. \E k \in top : \A j \in top : k <= j
    BY <2>5, SmallestMember
  <2>7. Worst \in top
    BY <1>4, <1>6, <2>6
  <2>8. /\ Worst \in DOMAIN tasks /\ Due(tasks[Worst]) /\ tasks[Worst].last > 0
        /\ \A j \in slow : tasks[Worst].last >= tasks[j].last
    BY <1>3, <2>7
  <2>9. ASSUME NEW k \in DOMAIN tasks, Due(tasks[k])
        PROVE  tasks[k].last <= tasks[Worst].last
    BY <1>2, <1>3, <2>8, <2>9
  <2> QED
    BY <2>8, <2>9
<1> QED
  BY <1>5, <1>6

-----------------------------------------------------------------------------
LEMMA InitIsSafe == Init => IInv
<1> SUFFICES ASSUME Init PROVE IInv
  OBVIOUS
<1>1. TasksOK
  BY EmptySeq, NumbersAssumption DEF TasksOK, Init
<1>2. CountersOK
  <2>1. overran \in BOOLEAN
    BY Zenon DEF Init
  <2>2. blamed \in [task : Nat, used : Nat]
    BY DEF Init, NoBlame
  <2>3. /\ tick \in 0 .. TickModulus - 1 /\ overruns \in 0 .. TickModulus - 1
        /\ busy_accum \in Nat /\ window_ticks \in 0 .. LoadWindow - 1
        /\ load_pct \in 0 .. 100
    BY NumbersAssumption DEF Init
  <2> QED
    BY <2>1, <2>2, <2>3 DEF CountersOK
<1>3. TimesOK
  BY NumbersAssumption DEF TimesOK, Phases, Init
<1> QED
  BY <1>1, <1>2, <1>3 DEF TypeOK, IInv, ExecInv, PacingInv, TurnInv, BlamesTheSlowest, Init

\* The clock and the timeline keep their types: time never runs backwards.
LEMMA TimesAreKept == TimesOK /\ [Next]_vars => TimesOK'
<1> SUFFICES ASSUME TimesOK, [Next]_vars PROVE TimesOK'
  OBVIOUS
<1> USE NumbersAssumption DEF TimesOK, Phases
<1>1. ASSUME NEW r \in Requests, AddTask(r) PROVE TimesOK'
  BY <1>1 DEF AddTask, pacing
<1>2. CASE Start
  BY <1>2 DEF Start
<1>3. CASE BeginTick
  BY <1>3 DEF BeginTick
<1>4. CASE SkipTask
  BY <1>4 DEF SkipTask, pacing
<1>5. CASE RunTask
  <2>1. \E elapsed \in 0 .. MaxExec : now' = now + elapsed
    BY <1>5 DEF RunTask
  <2>2. /\ cursor' = cursor + 1
        /\ UNCHANGED <<next_deadline, phase, started, anchor, paced_at, tick_start>>
    BY <1>5 DEF RunTask
  <2> QED
    BY <2>1, <2>2
<1>6. CASE EndTick
  BY <1>6 DEF EndTick
<1>7. CASE Reanchor
  BY <1>7 DEF Reanchor
<1>8. CASE SleepUntilDeadline
  BY <1>8 DEF SleepUntilDeadline
<1>9. CASE CallAgain
  BY <1>9 DEF CallAgain
<1>10. CASE UNCHANGED vars
  BY <1>10 DEF vars, pacing
<1> QED
  BY <1>1, <1>2, <1>3, <1>4, <1>5, <1>6, <1>7, <1>8, <1>9, <1>10 DEF Next, RunTick, Pace

\* The counters stay within their widths, and the load within a percentage.
LEMMA CountersAreKept == TypeOK /\ ExecInv /\ [Next]_vars => CountersOK'
<1> SUFFICES ASSUME TypeOK, ExecInv, [Next]_vars PROVE CountersOK'
  OBVIOUS
<1>1. CASE EndTick
  <2> DEFINE busy == now - tick_start
  <2>1. busy \in Nat
    BY DEF TypeOK, TimesOK
  <2>2. tick' = (tick + 1) % TickModulus /\ tick' \in 0 .. TickModulus - 1
    BY <1>1, NumbersAssumption DEF EndTick, TypeOK, CountersOK
  <2>3. busy_accum' \in Nat /\ window_ticks' \in 0 .. LoadWindow - 1
    BY <1>1, <2>1, NumbersAssumption DEF EndTick, TypeOK, CountersOK
  <2>4. load_pct' \in 0 .. 100
    <3>1. busy_accum + busy \in Nat
      BY <2>1 DEF TypeOK, CountersOK
    <3>2. load_pct' \in {Percent(busy_accum + busy), load_pct}
      BY <1>1 DEF EndTick
    <3> QED
      BY <3>1, <3>2, PercentIsBounded DEF TypeOK, CountersOK
  <2>5. blamed' \in [task : Nat, used : Nat]
    <3>1. Worst \in Nat
      BY <2>2, ScanFindsTheSlowest DEF TypeOK, TasksOK
    <3>2. blamed' \in {[task |-> Worst, used |-> busy], blamed}
      BY <1>1 DEF EndTick
    <3> QED
      BY <2>1, <3>1, <3>2 DEF TypeOK, CountersOK
  <2>6. overruns' \in 0 .. TickModulus - 1 /\ overran' \in BOOLEAN
    BY <1>1, <2>1, NumbersAssumption DEF EndTick, TypeOK, CountersOK
  <2> QED
    BY <2>2, <2>3, <2>4, <2>5, <2>6 DEF CountersOK
<1>2. CASE UNCHANGED <<tick, stats>>
  BY <1>2 DEF TypeOK, CountersOK, stats
<1>3. EndTick \/ UNCHANGED <<tick, stats>>
  BY DEF Next, RunTick, Pace, AddTask, Start, BeginTick, SkipTask, RunTask, Reanchor,
         SleepUntilDeadline, CallAgain, vars
<1> QED
  BY <1>1, <1>2, <1>3

\* What RunTask does to the tasks and their history, field by field.
LEMMA RunTaskEffect ==
  ASSUME TypeOK, RunTask
  PROVE  \E elapsed \in 0 .. MaxExec :
           /\ tasks' \in Seq(TaskRecord) /\ Len(tasks') = Len(tasks)
           /\ \A i \in DOMAIN tasks : /\ tasks'[i].divider = tasks[i].divider
                                    /\ tasks'[i].offset = tasks[i].offset
                                    /\ tasks'[i].last = IF i = cursor THEN elapsed ELSE tasks[i].last
           /\ ran' = [ran EXCEPT ![cursor] = elapsed]
<1>1. cursor \in 1 .. Len(tasks) /\ tasks[cursor] \in TaskRecord
  BY DEF RunTask, TypeOK, TasksOK, TimesOK
<1>2. PICK elapsed \in 0 .. MaxExec :
        /\ tasks' = [tasks EXCEPT ![cursor].last = elapsed,
                                  ![cursor].runs = @ + 1,
                                  ![cursor].max  = IF elapsed > @ THEN elapsed ELSE @]
        /\ ran' = [ran EXCEPT ![cursor] = elapsed]
  BY DEF RunTask
<1> DEFINE old == tasks[cursor]
           t == [old EXCEPT !.last = elapsed, !.runs = @ + 1,
                            !.max = IF elapsed > @ THEN elapsed ELSE @]
<1>3. tasks' = [tasks EXCEPT ![cursor] = t]
  BY <1>1, <1>2 DEF TypeOK, TasksOK
<1>4. t \in TaskRecord /\ t.last = elapsed /\ t.divider = old.divider /\ t.offset = old.offset
  <2>1. old \in TaskRecord
    BY <1>1
  <2> HIDE DEF old
  <2>2. elapsed \in Nat
    BY NumbersAssumption
  <2>3. old.runs + 1 \in Nat /\ (IF elapsed > old.max THEN elapsed ELSE old.max) \in Nat
    BY <2>1, <2>2 DEF TaskRecord
  <2>4. t \in TaskRecord
    BY <2>1, <2>2, <2>3, Zenon DEF TaskRecord
  <2> QED
    BY <2>1, <2>4 DEF TaskRecord
<1>5. /\ tasks' \in Seq(TaskRecord) /\ Len(tasks') = Len(tasks)
      /\ \A i \in DOMAIN tasks : tasks'[i] = IF i = cursor THEN t ELSE tasks[i]
  <2> HIDE DEF t
  <2> QED
    BY <1>1, <1>3, <1>4 DEF TypeOK, TasksOK
<1> QED
  BY <1>2, <1>4, <1>5

\* The task list only grows by accepted registrations, and no execution is
\* longer than the bound.
LEMMA TasksAreKept == TypeOK /\ ExecInv /\ [Next]_vars => TasksOK' /\ ExecInv'
<1> SUFFICES ASSUME TypeOK, ExecInv, [Next]_vars PROVE TasksOK' /\ ExecInv'
  OBVIOUS
<1> DEFINE Times == Nat \cup {Never}
<1>0. TasksOK /\ Never \in Times /\ <<Never, Never>> \in Times \X Times
  BY DEF TypeOK
<1>1. ASSUME NEW r \in Requests, AddTask(r) PROVE TasksOK' /\ ExecInv'
  <2>1. NewTask(r) \in TaskRecord /\ r.offset < r.divider /\ Len(tasks) < MaxTasks
    BY <1>1, RequestsAssumption DEF AddTask, Accepts, NewTask, TaskRecord
  <2>2. /\ tasks' \in Seq(TaskRecord) /\ Len(tasks') = Len(tasks) + 1
        /\ \A i \in DOMAIN tasks : tasks'[i] = tasks[i]
        /\ tasks'[Len(tasks) + 1] = NewTask(r)
    BY <1>0, <1>1, <2>1 DEF AddTask, TasksOK
  <2>3. \A i \in DOMAIN tasks' :
          tasks'[i].offset < tasks'[i].divider /\ tasks'[i].last <= MaxExec
    BY <1>0, <2>1, <2>2, NumbersAssumption DEF NewTask, ExecInv, TasksOK
  <2>4. /\ ran' \in Seq(Times) /\ Len(ran') = Len(ran) + 1
        /\ last_run' \in Seq(Times \X Times) /\ Len(last_run') = Len(last_run) + 1
    <3> HIDE DEF Times
    <3>1. ran \in Seq(Times) /\ last_run \in Seq(Times \X Times)
      BY <1>0 DEF TasksOK, Times
    <3> QED
      BY <1>0, <1>1, <3>1 DEF AddTask
  <2>5. Len(tasks') <= MaxTasks /\ Len(ran') = Len(tasks') /\ Len(last_run') = Len(tasks')
    BY <1>0, <2>1, <2>2, <2>4, NumbersAssumption DEF TasksOK
  <2> QED
    BY <2>2, <2>3, <2>4, <2>5 DEF TasksOK, ExecInv
<1>2. CASE RunTask
  <2>1. PICK elapsed \in 0 .. MaxExec :
          /\ tasks' \in Seq(TaskRecord) /\ Len(tasks') = Len(tasks)
          /\ \A i \in DOMAIN tasks : /\ tasks'[i].divider = tasks[i].divider
                                   /\ tasks'[i].offset = tasks[i].offset
                                   /\ tasks'[i].last = IF i = cursor THEN elapsed ELSE tasks[i].last
          /\ ran' = [ran EXCEPT ![cursor] = elapsed]
    BY <1>2, RunTaskEffect
  <2>2. cursor \in 1 .. Len(tasks) /\ DOMAIN tasks' = DOMAIN tasks
    BY <1>2, <2>1 DEF RunTask, TypeOK, TasksOK, TimesOK
  <2>3. \A i \in DOMAIN tasks' :
          tasks'[i].offset < tasks'[i].divider /\ tasks'[i].last <= MaxExec
    <3>1. TAKE i \in DOMAIN tasks'
    <3>2. /\ tasks[i].offset < tasks[i].divider /\ tasks[i].last <= MaxExec
          /\ tasks'[i].divider = tasks[i].divider /\ tasks'[i].offset = tasks[i].offset
          /\ tasks'[i].last = IF i = cursor THEN elapsed ELSE tasks[i].last
      BY <1>0, <2>1, <2>2 DEF ExecInv, TasksOK
    <3> QED
      BY <3>2, NumbersAssumption
  <2>4. ran' \in Seq(Times) /\ Len(ran') = Len(ran)
    BY <1>0, <2>1, <2>2, NumbersAssumption DEF TasksOK
  <2>5. last_run' \in Seq(Times \X Times) /\ Len(last_run') = Len(last_run)
    <3>1. last_run' = [last_run EXCEPT ![cursor] = <<last_run[cursor][2], started - 1>>]
      BY <1>2, <2>2, <1>0 DEF RunTask, TasksOK
    <3>2. last_run[cursor][2] \in Times /\ started - 1 \in Times
      BY <1>0, <2>2 DEF TasksOK, TypeOK, TimesOK, Never
    <3> HIDE DEF Times
    <3>3. last_run \in Seq(Times \X Times) /\ cursor \in 1 .. Len(last_run)
      BY <1>0, <2>2 DEF TasksOK, Times
    <3> QED
      BY <3>1, <3>2, <3>3
  <2> QED
    BY <1>0, <2>1, <2>3, <2>4, <2>5 DEF TasksOK, ExecInv
<1>3. CASE BeginTick
  <2>1. ran' = [i \in 1 .. Len(tasks) |-> Never] /\ UNCHANGED <<tasks, last_run>>
    BY <1>0, <1>3 DEF BeginTick, TasksOK
  <2>2. ran' \in Seq(Times) /\ Len(ran') = Len(tasks)
    BY <1>0, <2>1 DEF TasksOK
  <2> QED
    BY <1>0, <2>1, <2>2 DEF TasksOK, ExecInv
<1>4. CASE UNCHANGED <<tasks, ran, last_run>>
  BY <1>0, <1>4 DEF TasksOK, ExecInv
<1>5. \/ \E r \in Requests : AddTask(r)
      \/ RunTask \/ BeginTick \/ UNCHANGED <<tasks, ran, last_run>>
  BY DEF Next, RunTick, Pace, Start, SkipTask, EndTick, Reanchor, SleepUntilDeadline,
         CallAgain, vars
<1> QED
  BY <1>1, <1>2, <1>3, <1>4, <1>5

\* The timeline of the ticks, relative to the anchor and to the last return.
LEMMA PacingIsKept == TimesOK /\ PacingInv /\ [Next]_vars => PacingInv'
<1> SUFFICES ASSUME TimesOK, PacingInv, [Next]_vars PROVE PacingInv'
  OBVIOUS
<1> DEFINE at == started * Period
<1>0. /\ at \in Nat /\ (started + 1) * Period = at + Period /\ (started - 1) * Period = at - Period
      /\ ((started + 1) - 1) * Period = at
  BY NumbersAssumption DEF TimesOK
<1> USE NumbersAssumption DEF TimesOK, PacingInv, Phases
<1>1. CASE Start
  BY <1>1, <1>0 DEF Start
<1>2. CASE BeginTick
  BY <1>2, <1>0 DEF BeginTick
<1>3. CASE RunTask
  <2>1. \E elapsed \in 0 .. MaxExec : now' = now + elapsed
    BY <1>3 DEF RunTask
  <2>2. /\ phase = "running"
        /\ UNCHANGED <<next_deadline, phase, started, anchor, paced_at, tick_start>>
    BY <1>3 DEF RunTask
  <2> QED
    BY <2>1, <2>2, <1>0
<1>4. CASE EndTick
  BY <1>4 DEF EndTick
<1>5. CASE Reanchor
  BY <1>5, <1>0 DEF Reanchor
<1>6. CASE SleepUntilDeadline
  BY <1>6, <1>0 DEF SleepUntilDeadline
<1>7. CASE CallAgain
  BY <1>7 DEF CallAgain
<1>8. CASE UNCHANGED <<phase, started, anchor, now, next_deadline, paced_at, tick_start>>
  BY <1>8
<1>9. \/ Start \/ BeginTick \/ RunTask \/ EndTick \/ Reanchor \/ SleepUntilDeadline \/ CallAgain
      \/ UNCHANGED <<phase, started, anchor, now, next_deadline, paced_at, tick_start>>
  BY DEF Next, RunTick, Pace, AddTask, SkipTask, vars, pacing
<1> QED
  BY <1>1, <1>2, <1>3, <1>4, <1>5, <1>6, <1>7, <1>8, <1>9

\* What the loop of run_tick has done so far.
LEMMA TurnIsKept == TypeOK /\ TurnInv /\ [Next]_vars => TurnInv'
<1> SUFFICES ASSUME TypeOK, TurnInv, [Next]_vars PROVE TurnInv'
  OBVIOUS
<1>0. /\ TasksOK /\ DOMAIN tasks = 1 .. Len(tasks) /\ DOMAIN ran = 1 .. Len(tasks)
      /\ cursor \in Nat \ {0}
  BY DEF TypeOK, TasksOK, TimesOK
<1>1. CASE BeginTick
  BY <1>0, <1>1 DEF BeginTick, TurnInv
<1>2. CASE SkipTask
  BY <1>0, <1>2 DEF SkipTask, TurnInv, Due, pacing
<1>3. CASE RunTask
  <2>1. PICK elapsed \in 0 .. MaxExec :
          /\ tasks' \in Seq(TaskRecord) /\ Len(tasks') = Len(tasks)
          /\ \A i \in DOMAIN tasks : /\ tasks'[i].divider = tasks[i].divider
                                   /\ tasks'[i].offset = tasks[i].offset
                                   /\ tasks'[i].last = IF i = cursor THEN elapsed ELSE tasks[i].last
          /\ ran' = [ran EXCEPT ![cursor] = elapsed]
    BY <1>3, RunTaskEffect
  <2>2. /\ phase = "running" /\ cursor \in DOMAIN tasks /\ Due(tasks[cursor])
        /\ cursor' = cursor + 1 /\ tick' = tick
    BY <1>0, <1>3 DEF RunTask
  <2>3. \A i \in DOMAIN tasks : Due(tasks[i])' <=> Due(tasks[i])
    BY <2>1, <2>2 DEF Due
  <2>4. \A i \in DOMAIN tasks :
          ran'[i] = IF i = cursor THEN elapsed ELSE ran[i]
    BY <1>0, <2>1, <2>2
  <2>5. ASSUME NEW i \in DOMAIN tasks
        PROVE  ran'[i] = IF i < cursor + 1 /\ Due(tasks[i])' THEN tasks'[i].last ELSE Never
    <3>1. CASE i = cursor
      BY <2>1, <2>2, <2>3, <2>4, <3>1, <1>0
    <3>2. CASE i # cursor
      BY <2>1, <2>2, <2>3, <2>4, <3>2, <1>0 DEF TurnInv
    <3> QED
      BY <3>1, <3>2
  <2> QED
    BY <1>0, <2>1, <2>2, <2>5 DEF TurnInv
<1>4. CASE phase' # "running"
  BY <1>4 DEF TurnInv
<1>5. CASE UNCHANGED <<phase, tasks, ran, cursor, tick>>
  BY <1>5 DEF TurnInv, Due
<1>6. \/ BeginTick \/ SkipTask \/ RunTask \/ phase' # "running"
      \/ UNCHANGED <<phase, tasks, ran, cursor, tick>>
  BY DEF Next, RunTick, Pace, AddTask, Start, EndTick, Reanchor, SleepUntilDeadline,
         CallAgain, vars, pacing
<1> QED
  BY <1>1, <1>2, <1>3, <1>4, <1>5, <1>6

\* The attribution of an overrun, from the loop's record of who ran.
LEMMA BlameIsKept ==
  TypeOK /\ ExecInv /\ TurnInv /\ BlamesTheSlowest /\ [Next]_vars => BlamesTheSlowest'
<1> SUFFICES ASSUME TypeOK, ExecInv, TurnInv, BlamesTheSlowest, [Next]_vars
             PROVE  BlamesTheSlowest'
  OBVIOUS
<1>1. CASE EndTick
  <2>0. /\ DOMAIN tasks = 1 .. Len(tasks) /\ DOMAIN ran = DOMAIN tasks /\ cursor \in Nat
        /\ \A i \in DOMAIN tasks : tasks[i].last \in Nat
    <3>1. /\ tasks \in Seq(TaskRecord) /\ DOMAIN tasks = 1 .. Len(tasks) /\ DOMAIN ran = DOMAIN tasks
          /\ cursor \in Nat
      BY DEF TypeOK, TasksOK, TimesOK
    <3>2. \A i \in DOMAIN tasks : tasks[i] \in TaskRecord
      BY <3>1
    <3> QED
      BY <3>1, <3>2 DEF TaskRecord
  <2>1. \A i \in DOMAIN tasks : ran[i] = IF Due(tasks[i]) THEN tasks[i].last ELSE Never
    BY <1>1, <2>0 DEF EndTick, TurnInv
  <2>2. \/ /\ Worst = 0
           /\ \A i \in DOMAIN tasks : Due(tasks[i]) => tasks[i].last = 0
        \/ /\ Worst \in DOMAIN tasks /\ Due(tasks[Worst])
           /\ \A i \in DOMAIN tasks : Due(tasks[i]) => tasks[i].last <= tasks[Worst].last
    BY <1>1, ScanFindsTheSlowest DEF EndTick
  <2>3. ran' = ran /\ (overran' => blamed'.task = Worst)
    <3>1. ran' = ran /\ overran' = (now - tick_start > Period)
      BY <1>1 DEF EndTick
    <3>2. now - tick_start > Period => blamed' = [task |-> Worst, used |-> now - tick_start]
      BY <1>1 DEF EndTick
    <3>3. overran' => now - tick_start > Period
      BY <3>1, Zenon
    <3> QED
      BY <3>1, <3>2, <3>3
  <2>4. CASE Worst = 0
    BY <2>0, <2>1, <2>2, <2>3, <2>4 DEF BlamesTheSlowest, Never
  <2>5. CASE Worst # 0
    BY <2>0, <2>1, <2>2, <2>3, <2>5 DEF BlamesTheSlowest, Never
  <2> QED
    BY <2>4, <2>5
<1>2. CASE phase' # "ended"
  BY <1>2 DEF BlamesTheSlowest
<1>3. CASE UNCHANGED <<phase, overran, blamed, ran>>
  BY <1>3 DEF BlamesTheSlowest
<1>4. EndTick \/ phase' # "ended" \/ UNCHANGED <<phase, overran, blamed, ran>>
  BY DEF Next, RunTick, Pace, AddTask, Start, BeginTick, SkipTask, RunTask, Reanchor,
         SleepUntilDeadline, CallAgain, vars, pacing, stats
<1> QED
  BY <1>1, <1>2, <1>3, <1>4

-----------------------------------------------------------------------------
\* The strengthened invariant holds in every reachable state.
THEOREM Inductive == Spec => []IInv
<1>1. IInv /\ [Next]_vars => IInv'
  BY TimesAreKept, CountersAreKept, TasksAreKept, PacingIsKept, TurnIsKept, BlameIsKept
     DEF IInv, TypeOK
<1> QED
  BY InitIsSafe, <1>1, PTL DEF Spec

\* Types and bounds of the scheduler's state: no count outgrows its width, no
\* offset its divider, and the load is always a percentage.
THEOREM TypeCorrect == Spec => []TypeOK
<1>1. IInv => TypeOK
  BY DEF IInv
<1> QED
  BY Inductive, <1>1, PTL

\* However late any ticks are, tick k never starts before its place on the
\* timeline anchored by start(), but for the error of one sleep.
THEOREM TicksAreNeverAhead == Spec => []NeverAhead
<1>1. IInv => NeverAhead
  BY NumbersAssumption DEF IInv, TypeOK, TimesOK, PacingInv, NeverAhead
<1> QED
  BY Inductive, <1>1, PTL

\* A tick that misses its deadline has itself used up a whole period, less the
\* overshoot of one sleep: lateness is never inherited from the tick before.
THEOREM LatenessIsNotInherited == Spec => []NoCascade
<1>1. IInv => NoCascade
  BY NumbersAssumption DEF IInv, TypeOK, TimesOK, PacingInv, NoCascade
<1> QED
  BY Inductive, <1>1, PTL

\* An overrun is attributed to a task that ran in the tick that overran, and to
\* the slowest of those.
THEOREM BlameIsCorrect == Spec => []BlamesTheSlowest
<1>1. IInv => BlamesTheSlowest
  BY DEF IInv
<1> QED
  BY Inductive, <1>1, PTL
-----------------------------------------------------------------------------
\* The base ticks that are over, the one that runs not included.
Elapsed == IF phase = "running" THEN started - 1 ELSE started

\* tick_ counts them, until it wraps.
CountInv == Elapsed < TickModulus => tick = Elapsed

\* The base ticks in which the turn of task i is over.
Passed(i) == IF phase = "running" /\ i < cursor THEN started ELSE Elapsed

\* The last run of a task was in its slot, and its next slot has not passed.
SlotInv ==
  started <= TickModulus =>
    \A i \in DOMAIN tasks :
      last_run[i][2] # Never =>
        /\ last_run[i][2] % tasks[i].divider = tasks[i].offset
        /\ last_run[i][2] < Passed(i)
        /\ Passed(i) <= last_run[i][2] + tasks[i].divider

CadenceInv == CountInv /\ SlotInv /\ (started <= TickModulus => EveryDividerTicks)

\* The gap the watchdog sees is bounded unless the tick overran.
PunctualGap ==
  \/ now - last_kick <= Period + MaxOverhead
  \/ now - last_kick <= Period + EarlyWake + LateWake

KickInv ==
  /\ phase # "init" => enabled /\ timeout = Timeout
  /\ phase # "init" => next_deadline <= paced_at + Period + EarlyWake
  /\ phase \in {"called", "running", "ended"} => last_kick = paced_at
  /\ phase \in {"called", "returned"} => now = paced_at
  /\ phase \in {"running", "ended"} => tick_start <= paced_at + MaxOverhead
  /\ phase \in {"running", "ended", "returned"} => last_kick <= tick_start
  /\ phase = "ended" /\ ~overran => now - tick_start <= Period
  /\ phase = "returned" /\ ~overran => PunctualGap

\* An overrun whose kick is still to come has been counted already.
Pending == phase \in {"ended", "returned"} /\ overran

ResetInv ==
  started < TickModulus =>
    /\ overruns <= Elapsed
    /\ would_have_reset + (IF Pending THEN 1 ELSE 0) <= overruns

DogOK ==
  /\ enabled \in BOOLEAN /\ timeout \in Nat /\ last_kick \in Nat
  /\ would_have_reset \in 0 .. ResetModulus - 1

DogInv == DogOK /\ KickInv /\ ResetInv
-----------------------------------------------------------------------------
\* The watchdog's part of the loop. Every step of the loop is a step of the
\* scheduler, so what is proved of the scheduler holds of the program's loop.
LEMMA LoopStepsAreScheduled == [LoopNext]_loopVars => [Next]_vars
<1> QED
  BY DEF LoopNext, Register, EnableAndStart, Tick, KickAndLoop, Next, RunTick, Pace, loopVars

THEOREM LoopIsScheduled == LoopSpec => Spec
<1>1. LoopInit => Init
  BY DEF LoopInit
<1> QED
  BY <1>1, LoopStepsAreScheduled, PTL DEF LoopSpec, Spec

-----------------------------------------------------------------------------
\* Division with remainder.
LEMMA RemainderIsBelow == \A d \in Nat \ {0}, x \in Nat : x % d \in 0 .. d - 1
<1> QED
  OBVIOUS

LEMMA Quotient ==
  ASSUME NEW d \in Nat \ {0}, NEW x \in Nat
  PROVE  \E q \in Int : x = d * q + (x % d)
<1>1. \A b \in Nat \ {0}, a \in Nat : a \div b \in Int /\ a = b * (a \div b) + (a % b)
  OBVIOUS
<1>2. x \div d \in Int /\ x = d * (x \div d) + (x % d)
  BY <1>1, Zenon
<1> QED
  BY <1>2, Zenon

LEMMA RemainderIsUnique ==
  ASSUME NEW d \in Nat \ {0}, NEW x \in Nat, NEW q \in Int, NEW r \in 0 .. d - 1, x = d * q + r
  PROVE  x % d = r
<1> QED
  BY SMTT(30)

\* Two slots of a task are a whole divider apart.
LEMMA NextSlot ==
  ASSUME NEW d \in Nat \ {0}, NEW l \in Nat
  PROVE  /\ (l + d) % d = l % d
         /\ \A k \in Nat : l < k /\ k <= l + d /\ k % d = l % d => k = l + d
<1>1. l % d \in 0 .. d - 1
  BY RemainderIsBelow
<1>2. PICK r \in 0 .. d - 1 : r = l % d
  BY <1>1
<1>3. PICK q \in Int : l = d * q + r
  BY <1>2, Quotient
<1>4. (l + d) % d = r
  <2>1. l + d \in Nat /\ q + 1 \in Int /\ l + d = d * (q + 1) + r
    BY <1>3
  <2> QED
    BY <2>1, RemainderIsUnique, Zenon
<1>5. ASSUME NEW k \in Nat, l < k, k <= l + d, k % d = l % d PROVE k = l + d
  <2>1. PICK p \in Int : k = d * p + r
    BY <1>2, <1>5, Quotient
  <2>2. PICK e \in Int : e = p - q /\ d * e = k - l
    BY <1>3, <2>1
  <2>3. e = 1
    <3>1. d * e > 0 /\ d * e <= d
      BY <1>5, <2>2
    <3> QED
      BY <3>1, SMTT(30)
  <2> QED
    BY <2>2, <2>3
<1> QED
  BY <1>2, <1>4, <1>5

LEMMA CountIsKept == TypeOK /\ PacingInv /\ CountInv /\ [Next]_vars => CountInv'
<1> SUFFICES ASSUME TypeOK, PacingInv, CountInv, [Next]_vars PROVE CountInv'
  OBVIOUS
<1>0. /\ started \in Nat /\ tick \in 0 .. TickModulus - 1
      /\ phase \in Phases /\ (phase = "running" => started >= 1)
  BY DEF TypeOK, TimesOK, CountersOK, PacingInv
<1> USE NumbersAssumption DEF CountInv, Elapsed
<1>1. CASE BeginTick
  BY <1>0, <1>1 DEF BeginTick, stats
<1>2. CASE EndTick
  <2>1. tick' = (tick + 1) % TickModulus /\ phase = "running" /\ phase' = "ended" /\ started' = started
    BY <1>2 DEF EndTick
  <2>2. ASSUME started < TickModulus PROVE tick' = started
    <3>1. tick = started - 1
      BY <1>0, <2>1, <2>2
    <3> QED
      BY <1>0, <2>1, <2>2, <3>1
  <2> QED
    BY <1>0, <2>1, <2>2
<1>3. CASE phase # "running" /\ phase' # "running" /\ UNCHANGED <<tick, started>>
  BY <1>3
<1>4. CASE UNCHANGED <<tick, started, phase>>
  BY <1>4
<1>5. \/ BeginTick \/ EndTick
      \/ (phase # "running" /\ phase' # "running" /\ UNCHANGED <<tick, started>>)
      \/ UNCHANGED <<tick, started, phase>>
  BY DEF Next, RunTick, Pace, AddTask, Start, SkipTask, RunTask, Reanchor,
         SleepUntilDeadline, CallAgain, vars, pacing
<1> QED
  BY <1>1, <1>2, <1>3, <1>4, <1>5

\* A registration that is waiting for its first run has nothing to keep.
LEMMA RegistrationsHaveNotRun ==
  ASSUME TypeOK, SlotInv, EveryDividerTicks, NEW r \in Requests, AddTask(r)
  PROVE  started <= TickModulus => SlotInv' /\ EveryDividerTicks'
<1> SUFFICES ASSUME started <= TickModulus PROVE SlotInv' /\ EveryDividerTicks'
  OBVIOUS
<1>1. /\ tasks \in Seq(TaskRecord) /\ Len(last_run) = Len(tasks)
      /\ last_run \in Seq((Nat \cup {Never}) \X (Nat \cup {Never}))
  BY DEF TypeOK, TasksOK
<1>2. /\ tasks' = Append(tasks, NewTask(r)) /\ last_run' = Append(last_run, <<Never, Never>>)
      /\ UNCHANGED <<phase, started, cursor>>
  BY DEF AddTask, pacing
<1>3. DOMAIN tasks' = 1 .. Len(tasks) + 1 /\ DOMAIN last_run' = 1 .. Len(tasks) + 1
  BY <1>1, <1>2
<1>4. \A i \in 1 .. Len(tasks) :
        i \in DOMAIN tasks /\ i \in DOMAIN last_run /\ tasks'[i] = tasks[i] /\ last_run'[i] = last_run[i]
  BY <1>1, <1>2
<1>5. last_run'[Len(tasks) + 1] = <<Never, Never>>
  BY <1>1, <1>2
<1>6. \A i \in 1 .. Len(tasks) + 1 : i \in 1 .. Len(tasks) \/ i = Len(tasks) + 1
  BY <1>1
<1>7. Passed(0)' = Passed(0) /\ \A i \in 1 .. Len(tasks) : Passed(i)' = Passed(i)
  BY <1>2 DEF Passed, Elapsed
<1>8. SlotInv'
  BY <1>2, <1>3, <1>4, <1>5, <1>6, <1>7 DEF SlotInv
<1>9. EveryDividerTicks'
  BY <1>3, <1>4, <1>5, <1>6 DEF EveryDividerTicks
<1> QED
  BY <1>8, <1>9

\* What SlotInv says of one task, when the ticks are not counted around.
SlotOf(i, n) ==
  last_run[i][2] # Never =>
    /\ last_run[i][2] % tasks[i].divider = tasks[i].offset
    /\ last_run[i][2] < n
    /\ n <= last_run[i][2] + tasks[i].divider

\* A turn that is passed over leaves the next slot ahead.
LEMMA SkippedTurns ==
  ASSUME TypeOK, PacingInv, CountInv, SlotInv, EveryDividerTicks, SkipTask,
         started <= TickModulus
  PROVE  SlotInv' /\ EveryDividerTicks'
<1>1. /\ cursor \in Nat \ {0} /\ started \in Nat /\ started >= 1
      /\ phase = "running" /\ ~Due(tasks[cursor]) /\ cursor' = cursor + 1
      /\ UNCHANGED <<tasks, last_run, phase, started>>
  BY DEF SkipTask, pacing, TypeOK, TimesOK, PacingInv
<1>2. tick = started - 1
  BY <1>1, NumbersAssumption DEF CountInv, Elapsed
<1>3. \A i \in DOMAIN tasks : SlotOf(i, Passed(i))
  BY DEF SlotInv, SlotOf
<1>4. ASSUME NEW i \in DOMAIN tasks PROVE SlotOf(i, Passed(i))'
  <2>1. CASE i # cursor
    <3>1. i \in Nat
      BY DEF TypeOK, TasksOK
    <3>2. Passed(i)' = Passed(i)
      BY <1>1, <2>1, <3>1 DEF Passed, Elapsed
    <3> QED
      BY <1>1, <1>3, <3>2 DEF SlotOf
  <2>2. CASE i = cursor
    <3>1. Passed(i) = started - 1 /\ Passed(i)' = started
      BY <1>1, <2>2 DEF Passed, Elapsed
    <3>2. SUFFICES ASSUME last_run[i][2] # Never
                   PROVE  /\ last_run[i][2] % tasks[i].divider = tasks[i].offset
                          /\ last_run[i][2] < started
                          /\ started <= last_run[i][2] + tasks[i].divider
      BY <1>1, <3>1 DEF SlotOf
    <3>3. /\ tasks[i] \in TaskRecord
          /\ last_run[i] \in (Nat \cup {Never}) \X (Nat \cup {Never})
      BY DEF TypeOK, TasksOK
    <3>4. PICK d \in Nat \ {0}, l \in Nat : d = tasks[i].divider /\ l = last_run[i][2]
      BY <3>2, <3>3 DEF TaskRecord
    <3>5. l % d = tasks[i].offset /\ l < started - 1 /\ started - 1 <= l + d
      BY <1>3, <3>1, <3>2, <3>4 DEF SlotOf
    <3>6. (started - 1) % d # tasks[i].offset
      BY <1>1, <1>2, <2>2, <3>4 DEF Due
    <3>7. (l + d) % d = l % d
      BY NextSlot
    <3>8. started - 1 # l + d
      BY <3>5, <3>6, <3>7
    <3> QED
      BY <1>1, <3>4, <3>5, <3>8
  <2> QED
    BY <2>1, <2>2
<1>5. SlotInv'
  BY <1>1, <1>4 DEF SlotInv, SlotOf
<1>6. EveryDividerTicks'
  BY <1>1 DEF EveryDividerTicks
<1> QED
  BY <1>5, <1>6

\* A task that runs, runs in the slot after its last one.
LEMMA RunsAreADividerApart ==
  ASSUME TypeOK, PacingInv, CountInv, SlotInv, EveryDividerTicks, RunTask,
         started <= TickModulus
  PROVE  SlotInv' /\ EveryDividerTicks'
<1> DEFINE Times == Nat \cup {Never}
<1>1. /\ cursor \in 1 .. Len(tasks) /\ started \in Nat /\ started >= 1
      /\ phase = "running" /\ Due(tasks[cursor]) /\ cursor' = cursor + 1
      /\ UNCHANGED <<phase, started>>
      /\ last_run \in Seq(Times \X Times) /\ Len(last_run) = Len(tasks)
      /\ tasks \in Seq(TaskRecord)
  BY DEF RunTask, TypeOK, TimesOK, TasksOK, PacingInv
<1>2. tick = started - 1
  BY <1>1, NumbersAssumption DEF CountInv, Elapsed
<1>3. \A i \in DOMAIN tasks : SlotOf(i, Passed(i))
  BY DEF SlotInv, SlotOf
<1>4. /\ DOMAIN tasks' = DOMAIN tasks
      /\ \A i \in DOMAIN tasks : /\ tasks'[i].divider = tasks[i].divider
                                 /\ tasks'[i].offset = tasks[i].offset
  BY <1>1, RunTaskEffect
<1>5. last_run' = [last_run EXCEPT ![cursor] = <<last_run[cursor][2], started - 1>>]
  BY <1>1 DEF RunTask
<1>6. /\ DOMAIN last_run' = DOMAIN tasks
      /\ last_run'[cursor] = <<last_run[cursor][2], started - 1>>
      /\ \A i \in DOMAIN tasks : i # cursor => last_run'[i] = last_run[i]
  <2> HIDE DEF Times
  <2> QED
    BY <1>1, <1>5
<1>7. PICK d \in Nat \ {0}, k \in Nat : d = tasks[cursor].divider /\ k = started - 1
  <2>1. tasks[cursor] \in TaskRecord
    BY <1>1
  <2> QED
    BY <1>1, <2>1 DEF TaskRecord
<1>8. k % d = tasks[cursor].offset
  BY <1>1, <1>2, <1>7 DEF Due
<1>9. ASSUME NEW i \in DOMAIN tasks PROVE SlotOf(i, Passed(i))'
  <2>1. CASE i # cursor
    <3>1. i \in Nat
      BY <1>1
    <3>2. Passed(i)' = Passed(i)
      BY <1>1, <2>1, <3>1 DEF Passed, Elapsed
    <3> QED
      BY <1>3, <1>4, <1>6, <2>1, <3>2 DEF SlotOf
  <2>2. CASE i = cursor
    <3>1. Passed(i)' = k + 1
      BY <1>1, <1>7, <2>2 DEF Passed, Elapsed
    <3>2. last_run'[i][2] = k /\ tasks'[i].divider = d /\ tasks'[i].offset = k % d
      BY <1>4, <1>6, <1>7, <1>8, <2>2
    <3> QED
      BY <3>1, <3>2, <1>7 DEF SlotOf
  <2> QED
    BY <2>1, <2>2
<1>10. SlotInv'
  BY <1>4, <1>9 DEF SlotInv, SlotOf
<1>11. ASSUME NEW i \in DOMAIN last_run', last_run'[i][1] # Never
       PROVE  last_run'[i][2] - last_run'[i][1] = tasks'[i].divider
  <2>1. CASE i # cursor
    <3>1. i \in DOMAIN last_run /\ i \in DOMAIN tasks
      BY <1>1, <1>6, <1>11
    <3>2. last_run'[i] = last_run[i] /\ tasks'[i].divider = tasks[i].divider
      BY <1>4, <1>6, <2>1, <3>1
    <3>3. last_run[i][1] # Never => last_run[i][2] - last_run[i][1] = tasks[i].divider
      BY <3>1 DEF EveryDividerTicks
    <3> QED
      BY <1>11, <3>2, <3>3
  <2>2. CASE i = cursor
    <3>1. /\ last_run'[i][1] = last_run[cursor][2] /\ last_run'[i][2] = k
          /\ tasks'[i].divider = d
      BY <1>4, <1>6, <1>7, <2>2
    <3>2. PICK l \in Nat : l = last_run[cursor][2]
      <4>1. last_run[cursor] \in Times \X Times
        BY <1>1
      <4> QED
        BY <1>11, <3>1, <4>1
    <3>3. Passed(cursor) = k
      BY <1>1, <1>7 DEF Passed, Elapsed
    <3>4. SlotOf(cursor, k)
      BY <1>1, <1>3, <3>3
    <3>5. l % d = k % d /\ l < k /\ k <= l + d
      BY <1>7, <1>8, <1>11, <3>1, <3>2, <3>4 DEF SlotOf
    <3>6. k = l + d
      BY <3>5, NextSlot
    <3> QED
      BY <3>1, <3>2, <3>6
  <2> QED
    BY <2>1, <2>2
<1>12. EveryDividerTicks'
  BY <1>11 DEF EveryDividerTicks
<1> QED
  BY <1>10, <1>12

LEMMA CadenceIsKept == TypeOK /\ PacingInv /\ CadenceInv /\ [Next]_vars => CadenceInv'
<1> SUFFICES ASSUME TypeOK, PacingInv, CadenceInv, [Next]_vars PROVE CadenceInv'
  OBVIOUS
<1>0. CountInv'
  BY CountIsKept DEF CadenceInv
<1>00. SUFFICES ASSUME started' <= TickModulus PROVE SlotInv' /\ EveryDividerTicks'
  BY <1>0 DEF CadenceInv, SlotInv
<1>01. /\ started \in Nat /\ started <= TickModulus /\ cursor \in Nat \ {0}
       /\ phase \in Phases /\ tasks \in Seq(TaskRecord)
       /\ CountInv /\ SlotInv /\ EveryDividerTicks
  <2>1. started \in Nat /\ cursor \in Nat \ {0} /\ phase \in Phases /\ tasks \in Seq(TaskRecord)
    BY DEF TypeOK, TimesOK, TasksOK
  <2>2. started' = started \/ started' = started + 1
    BY DEF Next, RunTick, Pace, AddTask, Start, BeginTick, SkipTask, RunTask, EndTick, Reanchor,
           SleepUntilDeadline, CallAgain, vars, pacing
  <2>3. started <= TickModulus
    BY <1>00, <2>1, <2>2, NumbersAssumption
  <2> QED
    BY <2>1, <2>3 DEF CadenceInv
<1>1. ASSUME NEW r \in Requests, AddTask(r) PROVE SlotInv' /\ EveryDividerTicks'
  BY <1>1, <1>01, RegistrationsHaveNotRun
<1>2. CASE SkipTask
  BY <1>2, <1>01, SkippedTurns
<1>3. CASE RunTask
  BY <1>3, <1>01, RunsAreADividerApart
<1>4. CASE /\ UNCHANGED <<tasks, last_run>> /\ started' <= TickModulus
           /\ \A i \in DOMAIN tasks : Passed(i)' = Passed(i)
  BY <1>01, <1>4 DEF SlotInv, EveryDividerTicks
<1>5. CASE BeginTick
  <2>1. /\ UNCHANGED <<tasks, last_run>> /\ phase = "called" /\ phase' = "running"
        /\ started' = started + 1 /\ cursor' = 1
    BY <1>5 DEF BeginTick
  <2>2. \A i \in DOMAIN tasks : Passed(i)' = Passed(i)
    BY <1>01, <2>1 DEF Passed, Elapsed
  <2> QED
    BY <1>4, <1>00, <2>1, <2>2
<1>6. CASE EndTick
  <2>1. /\ UNCHANGED <<tasks, last_run, started, cursor>> /\ phase = "running" /\ phase' = "ended"
        /\ cursor > Len(tasks)
    BY <1>6 DEF EndTick
  <2>2. \A i \in DOMAIN tasks : Passed(i)' = Passed(i)
    BY <1>01, <2>1 DEF Passed, Elapsed
  <2> QED
    BY <1>4, <1>00, <2>1, <2>2
<1>7. CASE /\ UNCHANGED <<tasks, last_run, started, cursor>>
           /\ (phase' = phase \/ (phase # "running" /\ phase' # "running"))
  <2>1. \A i \in DOMAIN tasks : Passed(i)' = Passed(i)
    BY <1>7 DEF Passed, Elapsed
  <2> QED
    BY <1>4, <1>00, <1>7, <2>1
<1>8. \/ \E r \in Requests : AddTask(r)
      \/ SkipTask \/ RunTask \/ BeginTick \/ EndTick
      \/ /\ UNCHANGED <<tasks, last_run, started, cursor>>
         /\ (phase' = phase \/ (phase # "running" /\ phase' # "running"))
  BY DEF Next, RunTick, Pace, Start, Reanchor, SleepUntilDeadline, CallAgain, vars, pacing
<1> QED
  BY <1>1, <1>2, <1>3, <1>5, <1>6, <1>7, <1>8

\* "run every N ticks": until tick_ wraps, two consecutive runs of a task are
\* exactly its divider apart, whatever else is registered and however late the
\* ticks are.  (After the wrap this holds of the dividers that divide 2^32 only.)
THEOREM TasksKeepTheirCadence == Spec => [](started <= TickModulus => EveryDividerTicks)
<1>1. Init => CadenceInv
  <2> SUFFICES ASSUME Init PROVE CadenceInv
    OBVIOUS
  <2>1. tasks = <<>> /\ last_run = <<>> /\ tick = 0 /\ started = 0 /\ phase = "init"
    BY DEF Init
  <2>2. DOMAIN tasks = {} /\ DOMAIN last_run = {}
    BY <2>1
  <2> QED
    BY <2>1, <2>2 DEF CadenceInv, CountInv, SlotInv, EveryDividerTicks, Elapsed
<1>2. IInv /\ CadenceInv /\ [Next]_vars => CadenceInv'
  BY CadenceIsKept DEF IInv
<1>3. CadenceInv => (started <= TickModulus => EveryDividerTicks)
  BY DEF CadenceInv
<1> QED
  BY <1>1, <1>2, <1>3, Inductive, PTL DEF Spec
-----------------------------------------------------------------------------
\* Division by the units of a millisecond keeps the order.
LEMMA WholeMillis ==
  ASSUME NEW a \in Nat, NEW b \in Nat, a <= b
  PROVE  /\ a \div UnitsPerMilli \in Nat
         /\ a \div UnitsPerMilli <= b \div UnitsPerMilli
<1>1. \A d \in Nat \ {0}, x \in Nat : x \div d \in Int /\ x = d * (x \div d) + (x % d)
  OBVIOUS
<1>2. PICK d \in Nat \ {0} : d = UnitsPerMilli
  BY WatchdogAssumption
<1>3. PICK p \in Int, r \in 0 .. d - 1 : p = a \div d /\ a = d * p + r
  <2>1. a \div d \in Int /\ a = d * (a \div d) + (a % d)
    BY <1>1, Zenon
  <2> QED
    BY <2>1, RemainderIsBelow, Zenon
<1>4. PICK q \in Int, s \in 0 .. d - 1 : q = b \div d /\ b = d * q + s
  <2>1. b \div d \in Int /\ b = d * (b \div d) + (b % d)
    BY <1>1, Zenon
  <2> QED
    BY <2>1, RemainderIsBelow, Zenon
<1>5. p >= 0
  <2>1. d * p > 0 - d
    BY <1>3
  <2> QED
    BY <1>3, <2>1, SMTT(30)
<1>6. p <= q
  <2>1. PICK e \in Int : e = q - p /\ d * e > 0 - d
    <3>1. d * (q - p) > 0 - d
      BY <1>3, <1>4
    <3> QED
      BY <1>3, <1>4, <3>1
  <2>2. e >= 0
    BY <2>1, SMTT(30)
  <2> QED
    BY <1>3, <1>4, <2>1, <2>2
<1> QED
  BY <1>2, <1>3, <1>4, <1>5, <1>6

LEMMA DogIsKept == TypeOK /\ DogOK /\ [LoopNext]_loopVars => DogOK'
<1> SUFFICES ASSUME TypeOK, DogOK, [LoopNext]_loopVars PROVE DogOK'
  OBVIOUS
<1>1. CASE KickAndLoop
  <2>1. Dog!Kick(now) /\ now \in Nat
    BY <1>1 DEF KickAndLoop, TypeOK, TimesOK
  <2>2. enabled' = enabled /\ timeout' = timeout /\ last_kick' \in {now, last_kick}
    BY <2>1 DEF Dog!Kick
  <2>3. would_have_reset' \in {would_have_reset, (would_have_reset + 1) % ResetModulus}
    BY <2>1 DEF Dog!Kick
  <2>4. (would_have_reset + 1) % ResetModulus \in 0 .. ResetModulus - 1
    BY WatchdogAssumption DEF DogOK
  <2> QED
    BY <2>1, <2>2, <2>3, <2>4 DEF DogOK
<1>2. CASE EnableAndStart
  BY <1>2, WatchdogAssumption DEF EnableAndStart, Dog!Enable, DogOK, TypeOK, TimesOK
<1>3. CASE UNCHANGED dogVars
  BY <1>3 DEF DogOK, dogVars
<1> QED
  BY <1>1, <1>2, <1>3 DEF LoopNext, Register, Tick, loopVars

\* Between two kicks lies one tick, and its place on the clock is known.
LEMMA KickIsKept == TypeOK /\ DogOK /\ KickInv /\ [LoopNext]_loopVars => KickInv'
<1> SUFFICES ASSUME TypeOK, DogOK, KickInv, [LoopNext]_loopVars PROVE KickInv'
  OBVIOUS
<1> USE NumbersAssumption DEF KickInv, Phases
<1>0. /\ now \in Nat /\ next_deadline \in Nat /\ paced_at \in Nat /\ tick_start \in Nat
      /\ last_kick \in Nat /\ phase \in Phases /\ tick_start <= now
  BY DEF TypeOK, TimesOK, DogOK
<1>1. CASE EnableAndStart
  BY <1>0, <1>1 DEF EnableAndStart, Start, Dog!Enable
<1>2. CASE BeginTick /\ UNCHANGED dogVars
  <2>1. PICK d \in 0 .. MaxOverhead : now' = now + d /\ tick_start' = now + d
    BY <1>2 DEF BeginTick
  <2>2. /\ phase = "called" /\ phase' = "running"
        /\ UNCHANGED <<next_deadline, paced_at, enabled, timeout, last_kick>>
    BY <1>2 DEF BeginTick, dogVars
  <2> QED
    BY <1>0, <2>1, <2>2
<1>3. CASE EndTick /\ UNCHANGED dogVars
  <2>1. /\ phase = "running" /\ phase' = "ended"
        /\ UNCHANGED <<now, tick_start, next_deadline, paced_at, enabled, timeout, last_kick>>
    BY <1>3 DEF EndTick, dogVars
  <2>2. ~overran' => now - tick_start <= Period
    <3>1. overran' = (now - tick_start > Period)
      BY <1>3 DEF EndTick
    <3>2. ~overran' => ~(now - tick_start > Period)
      BY <3>1, Zenon
    <3> QED
      BY <1>0, <3>2
  <2> QED
    BY <1>0, <2>1, <2>2
<1>4. CASE Reanchor /\ UNCHANGED dogVars
  <2>1. /\ phase = "ended" /\ phase' = "returned" /\ next_deadline' = now + Period
        /\ paced_at' = now
        /\ UNCHANGED <<now, tick_start, overran, enabled, timeout, last_kick>>
    BY <1>4 DEF Reanchor, dogVars, stats
  <2>2. ~overran' => PunctualGap'
    BY <1>0, <2>1 DEF PunctualGap
  <2> QED
    BY <1>0, <2>1, <2>2
<1>5. CASE SleepUntilDeadline /\ UNCHANGED dogVars
  <2>1. PICK wake \in now .. next_deadline + LateWake :
          /\ wake >= next_deadline - EarlyWake /\ now' = wake /\ paced_at' = wake
    BY <1>5 DEF SleepUntilDeadline
  <2>2. /\ phase = "ended" /\ phase' = "returned" /\ next_deadline' = next_deadline + Period
        /\ UNCHANGED <<tick_start, overran, enabled, timeout, last_kick>>
    BY <1>5 DEF SleepUntilDeadline, dogVars, stats
  <2>3. wake \in Nat /\ now <= wake /\ wake <= next_deadline + LateWake
    BY <1>0, <2>1
  <2>4. PunctualGap'
    BY <1>0, <2>1, <2>2, <2>3 DEF PunctualGap
  <2> QED
    BY <1>0, <2>1, <2>2, <2>3, <2>4
<1>6. CASE KickAndLoop
  <2>1. enabled /\ phase = "returned" /\ phase' \in {"stopped", "called"}
    BY <1>6 DEF KickAndLoop, CallAgain
  <2>2. /\ UNCHANGED <<enabled, timeout, now, next_deadline, paced_at, tick_start>>
        /\ last_kick' = now
    BY <1>6, <2>1 DEF KickAndLoop, CallAgain, Dog!Kick
  <2> QED
    BY <1>0, <2>1, <2>2
<1>7. CASE RunTask /\ UNCHANGED dogVars
  <2>1. phase = "running" /\ phase' = "running"
        /\ UNCHANGED <<next_deadline, paced_at, tick_start, enabled, timeout, last_kick>>
    BY <1>7 DEF RunTask, dogVars
  <2> QED
    BY <1>0, <2>1
<1>8. CASE UNCHANGED <<phase, now, next_deadline, paced_at, tick_start, overran, dogVars>>
  BY <1>8 DEF dogVars, PunctualGap
<1>9. \/ EnableAndStart \/ KickAndLoop
      \/ (BeginTick \/ EndTick \/ Reanchor \/ SleepUntilDeadline \/ RunTask) /\ UNCHANGED dogVars
      \/ UNCHANGED <<phase, now, next_deadline, paced_at, tick_start, overran, dogVars>>
  BY DEF LoopNext, Register, Tick, RunTick, Pace, AddTask, SkipTask, loopVars, vars, pacing, stats
<1> QED
  BY <1>1, <1>2, <1>3, <1>4, <1>5, <1>6, <1>7, <1>8, <1>9

\* A kick that ends a punctual tick finds its gap within the timeout.
LEMMA PunctualKick ==
  ASSUME TypeOK, DogOK, KickInv, phase = "returned", ~overran
  PROVE  ~(Dog!GapAt(now) > timeout)
<1>1. /\ now \in Nat /\ last_kick \in Nat /\ tick_start \in Nat /\ last_kick <= tick_start
      /\ tick_start <= now /\ timeout = Timeout
  BY DEF TypeOK, TimesOK, DogOK, KickInv
<1>2. PICK gap \in Nat : gap = now - last_kick
  BY <1>1
<1>3. CASE gap <= Period + MaxOverhead
  <2>1. Period + MaxOverhead \in Nat
    BY NumbersAssumption
  <2>2. /\ gap \div UnitsPerMilli \in Nat
        /\ gap \div UnitsPerMilli <= (Period + MaxOverhead) \div UnitsPerMilli
        /\ (Period + MaxOverhead) \div UnitsPerMilli \in Nat
    BY <1>3, <2>1, WholeMillis
  <2> QED
    BY <1>1, <1>2, <2>2, TimeoutAssumption, WatchdogAssumption DEF Dog!GapAt
<1>4. CASE gap <= Period + EarlyWake + LateWake
  <2>1. Period + EarlyWake + LateWake \in Nat
    BY NumbersAssumption
  <2>2. /\ gap \div UnitsPerMilli \in Nat
        /\ gap \div UnitsPerMilli <= (Period + EarlyWake + LateWake) \div UnitsPerMilli
        /\ (Period + EarlyWake + LateWake) \div UnitsPerMilli \in Nat
    BY <1>4, <2>1, WholeMillis
  <2> QED
    BY <1>1, <1>2, <2>2, TimeoutAssumption, WatchdogAssumption DEF Dog!GapAt
<1> QED
  BY <1>2, <1>3, <1>4 DEF KickInv, PunctualGap

\* Every notional reset was preceded by an overrun of its own.
LEMMA ResetsAreKept ==
  TypeOK /\ PacingInv /\ DogInv /\ [LoopNext]_loopVars => ResetInv'
<1> SUFFICES ASSUME TypeOK, PacingInv, DogInv, [LoopNext]_loopVars,
                    started' < TickModulus
             PROVE  /\ overruns' <= Elapsed'
                    /\ would_have_reset' + (IF Pending' THEN 1 ELSE 0) <= overruns'
  BY DEF ResetInv
<1>0. /\ started \in Nat /\ overruns \in 0 .. TickModulus - 1 /\ phase \in Phases
      /\ would_have_reset \in 0 .. ResetModulus - 1 /\ overran \in BOOLEAN
      /\ DogOK /\ KickInv /\ ResetInv
  BY DEF TypeOK, TimesOK, CountersOK, DogInv, DogOK
<1>01. started <= started'
  <2>1. started' = started \/ started' = started + 1
    BY LoopStepsAreScheduled DEF Next, RunTick, Pace, AddTask, Start, BeginTick, SkipTask, RunTask,
           EndTick, Reanchor, SleepUntilDeadline, CallAgain, vars, pacing
  <2> QED
    BY <1>0, <2>1
<1>02. started < TickModulus
  <2>1. started' \in Nat /\ TickModulus \in Nat
    BY TimesAreKept, LoopStepsAreScheduled, NumbersAssumption DEF TypeOK, TimesOK
  <2> QED
    BY <1>0, <1>01, <2>1
<1>03. /\ overruns <= Elapsed
       /\ would_have_reset + (IF Pending THEN 1 ELSE 0) <= overruns
  BY <1>0, <1>02 DEF ResetInv
<1> USE NumbersAssumption DEF Phases
<1>1. CASE EndTick /\ UNCHANGED dogVars
  <2>1. /\ phase = "running" /\ phase' = "ended" /\ started' = started /\ started >= 1
        /\ would_have_reset' = would_have_reset
    BY <1>1 DEF EndTick, dogVars, PacingInv
  <2>2. /\ overruns <= started - 1 /\ Elapsed' = started
        /\ would_have_reset <= overruns
    BY <1>0, <1>03, <2>1 DEF Elapsed, Pending
  <2>3. CASE now - tick_start > Period
    <3>1. overruns' = (overruns + 1) % TickModulus
      BY <1>1, <2>3 DEF EndTick
    <3>2. overruns' = overruns + 1
      BY <1>0, <1>02, <2>2, <3>1
    <3>3. (IF Pending' THEN 1 ELSE 0) \in {0, 1}
      OBVIOUS
    <3> HIDE DEF Pending
    <3> QED
      BY <1>0, <2>1, <2>2, <3>2, <3>3
  <2>4. CASE ~(now - tick_start > Period)
    <3>1. overruns' = overruns
      BY <1>1, <2>4 DEF EndTick
    <3>2. overran' = (now - tick_start > Period)
      BY <1>1 DEF EndTick
    <3>3. ~overran'
      BY <2>4, <3>2, Zenon
    <3>4. ~Pending'
      BY <3>3, Zenon DEF Pending
    <3> QED
      BY <1>0, <2>1, <2>2, <3>1, <3>4
  <2> QED
    BY <2>3, <2>4
<1>2. CASE KickAndLoop
  <2>1. /\ phase = "returned" /\ phase' \in {"stopped", "called"} /\ started' = started
        /\ overruns' = overruns /\ overran' = overran /\ Dog!Kick(now)
    BY <1>2 DEF KickAndLoop, CallAgain, stats
  <2>2. Elapsed' = Elapsed /\ ~Pending'
    BY <2>1 DEF Elapsed, Pending
  <2>3. CASE overran
    <3>1. would_have_reset + 1 <= overruns
      BY <1>03, <2>1, <2>3 DEF Pending
    <3>2. would_have_reset' \in {would_have_reset, (would_have_reset + 1) % ResetModulus}
      BY <2>1 DEF Dog!Kick
    <3>3. (would_have_reset + 1) % ResetModulus <= would_have_reset + 1
          /\ (would_have_reset + 1) % ResetModulus \in Nat
      <4>1. would_have_reset + 1 \in 0 .. ResetModulus /\ ResetModulus \in Nat \ {0, 1}
        BY <1>0, WatchdogAssumption
      <4>2. CASE would_have_reset + 1 < ResetModulus
        BY <1>0, <4>1, <4>2
      <4>3. CASE would_have_reset + 1 = ResetModulus
        <5>1. (would_have_reset + 1) % ResetModulus = 0
          BY <4>1, <4>3
        <5> QED
          BY <1>0, <5>1
      <4> QED
        BY <4>1, <4>2, <4>3
    <3>4. would_have_reset' \in Nat /\ would_have_reset' <= would_have_reset + 1
      BY <1>0, <3>2, <3>3
    <3>5. (IF Pending' THEN 1 ELSE 0) = 0
      BY <2>2, Zenon
    <3>6. overruns' <= Elapsed'
      BY <1>03, <2>1, <2>2
    <3>7. would_have_reset' + 0 <= overruns'
      <4>1. PICK w \in Nat, x \in Nat, n \in Nat :
              w = would_have_reset' /\ x = would_have_reset /\ n = overruns
        BY <1>0, <3>4
      <4>2. x + 1 <= n
        BY <3>1, <4>1
      <4>3. w <= x + 1
        BY <3>4, <4>1
      <4>4. w + 0 <= n
        BY <4>2, <4>3
      <4> QED
        BY <2>1, <4>1, <4>4
    <3> QED
      BY <3>5, <3>6, <3>7, Zenon
  <2>4. CASE ~overran
    <3>1. ~(Dog!GapAt(now) > timeout)
      BY <1>0, <2>1, <2>4, PunctualKick
    <3>2. would_have_reset' = would_have_reset
      BY <2>1, <3>1, Zenon DEF Dog!Kick
    <3>3. would_have_reset <= overruns
      BY <1>0, <1>03
    <3> QED
      BY <1>0, <1>03, <2>1, <2>2, <3>2, <3>3
  <2> QED
    BY <2>3, <2>4
<1>3. CASE BeginTick /\ UNCHANGED dogVars
  <2>1. /\ phase = "called" /\ phase' = "running" /\ started' = started + 1
        /\ UNCHANGED <<overruns, overran, would_have_reset>>
    BY <1>3 DEF BeginTick, stats, dogVars
  <2>2. Elapsed' = Elapsed /\ ~Pending' /\ ~Pending
    BY <1>0, <2>1 DEF Elapsed, Pending
  <2> QED
    BY <1>03, <2>1, <2>2
<1>4. CASE EnableAndStart
  <2>1. /\ phase = "init" /\ phase' = "called" /\ started' = started
        /\ UNCHANGED <<overruns, overran, would_have_reset>>
    BY <1>4 DEF EnableAndStart, Start, stats, Dog!Enable
  <2>2. Elapsed' = Elapsed /\ ~Pending' /\ ~Pending
    BY <1>0, <2>1 DEF Elapsed, Pending
  <2> QED
    BY <1>03, <2>1, <2>2
<1>5. CASE /\ phase = "ended" /\ phase' = "returned"
           /\ UNCHANGED <<started, overruns, overran, would_have_reset>>
  <2>1. Elapsed' = Elapsed /\ (Pending' <=> Pending)
    BY <1>5 DEF Elapsed, Pending
  <2> QED
    BY <1>03, <1>5, <2>1
<1>6. CASE UNCHANGED <<phase, started, overruns, overran, would_have_reset>>
  <2>1. Elapsed' = Elapsed /\ (Pending' <=> Pending)
    BY <1>6 DEF Elapsed, Pending
  <2> QED
    BY <1>03, <1>6, <2>1
<1>7. \/ EndTick /\ UNCHANGED dogVars
      \/ BeginTick /\ UNCHANGED dogVars
      \/ KickAndLoop \/ EnableAndStart
      \/ /\ phase = "ended" /\ phase' = "returned"
         /\ UNCHANGED <<started, overruns, overran, would_have_reset>>
      \/ UNCHANGED <<phase, started, overruns, overran, would_have_reset>>
  BY DEF LoopNext, Register, Tick, RunTick, Pace, AddTask, SkipTask, RunTask, Reanchor,
         SleepUntilDeadline, loopVars, dogVars, vars, pacing, stats
<1> QED
  BY <1>1, <1>2, <1>3, <1>4, <1>5, <1>6, <1>7

\* The invariant of the whole loop.
LEMMA LoopInductive == LoopSpec => [](IInv /\ DogInv)
<1>1. LoopInit => DogInv
  <2> SUFFICES ASSUME LoopInit PROVE DogInv
    OBVIOUS
  <2>1. /\ phase = "init" /\ overruns = 0 /\ started = 0 /\ overran = FALSE
        /\ enabled = FALSE /\ timeout = 0 /\ last_kick = 0 /\ would_have_reset = 0
    BY DEF LoopInit, Init, Dog!WatchdogInit
  <2>2. DogOK
    <3>1. enabled \in BOOLEAN
      BY <2>1, Zenon
    <3> QED
      BY <2>1, <3>1, WatchdogAssumption DEF DogOK
  <2>3. KickInv
    BY <2>1 DEF KickInv
  <2>4. ResetInv
    BY <2>1 DEF ResetInv, Pending, Elapsed
  <2> QED
    BY <2>2, <2>3, <2>4 DEF DogInv
<1>2. IInv /\ DogInv /\ [LoopNext]_loopVars => DogInv'
  BY DogIsKept, KickIsKept, ResetsAreKept DEF DogInv, IInv
<1> QED
  BY <1>1, <1>2, LoopIsScheduled, Inductive, PTL DEF LoopSpec

\* "tolerate one bad tick": until the tick count wraps, the watchdog never
\* counts more resets than there were overruns, so a run of punctual ticks
\* cannot starve it, however their sleeps end.
THEOREM PunctualTicksFeedTheDog == LoopSpec => [](started < TickModulus => ResetsNeedOverruns)
<1>1. IInv /\ DogInv => (started < TickModulus => ResetsNeedOverruns)
  <2> SUFFICES ASSUME IInv, DogInv, started < TickModulus PROVE would_have_reset <= overruns
    BY DEF ResetsNeedOverruns
  <2>1. /\ would_have_reset + (IF Pending THEN 1 ELSE 0) <= overruns
        /\ would_have_reset \in Nat /\ overruns \in Nat
    BY DEF IInv, TypeOK, CountersOK, DogInv, DogOK, ResetInv
  <2> QED
    BY <2>1
<1> QED
  BY <1>1, LoopInductive, PTL

\* "short enough that a genuinely wedged loop is caught": the kick after a
\* tick that took longer than the timeout always counts a reset.
THEOREM WedgedTicksAreCaught == LoopSpec => WedgeIsCaught
<1>1. IInv /\ DogInv /\ [LoopNext]_loopVars
        => [KickAndLoop /\ (now - tick_start) \div UnitsPerMilli > Timeout
              => would_have_reset' # would_have_reset]_loopVars
  <2> SUFFICES ASSUME IInv, DogInv, KickAndLoop,
                      (now - tick_start) \div UnitsPerMilli > Timeout
               PROVE  would_have_reset' # would_have_reset
    OBVIOUS
  <2>1. /\ now \in Nat /\ tick_start \in Nat /\ last_kick \in Nat
        /\ last_kick <= tick_start /\ tick_start <= now
        /\ enabled /\ timeout = Timeout
        /\ would_have_reset \in 0 .. ResetModulus - 1
    BY DEF KickAndLoop, CallAgain, IInv, TypeOK, TimesOK, DogInv, DogOK, KickInv
  <2>2. Dog!GapAt(now) > timeout /\ timeout > 0
    <3>1. /\ (now - tick_start) \div UnitsPerMilli \in Nat
          /\ (now - last_kick) \div UnitsPerMilli \in Nat
          /\ (now - tick_start) \div UnitsPerMilli <= (now - last_kick) \div UnitsPerMilli
      <4>1. PICK a \in Nat, b \in Nat : a = now - tick_start /\ b = now - last_kick /\ a <= b
        BY <2>1
      <4>2. b <= b
        BY <4>1
      <4> QED
        BY <4>1, <4>2, WholeMillis
    <3> QED
      BY <2>1, <3>1, WatchdogAssumption DEF Dog!GapAt
  <2>3. would_have_reset' = (would_have_reset + 1) % ResetModulus
    BY <2>1, <2>2 DEF KickAndLoop, Dog!Kick
  <2>4. CASE would_have_reset + 1 < ResetModulus
    <3>1. (would_have_reset + 1) % ResetModulus = would_have_reset + 1
      BY <2>1, <2>4, WatchdogAssumption
    <3> QED
      BY <2>1, <2>3, <3>1
  <2>5. CASE would_have_reset + 1 = ResetModulus
    <3>1. (would_have_reset + 1) % ResetModulus = 0
      BY <2>1, <2>5, WatchdogAssumption
    <3> QED
      BY <2>1, <2>3, <2>5, <3>1, WatchdogAssumption
  <2> QED
    BY <2>1, <2>4, <2>5, WatchdogAssumption
<1> QED
  BY <1>1, LoopInductive, PTL DEF LoopSpec, WedgeIsCaught
=============================================================================
