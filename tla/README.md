# Verification of gnc-flight-sw

TLA+ models of the flight software under `src/fsw` and of the ground client
that talks to it (`src/gnd/pyground`), TLC configurations that
check them on small instances, and TLAPS proofs about them. Every definition
was translated from the source; `PROJECT.json` ("map") names the lines behind
each one.

    tlc -config MainLoop_pass.cfg MCMainLoop.tla      # check one run
    tlapm SchedulerProofs.tla                         # check proofs

## 1. The system

The flight software is one process with one thread. `main()` loads the
parameter table, registers the applications' tasks with a rate-group scheduler
and then loops: one base tick (50 Hz), paced against the monotonic clock, then
a kick of the watchdog. Everything else happens inside a task's call: the TT&C
application polls the TCP link, frames and executes telecommands, and sends
housekeeping. Two kinds of other actors exist: the ground, which connects,
sends, reads and disappears at any moment, and resets, which end the process
between (or within) any two of its steps.

| Component | State it keeps | Operations | Talks to |
|---|---|---|---|
| Rate-group scheduler `core/scheduler.*` | tasks with statistics, `tick_`, `overruns_`, `next_deadline_`, the occupancy window | `add_task`, `start`, `run_tick`, `run_tick_realtime` | the clock; tasks by callback; the overrun handler raises an event |
| Monotonic clock `platform/posix/posix_clock.*` | epoch and scale | `now`, `sleep_until` (may end early: it truncates) | the scheduler, the watchdog |
| Watchdog `platform/posix/posix_watchdog.*` | timeout, last kick, longest gap, would-have-reset count | `enable`, `kick` | the clock; kicked by the main loop |
| Main program `main.cpp` | none of its own | boot, registration, loop, save on shutdown | everything |
| Parameter store `core/param_store.*` | values, the dirty flag | `reset_to_defaults`, `set`, `get`, `save`, `load` | storage; ST[20] telecommands; read by the applications |
| Non-volatile storage `platform/posix/posix_file_storage.cpp` | blocks, written in place | `read`, `write` | the parameter store, across boots and builds |
| Ring buffer `core/ring_buffer.hpp` | array, head, size, dropped count | `push`, `pop`, `at`, `clear` | the event log |
| Event log `core/event_log.hpp` | a ring of records, total, last identifier, sink | `raise`, `set_sink` | its sink is TT&C, called on the raiser's stack |
| TCP link `platform/posix/tcp_server_link.*` | listening socket, one peer, a circular transmit queue | `poll`, `send`, `receive` | the kernel, the ground; TT&C |
| TT&C uplink `apps/ttc/ttc_app.cpp` | receive buffer, was_connected | `pump_link`, `drain_rx_buffer` | the link; the event log |
| TT&C telecommands and telemetry, same file | sequence and message counters, statistics, `hk_` | `handle_tc`, the service handlers, `send_*` | parameters, bus, event log, link |
| TT&C housekeeping, same file | `next_due` and `enabled` per structure | `task_telemetry` | parameters (the periods), link |
| CCSDS and PUS packets `apps/ttc/space_packet.*`, `pus.*`, over `core/bytes.hpp`, `crc.hpp`, `time.hpp` and the generated dictionary | a scratch buffer, counters | `encode`, `decode`, `parse_tc`, `begin`, `finish`, `serialize` | TT&C; octet by octet, the ground's own implementation |
| Software bus `core/bus.hpp` | subscribers per topic | `publish`, `subscribe` | TT&C publishes mode requests |
| Python ground client `gnd/pyground` (another process) | `_rx`, `_seq`, counters | `send`, `poll`, `wait_for`, `build_tc`, `parse_tm`; commands such as `params` | the TCP link |

What is hard here is not parallelism inside the process (there is none) but

* **time**: sleeps that err, ticks that overrun, a timeline that is re-anchored,
  counters and statistics that outlive the tick they describe;
* **the ground**: it acts between any two system calls, so `connected()` is
  stale as soon as it is read, packets arrive in pieces, damaged, or never end;
* **limits**: a full queue, a full ring, a full socket, the wrap of each;
* **resets**: in the middle of an in-place write, or between two builds that do
  not agree on what the stored block means;
* **half-done work**: several packets answer one telecommand and the link may
  fail at each of them; a telecommand resets the very counters its own answer
  is counted in; a period changes under a deadline computed from the old one;
* **two implementations of one format**: the ground shares no code with the
  flight software, and every field's place, width and meaning is written twice.

`PROJECT.json` lists each of these hazards at its line with the properties
that would catch it ("hazards"), and every component with what is modelled of
it ("components").

## 2. The modules

    BoundedHistory  <-implements-  RingBuffer  <-extends-  EventLog
    LinkChannel     <-implements-  TcpLink     <-extends-  TcpLinkProofs
    Sessions        <-extends-     TcpLink, Uplink, TtcApp
    Uplink          <-extends-     UplinkProofs
    Watchdog  <-instance-  MainLoop  --extends->  Scheduler
    MainLoop        <-extends-     SchedulerProofs
    TtcApp  --extends->  Telecommands, Sessions
    TtcApp, Housekeeping           <-extends-  TtcAppProofs
    EventLog, ParamStore           <-extends-  StoreProofs
    PrimaryHeader  <-extends-  SpacePacket  <-extends-  GroundClient  <-extends-  GroundClientProofs
    Bits  <-extends-  Octets, Crc16, GroundPackets
    PrimaryHeader, Octets, Crc16, Dictionary, CucTime  <-extends-  FlightPackets
    FlightPackets, GroundPackets   <-extends-  Wire  <-extends-  PacketProofs  <-extends-  WireProofs

Each `MC*` module extends the module it is named after and gives the constants
that a `.cfg` cannot write down. Mutated forms of a definition, which the
listed mutants substitute for it, stand directly before the definition and are
marked as such; no specification uses them.

**Scheduler, Watchdog, MainLoop** (`scheduler.cpp`, `posix_watchdog.cpp`,
the loop of `main.cpp`). `phase` and `cursor` are the program counter of
`run_tick_realtime`: `BeginTick`, then for each task `SkipTask` or `RunTask`,
then `EndTick` (occupancy window, overrun detection, the scan that picks whom
to blame), then `Reanchor` or `SleepUntilDeadline`, then `CallAgain`, which is
the caller's loop. Time is a natural number of abstract units; it advances by
any amount up to a bound in each task, in the main loop, and by the sleep, which
ends anywhere between `EarlyWake` before and `LateWake` after its deadline.
`MainLoop` joins the scheduler and the watchdog on that clock: `CallAgain` and
`Dog!Kick` are one step, because nothing runs between them. `started`, `anchor`,
`paced_at`, `ran` and `last_run` are history.

**ParamStore** (`param_store.hpp`, `params.*`, block 0 of the storage, and the
boot and shutdown of `main.cpp`). `Boot` is "defaults, then the stored block if
it can be read and passes `load`"; `Shutdown` and `Save` or `SaveTorn` are
main's last lines; `Crash`, `Corrupt` and `Upload` are what happens to a
spacecraft. A value is an integer on a grid: one point in `Grid` is exactly
representable in the parameter's type, so that truncation (U32) and rounding
(F32) are visible; telecommands and limits, which are doubles in the code, may
lie between. `Grid` is one for both types, so a parameter whose type changes between
two builds is converted as a value of its new type on the grid of the old one; only
changes of limits, defaults and length are told apart. A CRC is the content it
protects, so damage is always found.
`main()`'s table has only U32 and F32 entries; the other types are left out.

**BoundedHistory, RingBuffer, EventLog** (`ring_buffer.hpp`, `event_log.hpp`).
The abstract queue has no indices; `RingBuffer` shows that the array with its
head, size and modulo arithmetic implements it; `EventLog` is the ring with the
counters and the sink around it. `raise` is one action, since it calls the sink
synchronously. `pop` and `clear` have no caller in this build.

**Sessions, LinkChannel, TcpLink** (`tcp_server_link.cpp`). `Sessions` has the
effect of each system call (accept, recv, close) and of the ground (external);
`TcpLink` adds the circular transmit queue. `poll`, `send` and `receive` are one
action each: the ground acts between them, and inside them only what one system
call returns matters, which `Flush` leaves open (how much the socket takes,
whether the peer is found gone). `LinkChannel` is what `ILink`'s user relies
on. `disconnect()` has no caller.

**Uplink** (`pump_link`, `drain_rx_buffer`). `phase` is the program counter of
one pump: `Poll`, `SampleConnection`, `Receive`, `DrainOne` for each turn of the
framing loop, `FinishDrain`. A byte carries which packet of which session it is
and its place in it; the code distinguishes only whether a header is a packet's
and whether the CRC agrees, so a header that is not a packet's claims any size.
Sending anything may find the peer gone (`MayFindPeerGone`).

**Telecommands** (`handle_tc`, the services, `send_*`, `pus.cpp`). One packet
is built per step, so that the link may change its answer between any two of
them. `Emit` takes the sequence count and message count before it knows the
packet's fate, as the code does; the first wraps at `SeqModulus`, the second, a
`uint16_t`, at `CountModulus`. Packet contents are the kind (service,
subtype), the failure code and the counters. A telecommand is the command, the
parser's verdict, and whether its arguments are good.

**Housekeeping** (`task_telemetry`). One run of the task is one action, over
any gap since the last; enables and periods change in between.

**TtcApp** (`pump_link` down to `handle_tc`, over `Sessions`). `Telecommands`
gets its packets from nowhere and its link goes up and down as it likes. Here the
packets are those of a session, received into `rx`, the link is the peer of
`Sessions`, and every step says what it means for both: `Poll`, `Announce`,
`Receive`, `Take` (one turn of the framing loop, up to the call of `handle_tc`),
`HandleTc` (one step of `Telecommands`), `PumpEnds`, and `Between` for the
telemetry task and the overrun event. Sending may find the peer gone
(`OnThisLink`), at any packet. Whole packets only: cutting and damage are
`Uplink`'s. `from`, `to` and `received` are history: the session of each
telecommand, the peer when each packet was handed to the link, and how many packets
were received. Nothing in `Poll` and `Receive` asks whether a telecommand is being
handled; that none is follows from where the pump calls them (`PumpInv`, section 6).

**PrimaryHeader, SpacePacket** (`space_packet.*`, `TmBuilder`). The header as
three words built and taken apart arithmetically, with the length field's "minus
one"; the 14-bit count and the 1024-octet scratch buffer. `SpacePacket` is the
packet builder of `GroundClient`.

**Bits, Octets, Crc16, CucTime, Dictionary, FlightPackets** (`bytes.hpp`, `crc.hpp`,
`time.hpp`, the generated headers, `pus.*`, the senders of `ttc_app.cpp`). The
flight side of the wire. A layout is a sequence of named and typed fields, which
is what the flat lists of `write_*` and `read_*` calls are; `WriteRaw` and
`ReadField` have the poisoning of `ByteWriter` and `ByteReader`. `ParseTc`
keeps the order of the checks. The CRC is computed; only its eight shifts,
which depend on one octet, are tabulated. `Bits` has the exclusive or, bit by bit
(the operator of the community module cannot be reasoned about). A value wider than 16 bits is a sequence
of 16-bit words, since TLC's integers have 32 bits; a float is its bit pattern.

**GroundPackets** (`packets.py`, `dictionary.py`). The ground side, translated
from the Python and sharing no definition with the flight side, its CRC
included, but the exclusive or: whatever the two do not agree on, `Wire` sees.

**Wire** joins them. `GroundSends` builds a telecommand, `DrainOne` is a turn of the
framing loop (framed, parsed, looked up and its arguments read), `FlightTakes` its end, `FlightAnswers` and `FlightReports` build telemetry, `GroundReads`
decodes it. `Damage` xors one burst onto the octets on the way, `Echo` hands the
uplink what the downlink carries.

**GroundClient** (`gnd/pyground`: `client.py`, `parse_tm`, `cmd_params`). The
packets `SpacePacket` builds go octet by octet into the stream of one session,
or are refused whole; the client frames them with its own arithmetic. The stream
is one sequence with two marks: `arrived` (received into `_rx`) and `taken`
(removed from its front), so `_rx` is what lies between them. `Receive` moves the
first by any amount; `TakePacket` is one turn of `_drain` with what the loop of
`wait_for` does with the packet it yields, `GiveUp` the deadline, `Ask` and
`Finish` the loop of `cmd_params`, `LinkReset` a `recv` that raises. A wait looks
at its deadline only when `_drain` has nothing whole left, which is its guard.
Time itself is left out. The spacecraft's side is reduced to reporting each
parameter asked for, in order, between other telemetry (`Telecommands` has the
whole of it); `_drain`'s skipping of an octet needs a length field that no built
packet has.

## 3. What the runs check

Every property has a mutant: a plausible error in the code, substituted for the
definition, that makes the property fail under the run's own configuration.

| Run | Question | Properties |
|---|---|---|
| `MainLoop_pass` | Do pacing, rates, overrun attribution and watchdog stay right over several late, early and overrunning ticks? | `NeverAhead`, `NoCascade`, `BlamesTheSlowest`, `EveryDividerTicks`, `ResetsNeedOverruns`, `WedgeIsCaught`, `KicksGoOn`, `TypeOK` |
| `ParamStore_pass` | Is the table in use always one the store can vouch for? | `ValuesAreVouched`, `CleanMeansUnchanged`, `BootsOnASavedTable`, `RestartKeepsTheTable` |
| `EventLog_pass` | Is the cyclic array the queue it should be, and do history, counters and downlink agree? | `ImplementsHistory`, `OnlyWrittenSlots`, `HistoryIsTheNewest`, `CountersAgree`, `SinkMissesNothing`, `TypeOK` |
| `TcpLink_pass` | Is the link the channel its interface promises, and is what it accepted delivered? | `ImplementsChannel`, `NothingIsLost`, `EventuallyRead` |
| `Uplink_pass` | Does framing survive damage, fragmentation and reconnection, and is the end of a peer noticed? | `AlwaysRoom`, `OnceAndInOrder`, `CleanSessionIsFramed`, `CommandsGetThrough`, `PeerGoneIsNoticed` |
| `Telecommands_pass` | Is each telecommand answered as it asked, and do counters tell the truth, whatever the link does? | `HandledIsAnswered`, `LossIsVisible`, `StatisticsMatch` |
| `Housekeeping_pass` | Does each report go out exactly when it is due? | `OnSchedule` |
| `GroundClient_pass` | Does the ground get exactly what was sent, however the stream is cut, and against the right parameter? | `FramedExactly`, `AnswersMatchUntilATimeout`, `EveryWaitEnds` |
| `TtcApp_pass` | Do answers stay in the session that asked, whoever comes and goes, and is everything handled that was received before a peer went? | `AnswersStayInSession`, `ReceivedIsParsed` |
| `Wire_pass` | Do the two implementations of the packets mean the same, and is damage always told? | `TcIsUnderstood`, `TmIsUnderstood`, `AnswerNamesItsRequest`, `OnlyOrdersAreTaken`, `DamageIsSeen` |

### Disagreements between the code and its text (runs that must fail)

| Run | The text | What the code does |
|---|---|---|
| `ParamStore_limits` | "a parameter written before a restart is still set after it" (`tests/sil/test_endtoend.py:250`) | A float accepted at its limit (0.01 for `POINTING_RATE_DPS`) rounds to just below it; the saved block then fails the range check at the next boot and *all* stored parameters are given up for the defaults. |
| `Uplink_splice` | the receive buffer is dropped so that two byte streams are never spliced (`ttc_app.cpp:75-76`) | `connected()` is sampled once per tick. A peer lost after the sample and replaced in the next `poll()` is no transition, and the partial packet stays. |

Further disagreements were met while modelling. They follow from the modelled
definitions directly and have no run:

* message counts are kept "per (APID, service, subtype)" (`pus.hpp:86`); they are
  kept per (service, subtype), as `ttc_app.hpp:111` says, so that the ST[3,25]
  counts of each application show gaps although nothing was lost
  (`LossIsVisible` holds for each kind over all applications);
* "Read every parameter back from the spacecraft, one ST[20,1] at a time"
  (`gnd/pyground/__main__.py:85`); `wait_for` matches the packet's name and not
  its `param_id`, so a report that comes after its wait has timed out is printed
  as the value of the next parameter, and so on for all that follow
  (`AnswersMatchUntilATimeout` is as far as it can be trusted);
* after a late tick the scheduler "skips ahead to the next real deadline"
  instead of running back to back (`scheduler.hpp:27-29`, `ARCHITECTURE.md:59-60`);
  after `Reanchor` it returns without sleeping, so the next tick does start back
  to back, and it is the timeline that moves;
* the lost tick "has been counted as an overrun" (`scheduler.cpp:94-95`); the
  timeline also slips in a tick that `run_tick` found on time, when the main
  loop's overhead or a late sleep came on top, and then no counter shows it;
* `tick_` wraps at 2^32, and a divider such as 5 does not divide 2^32
  (`scheduler.hpp:16`): that task runs off its rate once in 2.7 years;
* "no path by which an out-of-range value reaches flight code"
  (`param_store.hpp:13-15`): a float may be out by its rounding, see
  `ParamStore_limits`;
* after a failed load "the compiled-in defaults are used and an event is raised"
  (`param_store.hpp:17-20`); `main.cpp:157-164` raises none;
* after lengthening a period "the next report simply comes later"
  (`ttc_app.cpp:450-451`); `next_due` was set from the old period and is never
  moved away, so the next report still comes at the old deadline and only the
  one after it is later (`OnSchedule` says so: "at any run since");
* the link refuses "a second controller" (`tcp_server_link.cpp:82-83`); it also
  refuses the only one there is, when the close of its predecessor has not been
  noticed yet;
* "the ground needs to know when the spacecraft believes contact was made or
  lost" (`ttc_app.cpp:66-68`); a session that replaces another between two
  samples raises neither event;
* `tc_received` is "telecommands accepted" in `ICD.md:69`; it counts every one
  that parses, those refused in ST[1,2] too;
* "there is no path where a command disappears without trace"
  (`learn/07-did-it-work/README.md:202-204`), as every rejection makes a report or an
  event; a `SET_PARAM` that fails, or any other execution that does, and whose
  completion flag is not set, makes neither (`ttc_app.cpp:193`, `255-260`;
  `HandledIsAnswered` promises the reports that the flags ask for and no more);
* `UnknownService` means "no handler for this (service, subtype)"
  (`status.hpp:50`); it is also the code of a `SET_PARAM` on an unknown
  parameter;
* a bad CRC is "the one rejection that produces no ST[01] verification report"
  (`ARCHITECTURE.md:129-130`, `pus.hpp:118-120`); no packet that `parse_tc`
  refuses gets one, whatever the reason;
* the length field 0xFFFF gives a total size of 6 (`space_packet.hpp:23-24`),
  because the sum is 16 bits wide (`OnlyOrdersAreTaken` has the burst that makes
  it so).

## 4. Bounds, and why they are enough

* `MainLoop_pass`: `MaxTicks` 3 is both `--max-ticks` and the bound. The period
  is 2 units, a task takes 0 to 4, the main loop 0 or 1, a sleep ends up to 1
  early or late: a tick may be punctual, late by overhead alone, late by one
  task or by both, and cross two or three deadlines; three ticks hold the
  patterns "late, punctual, late" and "late, late, punctual", and two periods
  of a task with divider 2. Timeout 6 lies between a single and a double
  overrun. The occupancy window of 2 closes and reopens. `TickModulus` 64 is
  above the bound: below the wrap the rates are exact, at the wrap they are
  not (above); the theorems cover every modulus.
* `ParamStore_pass`: two boots with any number of writes between, four builds
  that differ in limits, in length, and in whether limits are representable;
  the inputs are not-a-number, below, at an unrepresentable limit, inside, above.
  `ParamStore_limits` needs a third boot to start from a saved table.
* `EventLog_pass`: five events through a ring of two: it wraps twice, and
  `CountModulus` 4 lets the counters wrap.
* `TcpLink_pass`: queue 3, socket 2, packets 1 and 2, two sessions, five
  packets: the queue wraps, fills, refuses, and the socket takes parts.
* `Uplink_pass`: packets of 3 octets with headers of 2, buffer 4: every split
  of a packet over receives, one damaged octet anywhere, two packets and
  another session. The branch that empties a full buffer is unreachable, which is
  what `AlwaysRoom` says.
* `Telecommands_pass`: two framed packets of 21 kinds, up to three
  packets built before no new work starts (an answer that has begun is always
  finished), the sequence counts modulo 3 and the message counts modulo 2, so that
  both wrap within them, and not together; each emission has every fate.
* `TtcApp_pass`: two sessions, of which the second may wait at the socket while
  the first is served; two packets in a session, so that one is in the receive
  buffer while the other is answered; an answer of three packets, a refusal, a
  completion alone, no answer at all, and damage. The last but one is there so that
  after a peer lost in the first answer and a second telecommand handled without
  one, the bound on packets still leaves room for LINK_LOST, which clears the
  buffer. `Telecommands_pass` has all 21 kinds.
* `Wire_pass`: every command with arguments whose octets all differ; every packet
  the flight software can build, its octets all different so that no swap or shift
  goes unseen; counters and times at their wraps and edges; bursts of 1 bit, of the two
  ends of 16, of all 16 on and off the octet's edge, and the one that makes the length field
  0xFFFF, at every octet of every packet. A burst of up to 16 bits is what this
  CRC promises to find; longer ones it finds with probability only.
* `Housekeeping_pass`: gaps shorter than, equal to and longer than the
  periods, four runs, three changes.
* `GroundClient_pass`: the real word widths; sessions that begin at count 0 and
  two before the wrap of its 14 bits; the smallest telemetry packet and one that
  the scratch buffer refuses (which still takes a count); two parameters, the
  least that can be confused; two packets unasked. The stream is cut anywhere,
  inside headers too. The bound on unasked packets hides no starvation: a chunk
  that arrives after the deadline is drained and the wait ends then.

`CHECK_DEADLOCK FALSE` is set in every run: the loop stops at `--max-ticks`, a
ground that has closed its last session does nothing more, and the other
models stop at their named bounds.

## 5. Fairness

* `LoopSpec`: `WF(LoopNext)`. There is one thread, it never blocks but in a
  bounded sleep, and there is always a next statement until the loop ends.
* `TcpLink!Spec`: `WF` of polling and of receiving, because the 50 Hz link task
  does both on each of its runs, and of the ground's reading while it is
  connected: a ground that stays connected and does not read is not promised
  anything. Nothing is assumed of connecting, closing or sending.
* `Uplink!FairSpec`: `WF(Pump)`, for the same task. The ground is free not to
  act at all, and `CommandsGetThrough` asks nothing of it but not to leave.
* `GroundSpec`: `WF(Client)`. The client is a process of its own that waits only
  in `recv` with a timeout. Nothing is assumed of the spacecraft or the link.

## 6. What is proved

TLAPS checks the eight `*Proofs` modules to the last leaf; `PacketProofs` and
`WireProofs`, which extends it, take some ten minutes each. They assume the named
assumptions on the constants only, each declared where its constants are and
evaluated by TLC on the instances: `RequestsAssumption`, `NumbersAssumption`,
`WatchdogAssumption`, `TimeoutAssumption`, `StoreAssumption`, `BuildsAssumption`,
`RingAssumption`, `EventAssumption`, `SessionsAssumption`, `TcpLinkAssumption`,
`UplinkAssumption`, `TelecommandsAssumption`, `TtcAppAssumption`,
`HousekeepingAssumption`, `SpacePacketAssumption`, `GroundAssumption`,
`WireAssumption`. Most are types. Those that say more are facts of the source: a punctual tick fits in
the watchdog's timeout (`TimeoutAssumption`: the timeout is three periods,
`main.cpp`), every declared default lies within its limits
(`BuildsAssumption`, `params.*`), the receive buffer is larger than the largest
packet (`UplinkAssumption`), and a telemetry packet has a secondary header
(`GroundAssumption`). `WireAssumption` says what may be sent: a command of the
dictionary with arguments of its types (`IsOrder`, the checks of `build_tc`); a
report whose fields are of their types, whose enumerated fields hold a number of
their enumeration and whose rejection event carries a failure code (`IsReport`,
the callers of the senders); a count of 14 bits and a time of 32 bits of seconds
(`IsStamp`); and bursts of up to sixteen bits, anywhere (`IsBurst`).

| Theorem | For every | says |
|---|---|---|
| `SchedulerProofs!TypeCorrect` | set of registrations, period, window, modulus, execution and sleep error | the scheduler's types; an occupancy within 0..100 |
| `TicksAreNeverAhead` (`NeverAhead`) | same | no tick starts before its place on the anchored timeline by more than one sleep's error |
| `LatenessIsNotInherited` (`NoCascade`) | same | a late tick spent a period itself |
| `BlameIsCorrect` (`BlamesTheSlowest`) | same, the wrap of `tick_` included | an overrun is attributed to a slowest task of this tick |
| `TasksKeepTheirCadence` (`EveryDividerTicks`) | same | a task runs once per divider, whatever overruns, until `tick_` wraps |
| `LoopIsScheduled` | same | the paced loop with its watchdog implements the scheduler |
| `PunctualTicksFeedTheDog` (`ResetsNeedOverruns`) | same, and timeout that a punctual tick fits | no gap longer than the timeout without a counted overrun |
| `WedgedTicksAreCaught` (`WedgeIsCaught`) | same, any timeout | a gap longer than the timeout is counted |
| `StoreProofs!EveryValueIsVouched` (`ValuesAreVouched`) | dictionary, sequence of builds, grid, inputs, number of boots | every value in use is a default or was accepted by this build's limits |
| `CleanIsUnchanged` (`CleanMeansUnchanged`) | same | a clean table is the one last saved or loaded |
| `BootsOnlyOnASavedTable` (`BootsOnASavedTable`) | same | a boot takes one completed save as a whole, or the defaults |
| `RestartsKeepTheTable` (`RestartKeepsTheTable`) | same | a clean restart of the same dictionary keeps the table |
| `StoreProofs!TypeCorrect`, `WalksOnlyWrittenSlots` | capacity, item set, counter width | the ring's indices stay in the array and meet written slots only |
| `ImplementsTheQueue` (`ImplementsHistory`) | same | the array refines `BoundedHistory`, through `push`, `pop` and `clear` |
| `HistoryIsRight`, `CountersAreRight`, `SinkIsComplete` | dictionary, capacity, counter width, number of events | history, counters and sink tell the same story |
| `TcpLinkProofs!NoByteIsLost` (`NothingIsLost`) | size of queue, socket and packets, number of sessions | what was accepted is what was read, what the socket holds, what the queue holds, in order |
| `LinkImplementsChannel` (`ImplementsChannel`) | same | the link refines `LinkChannel` |
| `UplinkProofs!RoomToReceive` (`AlwaysRoom`) | sizes of headers, packets and buffer that fit each other | there is room whenever the link is read |
| `CommandsInOrder` (`OnceAndInOrder`) | same, any damage and any sessions | no telecommand twice, none before an earlier one |
| `CleanSessionsAreFramed` (`CleanSessionIsFramed`) | same | an undamaged session that began with an empty buffer is framed exactly |
| `TtcAppProofs!LossIsAlwaysVisible` (`LossIsVisible`) | set of frames, modulus of the sequence counts and of the message counts, number of packets | the counts of two packets of an application, or of a kind, tell how many were built between them and did not arrive, up to a multiple of the modulus |
| `StatisticsAlwaysMatch` (`StatisticsMatch`) | same | the statistics tell what happened since their reset |
| `TelecommandsAreAnswered` (`HandledIsAnswered`) | same | each telecommand got the reports it asked for and no other |
| `AnswersReachTheirSender` (`AnswersStayInSession`) | same, and number of sessions, backlog, length of the queues | a report that is sent goes to the session that asked |
| `ReceivedIsAlwaysParsed` (`ReceivedIsParsed`) | same | every whole packet received is parsed, or in the buffer still |
| `TtcAppProofs!ReportsAreOnSchedule` (`OnSchedule`) | structures, periods, gaps, changes | a report goes out when it is due and at no other run |
| `PacketProofs!TimeIsReadBack`, `TimeIsMonotone` | time in microseconds | the time code loses less than one unit and keeps the order of times |
| `GroundClientProofs!FramesAreExact` (`FramedExactly`) | sizes of packets, cuts of the stream, starts of the count | the ground gets the packets the link took, in order, each as it was built |
| `AnswersMatch` (`AnswersMatchUntilATimeout`) | same, number of parameters | until a wait times out every value is shown against its parameter |
| `HeadersReadBack` | header whose fields fit their bits | `decode` gives back what `encode` was given |
| `SizesAgreeButOnce` | length field | flight and ground frame by the same size, but for 65535 |
| `PacketProofs!BothEndsAgree` | sequence of octets | the C++ and the Python compute one CRC |
| `BurstsChangeTheCrc` | packet of any length, burst of up to 16 bits, place | the CRC changes |
| `OnlyTheCrcSeals` | sequence of octets | the CRC over it and two more octets is 0 if they are its CRC, and for no others |
| `WhatPacketMakes` | layout that fits a packet, values, stamp | `TmBuilder` puts headers, fields, length and CRC where they belong |
| `WhatIsBuilt` | argument layout, values, count | so does `build_tc` |
| `WireProofs!WholeTcIsParsed`, `OrderIsUnderstood` | command, arguments, count | what `build_tc` makes is drained in one turn and handled as what was meant |
| `EveryReportSays` | report or answer, stamp | what the senders make is decoded to what was meant |
| `DamageIsSeenAlways` (`DamageIsSeen`) | orders, reports, stamps, bursts | a packet's CRC is shown good exactly if no burst hit it |
| `TcIsUnderstoodAlways` (`TcIsUnderstood`) | same | an undamaged telecommand is taken once, as it was meant |
| `TmIsUnderstoodAlways` (`TmIsUnderstood`) | same | an undamaged report is read as it was meant, the time to less than a unit |
| `OthersAreRefused` | octets whose length field says how many they are, and whose CRC is wrong or which are telemetry | they are drained in one turn and refused unanswered |
| `OnlyOrdersAreTakenIfLengthsArrive` (`OnlyOrdersAreTaken`) | orders, reports, stamps, bursts that leave the two octets of a length as they are | nothing but an order that arrived whole is acted on or answered |
| `AnswersNameIfLengthsArrive` (`AnswerNamesItsRequest`) | same | an answer that is read names the order it answers |

The theorems named `...Inductive` and `...InvHolds` state the inductive invariants
themselves.

**Scheduler.** None of the properties is inductive. `IInv` adds: no task's
statistics exceed the bound on execution (`ExecInv`: without it the CHOOSE of the
slowest task need not have a witness); where the timeline stands in each phase
relative to its anchor, to the clock and to the last return (`PacingInv`: the
deadline is never less than one period per started tick after the anchor, and
never further from the last return than a period less the overshoot of one
sleep, of which `NeverAhead` and `NoCascade` are consequences); and that the
tasks behind the cursor that were due hold this tick's time (`TurnInv`: it is
what makes the statistics the overrun scan reads those of this tick). The
step lemma has one case per action.

**Cadence.** `SlotInv` says that a task's last run was in a slot of its own and
that the turn of its next slot has not passed (`Passed`: a tick is over for the
tasks behind the cursor before it is over for the rest). Two multiples of the
divider less than a divider apart are equal, and that makes the next run exactly
one divider later. `CountInv` ties `tick_` to the ticks that began, until it
wraps; at the wrap the property is false (section 3), so it is stated up to it.

**Watchdog.** `KickInv` bounds, phase by phase, what the gap since the last kick
may have become: after a punctual tick it is a period and the overhead of the
loop, or a period and the two errors of a sleep. `ResetInv` charges each gap that
is too long to an overrun of its own (`Pending`: the overrun is counted before
the kick that finds the gap).

**Parameter store.** `IsTable`: a value for each parameter of the build,
each what its type makes of a value within the limits. `StoredInv`: a CRC that
can match is that of a table saved once, whatever became of the content, and
saved values are representable. `LoadedInv`: while a loaded table is clean it is
the stored one. `KeptInv`: a table that a clean shutdown promised is stored and
passes every check of the next load. What a type makes of
a value is `QuantiseFacts`: conversion keeps the order of values and leaves a
representable one alone, so a representable limit is not crossed by it; for one
that is not representable only a default or the conversion of an accepted value
is promised, which is what `ParamStore_limits` shows at work.

**Link.** `NothingIsLost` is inductive with the types. `Holds` says which bytes the
array has from an index on, and what lies across its end is handled once, by
the lemmas on remainders; a flush, a send and a refusal then are equations
between concatenations. The refinement has one case per step of the link,
and a peer found gone in a flush is the channel's `Drop` or the end of its `Send`.

**Uplink.** `AlwaysRoom` is inductive with the types: what the framing loop
leaves is shorter than the packet its header claims, or than a header. `TakenInv`:
a connection is accepted once, so that nothing of a session is in the buffer
before it. `OrderInv`: first bytes are in order in the buffer, in what is still
on its way, and after what was handled; damage may hide a packet but not reorder
two. `CleanInv` and `PartialInv`: in an undamaged session the buffer and what
follows it in the socket are together a stream in which every packet begins
where the one before it ends (`Framed`), and between two pumps the buffer has the
beginning of one packet at most.

**Ring buffer.** `IInv` is the types and `OnlyWrittenSlots`. The modulus is removed
first (`WrapsOnce`: an index wraps at most once, so the remainder is a
subtraction), after which `PushSlots` and `PopSlots` say slot by slot what an
operation leaves, and everything else follows from them by linear arithmetic.
The refinement maps the contents to `Retained` and the losses to
`dropped_count`. `pop` and `clear`, which no run exercises because this build
never calls them, are covered by these proofs.

**Event log.** `LogInv` adds to it that what is retained is the end of what was
raised (`NewestInv`), the counters (`CountInv`) and the sink (`SinkInv`); the
counters need that adding commutes with taking the remainder (`AddModulo`).

**Telecommands.** The two properties of the counters say nothing of where these
stand, so they are not inductive. `CountInv` says it from each packet built so
far: its application's counter is its own count, plus one, plus the packets built
since, up to a multiple of the modulus, and so is the counter of its kind up to a
multiple of its own (`TakenSince`, with three lemmas on what taking a count does).
`PacketIsCounted` is the step: the new packet is one more for every earlier one
of its application and kind, whatever its fate, because the counts are taken
before the link is asked. The remainder is handled by `Divided` and `Congruent`,
the sets by `OneMore`. `SentInv` and `RejectedInv` are the statistics; the second
has the one step in which a rejection is counted and not reported yet. No
service handler matters but by what it builds (`HandleEffects`, `Builds`).
For the answers, `ProgressInv` says at each step of `handle_tc` which reports of
the telecommand at hand exist already, and `VerificationInv` that no packet
answers a telecommand still to come; a packet of another service adds no report
(`ReportsGrow`).

**The application on its link.** `AnswersStayInSession` needs to know whose packet
is being answered. `StreamInv`: what is on its way in a session, and what is in
`rx` while there is a peer, belongs to that session. `PumpInv`: outside of
draining `rx` is empty and nothing is being handled, and while something is, the
peer is its sender or nobody; peers change in `Poll` only, which is why the
empty buffer there matters. `LinkInv`: `link_up` is whether there is a peer.
`ReceivedIsParsed` rests on the same emptiness: `Announce` is the one step that
throws the buffer away, and it comes after a pump that has drained it
(`ReceiptStays`). A step of the application that handles a packet is one of
`Telecommands` by definition, and a poll or a receive is a `LinkChanges` because
`PumpInv` has nothing being handled then (`StepSimulation`); so the first three
theorems hold of the application on its link too (`TelecommandsOnTheLink`).

**Housekeeping.** `DueInv`: `next_due` is the nearest of the deadlines that the
runs since the last report would have set, that report's included, which is what
`OnSchedule` says of a report when it comes.

**Time code.** Below the cap the fraction is exact; above it both have the
largest fine value, so the cap costs nothing. The 32 bits of seconds are not
wrapped in this module (they last 136 years).

**Ground client.** `FramingInv` has the places where packets begin in the stream
(`Cuts`) and says that `_rx` begins at one, the place after the packets that
were yielded; so a header in `_rx` is a header (`FrontIsAPacket`), read by the
ground's arithmetic as the flight software wrote it (`HeadersAgree`). `OneInv`:
before a wait has timed out, one request at most is on its way, up as a request
or down as its report, and it is the one waited for. This is what a timeout
breaks, and nothing restores it.

**CRC.** The CRCs of the prefixes of a packet are a *run*: a function on `0 .. n`
that starts at the seed and takes one step per octet (`Run`). What holds of one
step and is carried along a run by an ordinary invariant on the index needs the
induction rule of the natural numbers, which cannot be instantiated with an
operator. That every set of numbers has a smallest one can be used instead
(`SmallestMember`, from the well-foundedness of `<`): the induction is then about
the set of counterexamples, and so is every induction in these proofs. The step itself
is done bit by bit: an octet is the sum of its bits (`OctetOfBits`), the exclusive
or adds them modulo 2, a shift moves them and the polynomial touches three of
them (`ShiftBits`), so a step is linear (`TwiceIsLinear`) and loses nothing
(`LowTells`). `BothEndsAgree`: the two codes take the same step. `BurstsChangeTheCrc`:
two runs that differ at one place differ ever after while their octets agree; a
burst is at most three octets, and what the third one cannot undo of the first
is seen in the low bits.

**Fields.** `Places` are the offsets of a layout, proved to exist for every
layout; `WriteFields`, `ReadFields`, the `pack` and `unpack_from` of the Python
are then said field by field ("octet i of field k is octet i of its value"), and
from there on nothing is recursive. `InStep` says that a structure of the flight
dictionary and the one of that name on the ground have the same fields of the
same types in the same order; that is checked field by field for the whole
dictionary (`AllInStep`), because it is generated twice.

**Wire.** `WireInv`: what is coming down is at least a header and a CRC, and its
CRC checks exactly as long as no burst hit it; `Damage` is `BurstsChangeTheCrc`,
and a built packet checks by `OnlyTheCrcSeals`. An answer can be built because the
request it names came out of a decoded header (`Answerable`). `OrderInv` ties the
octets on the uplink, or after the drain the outcome, to the order;
`OrderIsUnderstood` is the one step in between. `ReportInv` does so for the
downlink; `EveryReportSays` is its step, kind of report by kind. `Stamped` reads
the headers back, both of them, and the time code. `TakenInv`: what is on the
wire still has its length (`Framed`), and is an order or telemetry or fails its
CRC; so one turn of the framing loop takes all of it, and parses it only if it was
an order that no burst hit. That needs the length field to have arrived
(`LengthArrives`, a condition on the steps of the burst and the one hypothesis that any
theorem here has beside `Spec`); see below for what happens without it.
`AnswerInv` adds that what comes down after an order is an answer that carries its
source and count.

Model-checked only:

* liveness (`KicksGoOn`, `EventuallyRead`, `CommandsGetThrough`,
  `PeerGoneIsNoticed`, `EveryWaitEnds`), for which the prover has no rules of
  fairness here;
* `OnlyOrdersAreTaken` and `AnswerNamesItsRequest` under bursts that hit a length
  field. `Wire_pass` has such bursts and both hold of all its orders; as statements
  about every order they are false. A damaged length makes the framing loop take
  fewer octets than were sent as a packet, and whether a CRC checks that was never
  meant as one is a matter of their values: a `SET_PARAM` whose value begins with the
  CRC that its first 13 octets have once a burst has flipped 0x18 in the length field
  is taken as a packet of 15 octets, and answered as one with bad arguments. No code
  can exclude this; it can only be made unlikely.

## 7. Not modelled

* Argument parsing, signals, console output; the static vector, whose limits are
  not reached (11 kinds of report of 32); floating-point rounding in `from_seconds`
  (for times in whole microseconds it never changes the tick).
* The octets of the stored parameter block: `ParamStore` has its content and where
  a write may tear it.
* `Task::total_us`, time stamps and `set_mission_time_s`, which nothing that is
  modelled reads (the last has no caller).
* The bus beyond a count of mode requests: each topic has at most one
  subscriber, made before the loop starts, and nobody publishes what the
  applications subscribe to.
* The mode manager and the simulator, which are READMEs at this commit; the
  OpenC3 plugin, the course material and the code generator.
* The other commands of the Python ground client, which print what `poll` yields
  (after the spacecraft closes, `monitor` polls the dead link in a busy loop),
  and the retries of `connect`. The ground of `Sessions` is any client at all.

## 8. Plan

Done so far: the modules of section 2, in the order main loop, parameter store,
ring buffer and event log, link, uplink, telecommands, housekeeping, ground
client, the application on its link, the wire with both of its ends.

Next, extending the model:

1. the ground's waiting for verification reports: `GroundClient` with the
   answers of `TtcApp` instead of parameter reports only;
2. the boot order of `main()` with the event log and the parameter load;
3. the bus, when an application of this repository publishes on it.

Every invariant and every action property that a run checks is stated by a
theorem, two of those of `Wire` for bursts that leave the length field alone. Next,
proving more: that `Uplink` composed with `TtcApp`'s whole packets is a refinement: a session
that is framed cleanly delivers the packets `TtcApp` receives.
