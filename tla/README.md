# pgov: specifications and proofs

pgov is an Android daemon that tunes CPU uclamp, scheduler and memory nodes from the
pressure the kernel reports through PSI.  This directory holds TLA+ models of it, TLC
configurations that check them on small instances, and TLAPS proofs of their main
invariants for every value of the constants.  Paths are relative to the repository
(`src/src/core/gov.c` is meant by *gov.c*).

Reading order: `SysfsOps`, `SysfsCache`, `Reactor`, `Governor`, `Lifecycle`; then
`TokenBucket`, `LogLimiter`, `PsiMonitor` and `ConfParser`, `PropOverrides`; then `FixedPoint`, `LoadDemand`,
`PollInterval`, `Pacing`; then `Tune`, `Mapping`, `Discovery`, `Thermal`.  `Sweep` stands alone.

## 1. The system

One process, one working thread (the reactor), no locks.  What makes it hard is not
threads but everything that happens *between* its steps: signals, crashes, a second
instance, a kernel that refuses writes, a display that turns on in the middle of a
cache sweep, applications that write the files being swept.

| component | source | state it keeps | operations | talks to |
|---|---|---|---|---|
| Event reactor | epoll.c | `next_wake`, `trg_fd`, `shutdown_req`, the batch | setup, wait, EINTR, signal, trigger, timeout | calls the handler, which sets `next_wake` and may close and replace `trg_fd` |
| Governor | gov.c | display state, PSI failures, ages of checks, thermal fallback, `remap_due`, filter flags | one function per concern, called in a fixed order by `pg_gov_process()` | PSI, sensors, sweep, mapping, reactor |
| Sysfs tunables | sysfs.c | `last`, `base`, `retry_ms`, `fails` per node | init, update, restore, cleanup | kernel nodes |
| Daemon lifecycle | daemon.c, main.c | `ctx`, `rs_tbl` of the crash hook | init, cleanup | everything else |
| Instance lock | lockfile.c | flock | take, release | daemon |
| Signals, crash hook | signal.c | blocked mask, one-shot hook | init, crash handler | restores nodes from `rs_tbl` |
| Boot wait, properties | prop.c | one slot per override | wait, set, capture, reset | property service |
| Configuration overrides | opt.c | `props[]`, `prop_count` | init, exit | parser, properties |
| Configuration parser | conf.c | line buffer, block, skip flag | parse | callback of opt.c |
| Idle cache sweep | sweep.c | `nr_entries`, `intr` | run | walker, display, PSI, uclamp of the daemon |
| Directory walker | fs.c | recursion | walk, dirent | sweep |
| Poll interval | poll.c | `cur_ivl`, `last_wait`, jitter seed | calc_next | governor |
| PSI monitor | psi.c | descriptors, last totals, last timestamp | open, read, parse, rates, trigger | governor, reactor |
| Demand and mapping | cpu.c, config.c | `psi_val`, `rate`, `prev_integ`, `psi_ref` | demand, gate, shaping | governor |
| Kalman filter | kalman.c | state, covariance | reset, update | demand |
| Thermal control | thermal.c | integral, saturation history | update | governor, calibrated by the one-time tuning |
| Sensors | sensor.c, scan.c | descriptors | discovery of zones, trip points, backlights; reads | governor, sweep, tuning |
| Log | log.c | token bucket | write | all |
| One-time tuning | tune.c, topo.c; block.c, task.c, memory.c, rlimit.c | `LIM_CPU`, `CFG_CPU`, `CFG_THERMAL`, the affinity of the daemon | calibration from cores, frequencies, capacities and the trip point; otherwise independent system calls | mapping, thermal control |

What makes each correct, and where it bites:

* **Reactor** – an EINTR moves a deadline by no more than the rounding of the time it measured; a batch may hold the shutdown signal
  and a trigger in either order; an event may name a descriptor the handler has closed.
* **Governor** – the suspension follows one uninterrupted dark period, ends soon after
  the display lights, and never lets the governor sleep forever; a lost trigger comes
  back; after missed samples the filter restarts; thermal values do not go stale.
* **Tunables** – `last` is what the node holds; failed writes back off on a wrapping
  32-bit clock without hammering and without never trying again; the value captured at
  start is put back.
* **Lifecycle** – with any crash, kill, failed start or second instance, no boot-time
  value is lost that could still be put back, and nobody captures another's tuned value.
* **Overrides** – undoing them restores the originals although lines repeat, change
  nothing or are refused; lines are never split or glued by the block boundaries.
* **Sweep** – it stops in time, reaches what it should, always puts its clamp back.
* **Poll interval, load demand** – jitter never makes a timely tick look late; the demand is an
  integrator whose time step is the interval it decides on: under a steady pressure it must come to rest.
* **PSI monitor, filter** – a rate divides a growth by the time it grew in, although samples fail,
  lose their total or follow a suspension; no estimate is continued across such a gap.
* **Log** – a burst is cut, no more and no less than the documented bucket does it,
  although the bucket is filled only when somebody looks.
* **Mapping** – six curves, clamps and roundings agree on a direction and stay in the limits
  calibrated for the device, whichever of its files can be read.
* **Tuning** – the daemon keeps off the fast cores although masks may be refused or files unreadable.
* **Sensors** – the zone measured does not hang on the order of the directory; a set point
  lies under a trip point that can be true, or is the default.
* **Thermal control** – no memory of the integral keeps a hot zone free or a cool one restricted;
  after a gap nothing learnt before it is held against the device.

`PROJECT.json` lists these hazards at the lines where they bite with the properties
that cover them.

## 2. Modules

| module | models | extends / composes |
|---|---|---|
| `SysfsOps` | the state changes of a `pg_sysfs_cache` as operators on the struct | – |
| `SysfsCache` | one tunable over candidate paths, clock and kernel | `SysfsOps` |
| `Reactor` | `pg_epoll_run()` with *any* handler: the abstract specification of the reactor and its handler | – |
| `Governor` | `pg_gov_process()` as the handler, one action per function | `Reactor`, whose actions it refines (`GovernorImplements`) |
| `Lifecycle` | several instances: start, lock, tuning, teardown, crash hook, kill | `SysfsOps` |
| `ConfParser` | block reads and line assembly | – |
| `PropOverrides` | the parser with the callback of opt.c and the undoing at exit | `ConfParser` |
| `Sweep` | `pg_sweep_run()` with the walker | – |
| `PollInterval` | `pg_poll_calc_next()` | – |
| `TokenBucket` | a bucket filled every millisecond: what the log promises | – |
| `LogLimiter` | `should_rate_limit()`, refilled at calls only | – |
| `PsiMonitor` | `pg_psi_read()`, its recovery, and where the Kalman filter starts anew; its failed reads are logged | `LogLimiter`; `Bucket == INSTANCE TokenBucket`, which it refines |
| `FixedPoint` | the Q16 arithmetic of math.h, with `One` for `Q16_ONE` | – |
| `Tune` | topo.c and the calibration of tune.c | `FixedPoint` |
| `LoadDemand` | the load demand of cpu.c with its coefficients, its integral and `pg_cpu_trans()` | `FixedPoint` |
| `Pacing` | `calc_demand()` and `gov_gate()`: the load demand and the interval it is integrated over | `PollInterval`, `LoadDemand`; implements `PollInterval` |
| `Mapping` | from a demand to the six requests of `apply_mapping()`, on a calibrated device | `Tune`, `LoadDemand` |
| `Discovery` | which thermal zone scan.c takes, and which trip point | `FixedPoint` |
| `Thermal` | `pg_thermal_update()` on a calibrated device, from the boot on | `Tune`, `Discovery` |
| `SysfsCacheProofs`, `GovernorProofs`, `LifecycleProofs`, `SweepProofs`, `DemandProofs`, `PropOverridesProofs`, `PsiMonitorProofs`, `ThermalProofs` | theorems | the module of the name (`GovernorProofs`: `Reactor` too; `DemandProofs`: `Pacing` and `Mapping`), `TLAPS` |
| `MCSysfsCache`, `MCGovernor`, `MCLifecycle`, `MCSweep`, `MCPacing`, `MCMapping`, `MCThermal` | values for model checking | |

`PROJECT.json` maps every definition to the lines it translates.  An operator that no
other definition uses (`TeardownUnlockFirst`, `LineRestarted`, …) and that stands just
before one of the same shape is that definition's *mutant*: a plausible mistake that
makes the property named in `PROJECT.json` fail.

### How state and actions correspond to the code

* **SysfsCache**: `cache` is `struct pg_sysfs_cache`, `node` what the kernel holds per
  path.  `UpdateSkip` is both early returns of `pg_sysfs_update()` (backoff, change
  detector); `UpdateOk` and `UpdateFail` are the write and all the fields set after
  it; a short write changes the node although it counts as failed.  `now` is
  the millisecond clock modulo `Wrap`, compared by signed difference as in the code.
* **Reactor**: `phase` is the place in `pg_epoll_run()`; `EnterWait`, `WaitReturns`,
  `Timeout`, `Interrupted`, `HandleSignal`, `HandleTrigger`, `BatchDone` are the branches
  of the loop.  A run of the handler is the steps between `phase = "run"` and
  `HandlerReturns`; inside it the trigger may be opened, registered, removed, closed and cleared in
  single calls, as long as no open one is lost sight of; the handler returns with it whole.  `Elapse` is time:
  `next_wake` counts milliseconds and the clock `StepsPerMs` steps in each, so that `Measured` can round as
  `pg_dt_sec()` and the shift after it do (down, or up where the second changes in between).
* **Governor**: `pc` walks the functions in their order (`Display`, `Suspended`, `Sweep`,
  `ReadPsi…`, `LoseTrigger`, `PsiRecov`, `ArmTrigger`, `PollBattery`, `PollThermal`, `Gate`, `ApplyMapping`, `Return`).
  Losing a trigger is three steps (remove, close, clear) and arming one is opening it, registering it and, when
  that fails, undoing both; a removal may fail.  Time stamps are
  kept as ages that saturate beyond the threshold they are compared with.  The demand is
  left free: any poll interval of the range and any answer of the gate.  `Setups` gives the builds and modes
  tried: only the NDK build sweeps while suspended and watches the display while dormant.  `ReadDisplay` reads every
  panel: lit, dark or failed, each on its own.
* **Lifecycle**: `pc[p]` is the place of instance `p` in `pg_daemon_init()` or
  `cleanup_context()`; `snap[p]` is `rs_tbl`.  A crash may come at every step of a living
  instance; `CrashWrite` is the hook's loop.  `Kill` is SIGKILL.
* **PropOverrides**: a character is a newline or not; what a completed line says is
  chosen when it reaches the callback.  `slots` is `props[0..prop_count-1]`.
* **Sweep**: `stack` is the recursion of `walk()`, each frame the entries not read yet.
  `Start` is the whole opening of a sweep, the early return of a clock that has not been set included.
  `Unlink` is a step of its own after `VisitFile`, so an application may write in between.
* **PollInterval**: `Tick` is one call, in the Q16 arithmetic of `pg_dt_sec()`, with any input.  `Measured` rounds down;
  where the second changes in between, a whole number of milliseconds is measured exactly, which lies within its error.
* **LoadDemand**: a reading is what `pg_psi_read()` and the sensors give a run; `break` says whether the
  filter's innovation is past its threshold.  The operators follow `pg_cpu_calc_load_demand()` step by step.
* **Pacing**: `Run` is one pass of `calc_demand()` and `gov_gate()`, `elapsed` after the last (a trigger
  at once, a timeout on time or late); it takes no time itself.  `remap` stands for `remap_due`.
  `Settle` is the environment, as in Thermal; `turn` is a history variable that every run turns over.
* **PsiMonitor**: `Sample` is a successful `pg_psi_read()` with `pg_kalman_update()`, `ReadFails` and
  `ReadNoLine` a failed one, after which the governor always runs `Recover`.  Time stamps
  are ages and totals are growths since the total used last; `Measured` is the time a rate divides by,
  some microseconds (`Slip`) off since it passes through Q16.  The estimate is left out.
  `quiet` of the log saturates at the credit's maximum, past which it makes no difference.
* **Mapping**: the operators carry the code's constants, with `One` for `Q16_ONE`.  `MappingInit` runs the
  calibration on a device: `pinned` is the affinity, `lim` is `LIM_CPU`, `cfg` is `CFG_CPU`.  `MappingNext` moves
  from any input to one where a single source (pressure, temperature, battery) has a new reading.
* **Tune**, **Discovery**: a device is what its files say, a directory a sequence of zones in the order
  `readdir()` happens to list them; an unreadable file is a value of its own.  The loops with
  their early exits are the least element of the set of what they would stop at.
* **Thermal**: `Boot` is the discovery and `tune_thermal_configs()`, where the temp node of the zone found may
  fail to open; `dir` is dropped after it, as nobody looks again.  `Update` is one `pg_thermal_update()`: the Kalman filter's estimate and velocity are any
  (zero degrees without a sensor, no velocity when the filter starts anew), since Governor decides which
  readings are used.  `pid` is `struct pg_thermal_state` with `prev_sat` as "was full".  `Settle` is the
  environment: from then on the same reading comes, so that the recovery can be stated.

## 3. Runs

Twelve runs, one per question; a type invariant that is a theorem is not checked again by a run.  Constants are small where the code's numbers only set a
scale; every bound is a named constant of its module.

| run | question | bounds and why they suffice |
|---|---|---|
| `sysfs_cache` | does a tunable track, back off, recover and restore? | 2 candidate paths (a first that does not open, a second that does), 3 values, backoff 1–2 on a clock of 6: a pending backoff can lie on either side of the wrap; `FailMax` 3 is one past the cap of the shift |
| `reactor` | is the reactor right for any handler? | 2 trigger descriptors (a stale event for one while the other is armed, or the number reused), waits up to 3 ms on a clock of half milliseconds (a measured wait can lose a step), 2 EINTRs per wait, 3 steps late: enough for the 1 ms floor to be reached from above and from zero, and for the rounding of two EINTRs to add up |
| `governor` | display, PSI, trigger, thermal and sweep of a governor of either build, active or dormant, with or without a cpu sensor; is it a handler the reactor can trust? is a trigger ever lost sight of, and does a lost one come back? | thresholds of one or two steps, each check due or not independently; every call on the trigger succeeding or failing; a clock of whole milliseconds, each measurement short by one or right; one late wake-up, one EINTR, runs of one step, two panels; the refinement `ImplementsReactor` (every step of the governor is a step of `Reactor`, or none) is checked as a property |
| `lifecycle` | is any boot-time value lost with two instances? | 2 instances, 2 nodes (one restored, one not yet, when a crash comes), symmetric in the instances |
| `prop_overrides` | does the exit undo any file? | 4 slots over 2 properties of 3 values: one name twice with an ineffective line between; `LineSz` 4, `BufSz` 3: lines shorter, equal and longer than the buffer, cut anywhere |
| `sweep` | does a sweep stop in time, reach everything, end? | two roots, a nested package with a directory at the depth limit, a thumbnail directory; a probe each 3 entries instead of 1024; display and load may change at any step |
| `pacing` | does jitter ever make a timely run look late? does the governor stop following a pressure that stands still, and relax without one? | the code's intervals up to 1000 instead of 10000 ms, a fixed point of 10 bits and roots of 15 (with 14 the steepest readings would ask for more, which `ReadingAssumption` refuses); triggers, timely wake-ups, ones 200 ms late and just later; two runs on any of six readings (none, light, climbing, jumping, falling, hot and nearly empty), then one of six that stay, with a battery of 20 % or more |
| `psi_monitor` | are rates honest, filters fresh and the log limited? | samples up to twice the age at which the filter starts again; a bucket of two messages that can be empty, partly and fully refilled; a rate cut below what one step of stall can reach |
| `mapping` | do the requests stay in limits and pull one way? does the daemon keep off the fast cores? | the limits and coefficients of config.c in a fixed point of 8 bits; four devices: two clusters with a core without a capacity, a small one without any, one with nothing readable, one with more cores than a mask has room for, and its little ones not usable; demands, velocities and scales on both sides of every bend; every change of one source |
| `thermal` | does the control restrict a hot zone, free a cool one, forget across a gap? are zone and set point the right ones? | every order of up to three zones out of eight (listed, CPU-like, denied, other, unreadable) where two fit in the table; trip points that are unreadable, impossible, behind another kind, behind the last one tried, and so low that the floor of 45 degrees applies; three set points with readings below, just above and far above them, cooling, steady and heating, with the battery on both sides of its limit; 7 bits of fraction, drain strengthened at most twice instead of 50 times |

`sysfs_cache`, `reactor`, `governor`, `sweep`, `pacing` and `thermal` check liveness.
The reactor may stop for good (`done`, `failed`), and so may the governor in it, the cache
after its cleanup and the overrides after the exit: those runs have deadlock checking off.
The others never stop and are checked for deadlock.

Two runs are expected to be violated: documented statements the code does not keep.

| run | documented | code |
|---|---|---|
| `prop_slots` | CONFIGURATION.md:57, up to 64 properties, then lines are skipped | opt.c:23 counts successful lines, also those that repeat a property or change nothing |
| `thermal_bleed` | ARCHITECTURE.md:398, the integral bleeds off via anti-windup whenever the output is out of range | thermal.c:80: below the range the excess is negative, so `integ -= drain` enlarges a positive integral (0.9 becomes 18.9 on a device that cools from 58 to 35 degrees); above the range a negative one is pushed further down |

### Fairness

Safety is checked without fairness.  For liveness:

* **Reactor, Governor**: weak fairness of the loop and of time, and a handler that always returns (`[]<>(phase # "run")`; fairness
  of its steps would not do, as a handler that may do anything may also go on for ever): the kernel schedules the thread, no handler loops for ever, the clock
  runs.  Of the governor's handler this asks that its steps go on.  Nothing is assumed of signals, pressure, the display or the kernel's health.
* **SysfsCache**: weak fairness of the clock; strong fairness of `Repeat`, the governor's asking again for the very value it
  asked for last: every `PG_THERM_CHK_SEC` a thermal update sets `remap_due` (gov.c:175), and the demand is mapped anew, moved
  or not, while the display is on.  The backoff's windows are open for 2^31 ms, so a repetition meets one.
  Nobody is assumed to ask for a value that writes: `Recovers` speaks of a request that stays the same, and
  excepts the repetition that is suppressed after a short write (section 6).  Nothing is assumed of
  a kernel that refuses; the property only speaks of one that has stopped refusing.
* **Sweep**: weak fairness of the sweeping thread while it runs.
* **Pacing**: weak fairness of the runs of a settled device: every wait ends, which `WakeArrives` of the
  reactor provides.  It is stated over `turn`, which only a run changes.
* **Thermal**: weak fairness of the update once the device has settled: the governor returns to it every
  `PG_THERM_CHK_SEC` while the display is on.

## 4. Proofs

TLAPS (SMT, Zenon, LS4) checks every theorem to its leaves; nothing is assumed but the
named `ASSUME`s on the constants, which TLC evaluates in the runs.  They say what the code's own
constants and files satisfy: positive sizes and intervals, a clock that wraps beyond twice the longest backoff, a tree
whose entries have one kind each, descriptors apart from "none", devices whose files hold integers, the limits of config.c in order
(`LimitAssumption`), demands and scales not below zero (both are clamped), readings of the types the sensors give with a
thermal scale above zero and at most one (`ReadingAssumption`, which is what `thermal.c` returns), and roots of as
many bits as the coefficients and the velocities ask for (`RootAssumption`, `RootFits`; the 64-bit root of math.h has them).

Every invariant a run checks is a theorem, and so is every action property but `PullsOneWay`.

* **SysfsCacheProofs** – `TypeOK`, `Tracking`, `LastIsNode`, `RestoreBringsBack` for any number of
  paths, values, detectors, backoff and modulus.  The operators of `SysfsOps` get their own
  lemmas (a detector that has just seen its target written stays silent); the
  inductive argument joins the belief `last` to the node it is about.
  `BackoffReopens` and `NoHammering` rest on `BackoffClock`: the history of the time since the last attempt,
  kept up to `Horizon`, and the distance on the wrapping clock add up to the delay.  `Ahead`, `ClockSet` and
  `ClockMoves` are that modular arithmetic.
* **GovernorProofs** – first the reactor with any handler: `TypeOK`, `DeadlineKept`,
  `NoRunAfterShutdown`, `NoEarlyTimeout`, `Overslept`.  `ReactorInv` adds what the loop knows at each
  phase: the history is reset on return (`Fresh`), no shutdown is pending in a run (`NotStopping`), the
  signal in a batch is unread, a batch is of use.  Without these, a batch left over from an earlier wait
  could start a run after the shutdown.  The deadline rests on the arithmetic of the measurement: the rounding in Q16
  and the one to milliseconds together miss at most `MaxMissed` steps and add at most `MaxAdded` (`MeasuredWithin`), so
  every EINTR moves what is due by that much (`DueInterrupted`, `LateInterrupted`).
  Then the governor: that it implements `Reactor` (`GovernorImplements`:
  each of its functions is a handler step, its last one the return with a `next_wake` the reactor may
  wait for), so that the reactor's promises hold of it (`GovernorInherits`), and `TriggerWatched`, `GovernorTypeOK`, `ThermalMapped`,
  `ThermalFallback`, `SuspendAfterGrace`, `FilterRestarts`, `ResumeInTime`.  Each needs its own strengthening over the places of a run:
  which of its descriptors is open, watched or only remembered at each place between losing a trigger and arming the
  next (`TriggerInv`),
  what `remap_due` promises between the thermal update and the mapping, which failures `temp_fails` has counted, that
  the time stamp of the dark period is no older than the last reading that found it lit, that a monitor is open only with a filter
  that will restart.  `ResumeInTime` is about a whole wait: the wake-up planned, shortened by what the run is measured to have taken,
  plus what the reactor may oversleep (`Overslept`) bounds how long a panel was lit unseen.
* **LifecycleProofs** – `TypeOK`, `BootValuesBack`, `CapturesBoot`, `HookStillOwns` for any number of
  instances and nodes.  `LifeInv` says for each place in the start and the teardown what
  the instance still holds (`Placed`), that captured values are boot-time values
  (`AllCaptured`), and that the holder of the lock either has a node at its boot-time value or
  knows what it holds and has its base, unless the value is lost to everybody (`NodesHeld`).
  `BootValuesBack` alone speaks only of the moments nobody holds the lock and is not inductive:
  what brings the values back is what the holder knew before.  Other instances are dealt with
  by one frame lemma: a step of one instance touches nodes only while it holds the lock.
* **SweepProofs** – `PreemptsInTime` for any tree, depth and probe distance; `PreemptInv` bounds the
  entries examined since the display could have been noticed by the entry counter, and adds
  that a preempted sweep has left every directory at once, so that it examines none any more.
  `TypeOK`, with the bound of the walk's depth, follows from the library's facts about sequences.
  `SweptClean` says that nothing the sweep owed is left; its invariant (`CleanInv`) says of every moment
  that what is owed lies in what remains to be walked (`Owed`): the entries of the open directories, all that
  is reachable under those not opened yet, and the roots and packages to come.  Reachability within a depth
  is a property of paths (`Ways`, `Reach`); opening a directory replaces what is under it by its entries (`OpenShows`).
  Since a failed listing ends the whole walk, what is pending lies under the directory it began with (`UnderTop`).
* **DemandProofs** – the pace, the mapping and the demand itself.  `TypeOK`, `PaceKept` for any limits, step, tolerance, rounding and jitter:
  the Q16 conversion loses at most a millisecond and never adds one (`MeasuredBound`).  Every step of
  `Pacing` is a tick or none (`PacingImplements`), whatever the demand does, so both carry over to it.
  `KeepsOffFastCores` for any number of cores, any of them unreadable or denied, and any room in a `cpu_set_t`;
  the scan of topo.c is a loop, and what holds of it is shown over its course: `LoopExists` gives the values
  it takes round by round, `Counting` that what each round keeps holds after all of them.  (Both follow from the
  well-foundedness of the naturals; the library's induction theorems cannot be instantiated here.)
  `InLimits` for every device, fixed point and input: the calibration leaves the limits in order (`Ordered`), as each pair of them is
  interpolated by one index between ends in order; every request is clamped to them, and the
  rounding moves it by half a step at most (`QuantNear`) and keeps the granularity below the latency (`QuantMonotone`).
  That all quantities on the way are integers needs that a square root is never zero (`SqrtPositive`).
  `FollowsTrend`: the requests pull one way as long as the trend of the pressure does; each curve and each rounding is
  shown to be monotone (`SigmoidRises`, `DecayFalls`, `MigrationRelaxes`, …).
  Then what `cpu.c` computes.  `SqrtExact`: the root found bit by bit is the largest whose square is not above the argument;
  each round keeps a root that is good so far and less than a power of two too small (`BetterAbove`, `Rounds`).
  Since that root is rounded *down*, that a velocity divided by it never exceeds one is no matter of course: `TrendShare`.
  The products and quotients taken apart to fit TLC's integers are the exact ones of the code (`WideMulExact`, `WideDivExact`).
  `DemandHeld`, an inductive invariant with the type invariant of the pace and the range of `settled`: the demand stays in 0–500
  with a rate that is a number, the integral in what an empty battery adds, and the wait within `MaxPoll`.
  Its step is the whole of `pg_cpu_calc_load_demand()`: each coefficient is bounded (`EffRange`, `HeatRange`,
  `StiffnessRange`, `DepletionRange`), and so the damper's root fits its bits (`DamperRootExact`) and every divisor,
  `tau`, the damper's load, the slowed mass and the roots of the trend and of the cooling, is above zero.
* **PropOverridesProofs** – `TypeOK`, `LinesWhole`, `OldestIsOriginal`, `OverridesUndone` for every buffer
  size, number of slots, set of properties and values.  `PropInv` adds `Untouched`: a property
  without a modified slot, and whose last reset was accepted, holds its original.
* **PsiMonitorProofs** – `TypeOK`, `FilterContinuous`, `RateHonest` and the whole refinement
  `ImplementsBucket`, for any bucket, age limit and rate limit.  `Joined` keeps stamp and
  total together: they part only at a line without its total, and what broke a run of samples is still
  to be read again, reopened or filtered anew.  For the bucket, `LogErrTakes` and `LogElapseFills`
  say what a call and a millisecond do to the credit a call would find.
* **ThermalProofs** – `TypeOK`, `HotRestricts`, `GapForgets`, `MeasuresBest`, `SetPointTrusted` for any fixed
  point, device, readings, gaps and directories.  That the gains are in range follows from the files of the
  device (`ThermRange`).  Since the anti-windup may leave the range, the integral
  is not bounded by an invariant; what the proof uses is that an update clamps it before it is used
  (`Accumulated`), so the proportional term outweighs it.  `TypeOK` is inductive on its own;
  that `Div`, `Mul` and `Clamp` stay integers and in order are lemmas.  The choice of a zone is
  the least of a set, which exists by well-foundedness of the order on the naturals.  `SetPointTrusted` is about the step
  that calibrates: the trip point found is the default or a trusted one (`TripTrusted`), and the bounds leave the
  default's set point alone (`DefaultSetPoint`).

`NoEarlyTimeout`, `LastIsNode`, `OldestIsOriginal` and `FollowsTrend` are proved only; the runs check
`DeadlineKept`, `Tracking`, `OverridesUndone` and `PullsOneWay`, which say more of the same state.
`DemandHeld` is proved only as well; `Settles` and `Rests` of the `pacing` run hang on the same demand.

Model-checked only:

* Liveness, which is outside the prover's reach: `SignalStops`, `WakeArrives`, `TriggerRearmed`, `SweepEnds`, `Recovers`
  (of the tunables and of the thermal control), `Settles`, `Rests`.
* `PullsOneWay`, which the run checks on its grid of inputs, is not true of every fixed point: the root in `AlgSig` is rounded
  down, so between two velocities a unit apart the trend may gain a unit as the velocity falls (in Q16 `AlgSig(67195)` is 46917
  and `AlgSig(67196)` is 46916), and a request may lie on a rounding boundary.  `FollowsTrend` is what remains true.

Time is bounded in the model of the PSI monitor (`MaxGap`), so its theorems hold for every bound, not for unbounded time.

## 5. Not modelled, and why

* The estimate of kalman.c: feedback over 64-bit Q32 intermediates, beyond TLC's integers, and an
  estimate of any value is what the models that take one allow.  Its control (when it
  runs, when it restarts, from which reading) is in `Governor` and `PsiMonitor`.
* A `pg_task_set_uclamp()` that fails in the sweep, and the count of messages dropped that the log reports.
* The width of the fixed point.  Products and quotients are rounded as `q16_mul()` and `q16_div()` round them, but on integers
  without a width.  `DemandHeld` bounds the demand, the integral and the wait far inside 32 bits; it gives the rate no
  bound, so that the rate never leaves 32 bits in a long series of pushes is not shown.  Devices whose files would overflow
  the calibration (a total capacity or a frequency in MHz from 32768 on) are left out by `WidthAssumption`.
* How the numbers of a PSI line are parsed; a line has its total or it has not.
* Which substrings make a name CPU-like or denied (scan.c): the names carry it.  How a reading in
  milli-, deci- or whole degrees is scaled (sensor.c).
* Block devices (block.c), process placement and limits (task.c, rlimit.c, memory.c): system calls whose failure
  is logged and ignored, with no state kept and nothing read back.
* Number parsing and formatting; how a line is cut into key
  and value.  Other processes setting the overridden properties or nodes meanwhile.

## 6. Observations

Behaviour met while modelling, described as it is.  Where a document says otherwise, the item says so.

* A failed backlight read counts as dark in the sweep (sweep.c:57) and as lit in the
  governor; a display that cannot be read never preempts a sweep.  ARCHITECTURE.md:341–343 says that failed backlight
  reads count as display-on, which the sweep does not keep; no run is spent on it, as one line shows it.
* A short write moves a node although `last` keeps the value before it (sysfs.c:273–280).  If the demand returns to
  that value, every repetition is suppressed (sysfs.c:253–266), and the node keeps the value of the short
  write until the demand moves out of tolerance.
* A trip point of 40 to 45 degrees is accepted (sensor.c:269), but the set point is 45 at least (tune.c:136–138): it lies at the
  trip point or above.
* A wait that an EINTR ends is measured in whole milliseconds, rounded down twice (epoll.c:27–28): 7 ms may count as 6, and less than one
  as none.  Each EINTR may so put off the deadline by up to about a millisecond, which `DeadlineKept` bounds by the number of EINTRs;
  a stream of them closer than a millisecond apart postpones it for as long as it lasts.
* The sweep looks at neither the signalfd nor the reactor: a SIGTERM waits for its end.
* An error while reading a nested directory ends the walk of its whole cache directory.
* Between `fstatat()` and `unlinkat()` an application may rewrite the file; the new one is deleted.
* After SIGKILL nothing is put back (only a crash signal runs the hook), so the next
  instance captures the tuned values as its base (sysfs.c:48): the values of the boot are gone.
* With several panels a failed read of one is ignored as long as another can be read
  (sensor.c:239): a lit panel may count as dark.
* The trip point comes from the first zone that qualifies (scan.c:318–350), the temperature
  from the zone of the best priority (scan.c:212–216): they may be different zones.
* The integral of the thermal control is not clamped again after the anti-windup drain
  (thermal.c:87–91), and may end an update below −50; the next one clamps it before use.
* The boot wait polls 301 times (prop.c:16 counts with `<=`) where ARCHITECTURE.md:261 says up to 300.
* A PSI line without `total=` moves `last_read_ts` but not the total: the next rate divides
  the growth of two periods by one.
* The poll interval settles within one step of the maximum rather than at it: the
  hysteresis accepts steps of its threshold or more.
* Spring and damper of the load demand are scaled by the battery's level.  At an empty battery both are
  zero, and the demand keeps its last rate until it meets 0 or 500, or a new pressure replaces it.
* ARCHITECTURE.md:455 calls the load demand overdamped.  Its least damping follows the spring alone; the
  integral, which grows as the battery empties, stiffens the system: near 20 % it overshoots, and still settles.

## 7. Plan

Done: every module of the table above, the refinements `ImplementsReactor`, `ImplementsBucket` and that of `PollInterval`
by `Pacing`, the runs, a theorem for every invariant they check, and one for the range of the demand.  Next, in this order:

1. `parse_line()` and the number parser as functions over short inputs.
2. The scheduler and queue choice of block.c over which of its writes are refused.
