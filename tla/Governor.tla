------------------------------- MODULE Governor -------------------------------
(***************************************************************************)
(* The governor of src/core/gov.c running in the reactor of                *)
(* src/core/epoll.c, which is Reactor.  pg_gov_process() is the handler    *)
(* that module leaves open; each of the functions it calls is an action,   *)
(* taken in the order of the code by the program counter pc while          *)
(* phase = "run".                                                          *)
(*                                                                         *)
(* Timestamps (last_disp, last_dispoff, last_bat, last_therm, last_sweep)  *)
(* are kept as ages, which stop growing once past the threshold they are   *)
(* compared with; pg_dt_sec() saturates in the same way.  The demand the   *)
(* governor computes from PSI is left to PollInterval and the cpu modules: *)
(* here it decides the next poll interval and whether the load is moving,  *)
(* both chosen freely.                                                     *)
(***************************************************************************)
EXTENDS Reactor

CONSTANTS
  Setups,       \* NDK_BUILD defined, no node to tune found, a cpu thermal zone found
  MinPoll,      \* PG_MIN_POLL_MS
  MaxPoll,      \* PG_MAX_POLL_MS
  TransPoll,    \* CFG_CPU.trans_poll
  SuspendWake,  \* the 5000 of update_disp()
  DispChk,      \* PG_DISP_CHK_SEC
  Grace,        \* the 10 s of update_disp()
  BatChk,       \* PG_BAT_CHK_SEC
  ThermChk,     \* PG_THERM_CHK_SEC
  SweepIvl,     \* PG_SWEEP_IVL_SEC
  PsiBase,      \* the 1000 of read_psi()
  PsiCap,       \* the 30000 of read_psi()
  PsiFailMax,   \* PG_PSI_FAIL_MAX
  TempFailMax,  \* PG_TEMP_FAIL_MAX
  Panels,       \* ctx->bl_sensor, the backlights found at start
  CalcTimes,    \* how long a run of the governor may take
  SweepTimes,   \* how long pg_sweep_run() may take
  LitCap        \* where the history litFor stops counting

ASSUME PollAssumption ==
  /\ MinPoll \in Nat \ {0} /\ MaxPoll \in Nat /\ MinPoll <= MaxPoll
  /\ TransPoll \in Nat \ {0} /\ SuspendWake \in Nat \ {0}
  /\ MaxPoll <= MaxWake /\ TransPoll <= MaxWake /\ SuspendWake <= MaxWake
ASSUME PsiAssumption ==
  /\ PsiBase \in Nat \ {0} /\ PsiCap \in Nat \ {0} /\ PsiFailMax \in Nat \ {0}
  /\ PsiCap <= MaxWake
ASSUME ThresholdAssumption ==
  /\ DispChk \in Nat /\ Grace \in Nat /\ BatChk \in Nat /\ ThermChk \in Nat
  /\ SweepIvl \in Nat /\ TempFailMax \in Nat
  /\ CalcTimes \subseteq Nat /\ CalcTimes # {} /\ SweepTimes \subseteq Nat /\ LitCap \in Nat
ASSUME SetupAssumption == Setups \subseteq BOOLEAN \X BOOLEAN \X BOOLEAN

VARIABLES
  pc,           \* where pg_gov_process() is
  ndk,          \* the build: NDK_BUILD defined
  dormant,      \* ctx->dormant
  cpuSensor,    \* ctx->cpu_temp_sensor.fd >= 0
  disp,         \* ctx->disp_state
  psiOpen,      \* ctx->psi.fd >= 0
  psiFirst,     \* ctx->psi.first_run: the next sample restarts the filter
  psiFails,     \* ctx->psi_fails
  tempFails,    \* ctx->temp_fails
  thermal,      \* what ctx->cached_th_scl was computed from
  remapDue,     \* ctx->remap_due
  ageDisp, ageOff, ageBat, ageTherm, ageSweep,  \* now - the timestamps
  spent,        \* time this run has taken so far
  panel,        \* environment: a panel is lit that a reading does not miss
  healthy,      \* environment: PSI reads, opens and triggers succeed from now on
  litFor,       \* history: for how long a suspended governor has left a lit panel unnoticed
  onSeen,       \* history: time since a reading found it lit, or since the start
  gap,          \* history: samples were missed since the last one filtered
  tempLost,     \* history: consecutive failed cpu temperature reads
  unmapped      \* history: a thermal update has not reached the nodes

bootVars == <<ndk, dormant, cpuSensor>>
dispVars == <<disp, ageDisp, ageOff, onSeen>>
psiVars == <<psiOpen, psiFirst, psiFails, gap>>
thermVars == <<tempFails, thermal, remapDue, ageTherm, tempLost, unmapped>>
otherAges == <<ageBat, ageSweep>>
envVars == <<panel, healthy, litFor>>
handlerVars == <<pc, bootVars, dispVars, psiVars, thermVars, otherAges, spent, envVars>>
governorVars == <<vars, handlerVars>>

Cap(n, bound) == IF n < bound THEN n ELSE bound

Places == {"disp", "doze", "suspend", "sweep", "psi", "remove", "close", "clear", "recov",
           "arm", "watch", "undo", "unset", "bat", "batarm", "batwatch", "batundo", "batunset",
           "therm", "gate", "map", "return"}

GovernorTypeOK ==
  /\ TypeOK
  /\ pc \in Places \cup {"idle"}
  /\ ndk \in BOOLEAN /\ dormant \in BOOLEAN /\ cpuSensor \in BOOLEAN
  /\ disp \in {"UNKNOWN", "ON", "GRACE", "SUSPEND"}
  /\ psiOpen \in BOOLEAN /\ psiFirst \in BOOLEAN
  /\ psiFails \in 0..PsiFailMax
  /\ tempFails \in 0..TempFailMax
  /\ thermal \in {"none", "live", "blind"}
  /\ remapDue \in BOOLEAN
  /\ ageDisp \in 0..DispChk /\ ageOff \in 0..(Grace + 1)
  /\ ageBat \in 0..BatChk /\ ageTherm \in 0..ThermChk
  /\ ageSweep \in 0..(SweepIvl + 1)
  /\ spent \in Nat
  /\ panel \in BOOLEAN /\ healthy \in BOOLEAN
  /\ litFor \in 0..LitCap /\ onSeen \in 0..(Grace + 1)
  /\ gap \in BOOLEAN /\ tempLost \in 0..(TempFailMax + 1) /\ unmapped \in BOOLEAN

\* The context as pg_daemon_init() hands it to pg_epoll_run(): an active governor
\* has its trigger, a dormant one none.
GovernorInit ==
  /\ Init
  /\ pc = "idle"
  /\ \E s \in Setups : ndk = s[1] /\ dormant = s[2] /\ cpuSensor = s[3]
  /\ dormant <=> trg = NoFd
  /\ disp = "UNKNOWN"
  /\ psiOpen \in BOOLEAN /\ psiFirst = TRUE /\ psiFails = 0 /\ gap = FALSE
  /\ tempFails = 0 /\ thermal = "none" /\ remapDue = FALSE
  /\ ageDisp = DispChk /\ ageOff = Grace + 1
  /\ ageBat = 0 /\ ageTherm = 0 /\ ageSweep = 0
  /\ spent = 0
  /\ panel \in BOOLEAN /\ healthy = FALSE
  /\ litFor = 0 /\ onSeen = 0
  /\ tempLost = 0 /\ unmapped = FALSE

-----------------------------------------------------------------------------
(* Time *)

\* All ages but the sweep's grow by d.
Advance(d) ==
  /\ ageDisp' = Cap(ageDisp + d, DispChk)
  /\ ageOff' = Cap(ageOff + d, Grace + 1)
  /\ ageBat' = Cap(ageBat + d, BatChk)
  /\ ageTherm' = Cap(ageTherm + d, ThermChk)
  /\ onSeen' = Cap(onSeen + d, Grace + 1)
  /\ litFor' = IF panel /\ disp = "SUSPEND" THEN Cap(litFor + d, LitCap) ELSE 0

TimePasses ==
  /\ Elapse
  /\ Advance(1)
  /\ ageSweep' = Cap(ageSweep + 1, SweepIvl + 1)
  /\ UNCHANGED <<pc, bootVars, disp, psiVars, tempFails, thermal, remapDue,
                 tempLost, unmapped, spent, panel, healthy>>

-----------------------------------------------------------------------------
(* Entering and leaving pg_gov_process() *)

FirstStep == IF dormant /\ ~ndk THEN "doze" ELSE "disp"

ReactorStep ==
  /\ \/ SetupOk \/ EnterWait \/ Exit \/ WaitReturns \/ Timeout
     \/ HandleSignal \/ HandleTrigger \/ BatchDone
  /\ pc' = IF phase' = "run" THEN FirstStep ELSE "idle"
  /\ UNCHANGED <<bootVars, dispVars, psiVars, thermVars, otherAges, spent, envVars>>

\* The wake-up is moved forward by the milliseconds measured for the run; dormant_tick()
\* does not.
AdjustedUnfloored(wake, took) == IF dormant THEN wake ELSE wake - took
Adjusted(wake, took) ==
  IF dormant THEN wake ELSE IF wake - took > 0 THEN wake - took ELSE 1

Return(calc) ==
  /\ pc = "return" /\ phase = "run"
  /\ phase' = "dispatch"
  /\ \E took \in Measured(spent + calc) : nextWake' = Adjusted(nextWake, took)
  /\ planned' = nextWake' /\ asleep' = 0 /\ intr' = 0
  /\ UNCHANGED <<batch, shutdown, trg, opened, registered, fired, signal, slept>>
  /\ pc' = "idle" /\ spent' = 0
  /\ Advance(calc)
  /\ ageSweep' = Cap(ageSweep + calc, SweepIvl + 1)
  /\ UNCHANGED <<bootVars, disp, psiVars, tempFails, thermal, remapDue, tempLost,
                 unmapped, panel, healthy>>

\* Steps of the handler between its first and its return.
Goto(step) == phase = "run" /\ pc' = step /\ UNCHANGED <<phase, batch, shutdown, signal, slept, planned, asleep, intr>>
KeepTrigger == UNCHANGED <<trg, opened, registered, fired>>
KeepRest ==
  UNCHANGED <<nextWake, bootVars, dispVars, psiVars, thermVars, otherAges, spent, envVars>>

-----------------------------------------------------------------------------
(* update_disp() and dormant_tick() *)

AfterDisplay == IF dormant THEN "doze" ELSE "psi"

\* While the display is on, it is read once per DispChk.
SkipDisplay ==
  /\ pc = "disp" /\ disp = "ON" /\ ageDisp < DispChk
  /\ Goto(AfterDisplay) /\ KeepTrigger
  /\ UNCHANGED <<nextWake, bootVars, dispVars, psiVars, thermVars, otherAges, spent,
                 envVars>>

\* Which state a reading leads to.
DisplaySwapped(on) ==
  CASE disp = "SUSPEND"                       -> "SUSPEND"
    [] disp # "SUSPEND" /\ on                 -> "ON"
    [] ~on /\ disp \in {"ON", "UNKNOWN"}      -> "GRACE"
    [] ~on /\ disp = "GRACE"                  -> IF ageOff > Grace THEN "SUSPEND" ELSE "GRACE"
Display(on) ==
  CASE on                                -> "ON"
    [] ~on /\ disp \in {"ON", "UNKNOWN"} -> "GRACE"
    [] ~on /\ disp = "GRACE"             -> IF ageOff > Grace THEN "SUSPEND" ELSE "GRACE"
    [] ~on /\ disp = "SUSPEND"           -> "SUSPEND"

\* last_dispoff is taken when the display is first seen off.
OffAgeKept(on) == ageOff
OffAge(on) == IF ~on /\ disp \in {"ON", "UNKNOWN"} THEN 0 ELSE ageOff

\* psi.first_run is set when the display is first seen on.
FilterKept(on) == psiFirst
FilterAfter(on) == psiFirst \/ (on /\ disp # "ON")

\* The brightest panel that could be read is lit, or none could be read.
DisplayOn(readings) ==
  (\E p \in Panels : readings[p] # "failed") => \E p \in Panels : readings[p] = "lit"

\* A lit panel that cannot be read beside a dark one that can is taken for dark: panel
\* means a panel that does not fail so, which the code has no way to tell.
ReadDisplay(readings) ==
  LET on == DisplayOn(readings)
  IN  /\ pc = "disp" /\ ~(disp = "ON" /\ ageDisp < DispChk)
      /\ panel => on
      /\ disp' = Display(on)
      /\ ageDisp' = 0
      /\ ageOff' = OffAge(on)
      /\ onSeen' = IF on THEN 0 ELSE onSeen
      /\ psiFirst' = FilterAfter(on)
      /\ gap' = (gap \/ disp' = "SUSPEND")
      /\ Goto(IF disp' = "SUSPEND" THEN "suspend" ELSE AfterDisplay) /\ KeepTrigger
      /\ UNCHANGED <<nextWake, bootVars, psiOpen, psiFails, thermVars, otherAges, spent,
                     envVars>>

Suspended ==
  /\ pc = "suspend"
  /\ nextWake' = SuspendWake
  /\ Goto(IF ndk /\ ageSweep > SweepIvl THEN "sweep" ELSE "return") /\ KeepTrigger
  /\ UNCHANGED <<bootVars, dispVars, psiVars, thermVars, otherAges, spent, envVars>>

\* pg_sweep_run(ctx); last_sweep is read after it
Sweep(d) ==
  /\ pc = "sweep"
  /\ Advance(d) /\ ageSweep' = 0 /\ spent' = spent + d
  /\ Goto("return") /\ KeepTrigger
  /\ UNCHANGED <<nextWake, bootVars, disp, psiVars, tempFails, thermal, remapDue,
                 tempLost, unmapped, panel, healthy>>

Doze ==
  /\ pc = "doze"
  /\ nextWake' = IF ndk THEN MaxPoll ELSE Forever
  /\ Goto("return") /\ KeepTrigger
  /\ UNCHANGED <<bootVars, dispVars, psiVars, thermVars, otherAges, spent, envVars>>

-----------------------------------------------------------------------------
(* read_psi() *)

PsiDelay(fails) ==
  LET shifted == PsiBase * 2^(fails - 1)
  IN  IF shifted \in 0..PsiCap THEN shifted ELSE PsiCap

FailsUncapped(fails) == fails + 1
FailsAfter(fails) == IF fails < PsiFailMax THEN fails + 1 ELSE fails

ReadPsiOk ==
  /\ pc = "psi" /\ psiOpen
  /\ psiFails' = 0 /\ psiFirst' = FALSE /\ gap' = FALSE
  /\ Goto("bat") /\ KeepTrigger
  /\ UNCHANGED <<nextWake, bootVars, dispVars, psiOpen, thermVars, otherAges, spent,
                 envVars>>

ReadPsiFail ==
  /\ pc = "psi" /\ (psiOpen => ~healthy)
  /\ psiFails' = FailsAfter(psiFails)
  /\ nextWake' = PsiDelay(psiFails')
  /\ gap' = TRUE
  /\ Goto(IF trg = NoFd THEN "recov" ELSE "remove") /\ KeepTrigger
  /\ UNCHANGED <<bootVars, dispVars, psiOpen, psiFirst, thermVars, otherAges, spent,
                 envVars>>

\* pg_epoll_rm_trg() does not look at what epoll_ctl() says; pg_psi_close_trg(); trg_fd = -1.
LoseTrigger ==
  /\ \/ pc = "remove" /\ (RemoveTrigger \/ KeepTrigger) /\ Goto("close")
     \/ pc = "close" /\ CloseTrigger /\ Goto("clear")
     \/ pc = "clear" /\ ClearTrigger /\ Goto("recov")
  /\ KeepRest

\* pg_psi_recov(): the monitor is closed and opened again
PsiRecov(ok) ==
  /\ pc = "recov" /\ (healthy => ok)
  /\ psiOpen' = ok /\ psiFirst' = (psiFirst \/ ok)
  /\ Goto("arm") /\ KeepTrigger
  /\ UNCHANGED <<nextWake, bootVars, dispVars, psiFails, gap, thermVars, otherAges,
                 spent, envVars>>

\* arm_trigger() is called by read_psi(), and by poll_battery_metrics() if bat.
Arm(bat) == IF bat THEN "batarm" ELSE "arm"
Watch(bat) == IF bat THEN "batwatch" ELSE "watch"
Undo(bat) == IF bat THEN "batundo" ELSE "undo"
Unset(bat) == IF bat THEN "batunset" ELSE "unset"
AfterArm(bat) == IF bat THEN "therm" ELSE "return"

\* pg_psi_open_trg() fails, or it succeeds and pg_epoll_add_trg() follows; if that fails
\* the trigger is closed again and trg_fd reset.
ArmTrigger(bat) ==
  /\ \/ pc = Arm(bat) /\ ~healthy /\ KeepTrigger /\ Goto(AfterArm(bat))
     \/ pc = Arm(bat) /\ (\E fd \in Fds : OpenTrigger(fd)) /\ Goto(Watch(bat))
     \/ pc = Watch(bat) /\ RegisterTrigger /\ Goto(AfterArm(bat))
     \/ pc = Watch(bat) /\ ~healthy /\ KeepTrigger /\ Goto(Undo(bat))
     \/ pc = Undo(bat) /\ CloseTrigger /\ Goto(Unset(bat))
     \/ pc = Unset(bat) /\ ClearTrigger /\ Goto(AfterArm(bat))
  /\ KeepRest

-----------------------------------------------------------------------------
(* calc_demand() *)

\* poll_battery_metrics(), every BatChk: a lost trigger is armed again
NeverRearms == FALSE
Rearms == ageBat >= BatChk /\ trg = NoFd

PollBattery ==
  /\ pc = "bat"
  /\ ageBat' = IF ageBat < BatChk THEN ageBat ELSE 0
  /\ Goto(IF Rearms THEN "batarm" ELSE "therm") /\ KeepTrigger
  /\ UNCHANGED <<nextWake, bootVars, dispVars, psiVars, thermVars, ageSweep, spent,
                 envVars>>

\* poll_thermal_metrics(): not due yet
SkipThermal ==
  /\ pc = "therm" /\ ageTherm < ThermChk
  /\ Goto("gate") /\ KeepTrigger
  /\ UNCHANGED <<nextWake, bootVars, dispVars, psiVars, thermVars, otherAges, spent,
                 envVars>>

\* poll_thermal_metrics(): a failed read holds the last scale TempFailMax times,
\* then the governor goes on as if there were no cpu sensor.
HoldsTooLong(ok) == cpuSensor /\ ~ok /\ tempFails <= TempFailMax
HoldsScale(ok) == cpuSensor /\ ~ok /\ tempFails < TempFailMax

PollThermal(ok) ==
  /\ pc = "therm" /\ ageTherm >= ThermChk
  /\ ok => cpuSensor
  /\ tempFails' = IF ok THEN 0 ELSE IF HoldsScale(ok) THEN tempFails + 1 ELSE tempFails
  /\ thermal' = IF HoldsScale(ok) THEN thermal ELSE IF ok THEN "live" ELSE "blind"
  /\ tempLost' = IF ok \/ ~cpuSensor THEN 0 ELSE Cap(tempLost + 1, TempFailMax + 1)
  /\ ageTherm' = 0 /\ remapDue' = TRUE /\ unmapped' = TRUE
  /\ Goto("gate") /\ KeepTrigger
  /\ UNCHANGED <<nextWake, bootVars, dispVars, psiVars, otherAges, spent, envVars>>

-----------------------------------------------------------------------------
(* gov_gate() and apply_mapping() *)

MapsWhenMoving(moving) == moving
Maps(moving) == moving \/ remapDue

Gate(poll, moving) ==
  /\ pc = "gate"
  /\ nextWake' = IF moving /\ poll > TransPoll THEN TransPoll ELSE poll
  /\ remapDue' = FALSE
  /\ Goto(IF Maps(moving) THEN "map" ELSE "return") /\ KeepTrigger
  /\ UNCHANGED <<bootVars, dispVars, psiVars, tempFails, thermal, ageTherm, tempLost,
                 unmapped, otherAges, spent, envVars>>

\* The six pg_sysfs_update() calls, whose effect is in SysfsCache.
ApplyMapping ==
  /\ pc = "map"
  /\ unmapped' = FALSE
  /\ Goto("return") /\ KeepTrigger
  /\ UNCHANGED <<nextWake, bootVars, dispVars, psiVars, tempFails, thermal, remapDue,
                 ageTherm, tempLost, otherAges, spent, envVars>>

-----------------------------------------------------------------------------
(* The environment *)

PanelTurns ==
  /\ panel' = ~panel /\ litFor' = 0
  /\ UNCHANGED <<vars, pc, bootVars, dispVars, psiVars, thermVars, otherAges,
                 spent, healthy>>

KernelHeals ==
  /\ ~healthy /\ healthy' = TRUE
  /\ UNCHANGED <<vars, pc, bootVars, dispVars, psiVars, thermVars, otherAges,
                 spent, panel, litFor>>

ReactorEnv ==
  /\ SetupFails \/ Interrupted \/ WaitError \/ SignalArrives \/ PressureEdge
  /\ UNCHANGED handlerVars

GovernorStep ==
  \/ SkipDisplay \/ (\E r \in [Panels -> {"failed", "dark", "lit"}] : ReadDisplay(r)) \/ Suspended
  \/ (\E d \in SweepTimes : Sweep(d)) \/ Doze
  \/ ReadPsiOk \/ ReadPsiFail \/ LoseTrigger \/ (\E ok \in BOOLEAN : PsiRecov(ok))
  \/ (\E bat \in BOOLEAN : ArmTrigger(bat))
  \/ PollBattery \/ SkipThermal \/ (\E ok \in BOOLEAN : PollThermal(ok))
  \/ (\E poll \in MinPoll..MaxPoll, moving \in BOOLEAN : Gate(poll, moving))
  \/ ApplyMapping
  \/ (\E calc \in CalcTimes : Return(calc))

GovernorNext ==
  ReactorStep \/ GovernorStep \/ TimePasses \/ ReactorEnv \/ PanelTurns \/ KernelHeals

GovernorSpec == GovernorInit /\ [][GovernorNext]_governorVars

\* The thread is scheduled and every step of a run ends; time passes.
GovernorFairSpec ==
  GovernorSpec /\ WF_governorVars(ReactorStep) /\ WF_governorVars(GovernorStep) /\ WF_governorVars(TimePasses)

-----------------------------------------------------------------------------
\* The governor is a handler of the reactor: whichever of its calls fail, it leaves a
\* wake-up that pg_epoll_run() can wait for and a trigger it can wait on, and each of its
\* calls on the way is one the reactor allows.
ImplementsReactor == Spec

\* The display is given up only after a whole grace period without one reading
\* that found it lit, however readings and failures alternate.
SuspendAfterGrace ==
  [][disp # "SUSPEND" /\ disp' = "SUSPEND" => onSeen > Grace]_governorVars

\* A suspended governor notices a lit display within SuspendWake, or within its
\* slowest run and the 1 ms floor of the wake-up when that takes longer, plus the
\* bounded lateness of the wake-ups and what the measured times miss, whatever
\* triggers, sweeps and EINTRs come first.
ResumeInTime ==
  ~dormant /\ disp = "SUSPEND" =>
    LET slack == MaxLate + MaxIntr * MaxMissed
    IN  \/ litFor <= Steps(SuspendWake) + MaxMissed + slack
        \/ \E d \in {0} \cup SweepTimes, calc \in CalcTimes :
             litFor <= d + calc + Steps(1) + slack

\* The first sample filtered after missed ones (a failed read, a suspension)
\* restarts the Kalman filter: no velocity is carried over the gap, even when
\* reopening the monitor failed several times in between.
FilterRestarts ==
  [][gap /\ ~gap' => psiFirst]_governorVars

\* The scale falls back to "no cpu temperature" after exactly TempFailMax
\* consecutive failed reads were bridged with the last one, and a single good
\* read starts the count again.
ThermalFallback ==
  cpuSensor /\ thermal # "none" => (thermal = "blind" <=> tempLost > TempFailMax)

\* A thermal update reaches the nodes in the run that made it, also when the
\* load is not moving: remap_due never waits for another run.
ThermalMapped ==
  phase \in {"head", "wait"} => ~unmapped /\ ~remapDue

Stopped == phase \in {"done", "failed"}

\* An active governor re-arms a lost trigger on its own once the kernel lets it,
\* as long as the display is not suspended.
TriggerRearmed ==
  (healthy /\ ~dormant /\ trg = NoFd) ~> (trg # NoFd \/ disp = "SUSPEND" \/ Stopped)
=============================================================================
