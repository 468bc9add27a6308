-------------------------------- MODULE Thermal --------------------------------
(***************************************************************************)
(* The thermal control of src/core/thermal.c, from the zones found at boot *)
(* and the gains calibrated for the device to the scale the mapping takes. *)
(*                                                                         *)
(* The estimate and the velocity the Kalman filter makes of the readings   *)
(* are inputs: any estimate with any velocity may follow any other, but    *)
(* when the filter starts again the estimate is the reading itself and the *)
(* velocity is zero.  Readings that fail are bridged by the governor       *)
(* (Governor), and count as 0 degrees when they fail for too long or when  *)
(* no zone was found.                                                      *)
(***************************************************************************)
EXTENDS Tune, Discovery

CONSTANTS
  Stale,        \* PG_THERM_STALE_SEC
  SatMax,       \* the 50 consecutive saturated updates that strengthen the drain
  Directories,  \* bound: the directories tried
  Temps, Velocities, Batteries, Gaps  \* bound: the inputs tried, Gaps in seconds

ASSUME ControlAssumption == One >= 10 /\ Stale \in Nat /\ SatMax \in Nat
ASSUME InputAssumption ==
  /\ Temps \subseteq Int /\ Velocities \subseteq Int
  /\ Batteries \subseteq Int /\ Gaps \subseteq Nat
ASSUME DirectoryAssumption ==
  \A d \in Directories :
    /\ DOMAIN d \subseteq Nat \ {NoZone}
    /\ \A z \in DOMAIN d : DOMAIN d[z].trips \subseteq Nat
ASSUME PriorityAssumption == DOMAIN Priority \subseteq Nat

VARIABLES
  dir,     \* the thermal zones there are at boot; nobody looks again
  cfg,     \* CFG_THERMAL
  sensor,  \* ctx->cpu_temp_sensor.fd >= 0
  fresh,   \* the filter has had no reading yet
  pid,     \* ctx->thermal_state: integ, whether prev_sat is at its top, sat_count
  settled  \* the only input there is from now on, or none when anything may follow

vars == <<dir, cfg, sensor, fresh, pid, settled>>

\* An update: the estimate and its velocity, the battery's temperature, and the seconds
\* since the last update
AllInputs == [temp : Temps \cup {0}, vel : Velocities, bat : Batteries, gap : Gaps]

TypeOK ==
  /\ dir \in Directories \cup {<<>>}
  /\ cfg \in [limitCpu : Int, limitBat : Int, ki : Nat, kp : Nat, kd : Nat]
  /\ sensor \in BOOLEAN /\ fresh \in BOOLEAN
  /\ pid \in [integ : Int, full : BOOLEAN, sat : 0..SatMax]
  /\ settled \subseteq AllInputs

Cold == [integ |-> 0, full |-> FALSE, sat |-> 0]
\* CFG_THERMAL as shipped, which pg_tune_configs() overwrites before anything reads it
Unset == [limitCpu |-> 0, limitBat |-> 0, ki |-> 0, kp |-> 0, kd |-> 0]
Booting == cfg = Unset

Inputs ==
  {in \in AllInputs :
     /\ ~sensor => in.temp = 0 /\ in.vel = 0
     /\ fresh \/ in.gap > Stale => in.vel = 0
     /\ settled # {} => in \in settled}

-----------------------------------------------------------------------------
(* pg_thermal_update() *)

\* The set point comes down by up to 5 degrees as the battery nears its limit.
SetPoint(c, bat) ==
  LET margin == Clamp(c.limitBat - bat, 0, 5 * One) IN c.limitCpu - (5 * One - margin)

Dt(in) == Clamp(in.gap * One, Milli(10), One)

\* After a gap the controller starts again; the integral stays while the zone is hot,
\* which the reading tells, and the estimate is the reading then.
RestartKeepsIntegral(c, p, in) ==
  IF in.gap <= Stale THEN p ELSE [p EXCEPT !.full = FALSE, !.sat = 0]
Restarted(c, p, in) ==
  IF in.gap <= Stale THEN p
  ELSE [integ |-> IF in.temp < SetPoint(c, in.bat) THEN 0 ELSE p.integ,
        full |-> FALSE, sat |-> 0]

\* The gains grow as the estimate nears the set point from below.
Gain(base, c, in) ==
  LET dist == SetPoint(c, in.bat) - in.temp
  IN  base + Div(base, IF dist < Milli(100) THEN Milli(100) ELSE dist)

Error(c, in) == in.temp - SetPoint(c, in.bat)

AccumulatesAbove(c, p, in) ==
  Clamp(p.integ + (IF Error(c, in) <= 0 THEN 0
                   ELSE Mul(Mul(Gain(c.ki, c, in), Error(c, in)), Dt(in))), -50 * One, 50 * One)
AccumulatesUnclamped(c, p, in) ==
  p.integ + Mul(Mul(Gain(c.ki, c, in), Error(c, in)), Dt(in))
Accumulated(c, p, in) ==
  Clamp(p.integ + Mul(Mul(Gain(c.ki, c, in), Error(c, in)), Dt(in)), -50 * One, 50 * One)

\* The output before and after its saturation
Raw(c, integ, in) ==
  LET boost == IF in.vel > 0 THEN Mul(2 * One, in.vel) ELSE 0
  IN  Mul(Gain(c.kp, c, in), Error(c, in)) + integ + Mul(c.kd + boost, in.vel)
Sat(raw) == Clamp(raw, 0, 100 * One)

\* sat_count: how many updates in a row began with the output of the last at its top
SatCount(p) == IF ~p.full THEN 0 ELSE IF p.sat < SatMax THEN p.sat + 1 ELSE p.sat

\* The anti-windup: what the output has beyond its range is taken from the integral
Drained(integ, raw, count, dt) ==
  LET excess == raw - Sat(raw)
      drain == Mul(Mul(excess, Milli(1950) + Mul(Milli(100), count * One)), dt)
  IN  IF Abs(excess) <= Milli(1) THEN integ
      ELSE IF (integ > 0 /\ drain > integ) \/ (integ < 0 /\ drain < integ) THEN 0
      ELSE integ - drain

\* The integral of an update before the anti-windup
Integral(c, p, in) == Accumulated(c, Restarted(c, p, in), in)

Updated(c, p, in) ==
  LET start == Restarted(c, p, in)
      integ == Integral(c, p, in)
      raw == Raw(c, integ, in)
      count == SatCount(start)
  IN  [integ |-> Drained(integ, raw, count, Dt(in)), full |-> Sat(raw) >= 100 * One, sat |-> count]

\* The scale an update returns, a tenth at least
Scale(c, p, in) ==
  LET free == One - Div(Sat(Raw(c, Integral(c, p, in), in)), 100 * One)
  IN  Clamp(free, Milli(100), IF in.bat >= c.limitBat THEN Milli(200) ELSE One)

-----------------------------------------------------------------------------
Init ==
  /\ dir \in Directories /\ cfg = Unset /\ sensor = FALSE /\ fresh = TRUE /\ pid = Cold
  /\ settled = {}

\* pg_tune_configs() and init_sensors_and_triggers() on a device: the zones are let go.
\* The temp node of the zone found may not open.
Boot(device) ==
  /\ Booting
  /\ cfg' = TuneThermal(Metrics(device), TripTemp(dir, Milli(57500)))
  /\ \E opens \in BOOLEAN : sensor' = (ThermalZone(dir) # NoZone /\ opens)
  /\ dir' = <<>>
  /\ UNCHANGED <<fresh, pid, settled>>

Update(in) ==
  /\ ~Booting
  /\ pid' = Updated(cfg, pid, in) /\ fresh' = FALSE
  /\ UNCHANGED <<dir, cfg, sensor, settled>>

\* Not the program: from now on the device is in a steady state below the set point.
Settle ==
  /\ ~Booting /\ ~fresh /\ settled = {}
  /\ \E in \in Inputs :
       /\ in.vel = 0 /\ in.gap <= 1 /\ Error(cfg, in) <= -One /\ in.bat < cfg.limitBat
       /\ settled' = {in}
  /\ UNCHANGED <<dir, cfg, sensor, fresh, pid>>

Boots == \E device \in Devices : Boot(device)
Updates == \E in \in Inputs : Update(in)
Next == Boots \/ Updates \/ Settle

\* The governor comes back to the thermal control every PG_THERM_CHK_SEC; only of the
\* settled device is it needed.
Spec == Init /\ [][Next]_vars /\ WF_vars(\E in \in settled : Update(in))

-----------------------------------------------------------------------------
\* The zone measured does not hang on the order readdir() lists the zones in: no zone in
\* the table bears a name listed before its own, and without a listed one it is a CPU's,
\* when there is any (scan.c:123-152).
MeasuresBest ==
  Booting =>
    LET zone == ThermalZone(dir)
        name == dir[zone].type
    IN  IF zone = NoZone THEN \A z \in Kept(dir) : ~TypeValid(dir[z].type)
        ELSE \/ \E p \in DOMAIN Priority :
                  /\ name = Priority[p]
                  /\ \A z \in Kept(dir), q \in DOMAIN Priority :
                       q < p => dir[z].type # Priority[q]
             \/ /\ ThermalValid(name)
                /\ \A z \in Kept(dir) : ~Listed(dir[z].type)

\* The trip points that may set the limit: among the first of a CPU's zone, throttling or
\* shutting down, with a temperature that can be true.
Trusted ==
  {t \in (40 * One)..(115 * One) :
     \E z \in DOMAIN dir : \E i \in DOMAIN dir[z].trips :
       /\ i <= MaxTrips /\ dir[z].type # NoFile
       /\ Listed(dir[z].type) \/ dir[z].type \in CpuLike \ Denied
       /\ dir[z].trips[i].kind \in {"passive", "critical"} /\ dir[z].trips[i].temp = t}

\* The set point of the device's life is the default one, or lies 5 degrees under a trusted
\* trip point, whatever other zones with whatever trip points there are.  From 95 degrees
\* on it lies further below, at 90.  Of a trip point below 50 it is 45, which is not under
\* one of 40 to 45: those are accepted (sensor.c:269), and the floor raises the set point
\* to them or above (tune.c:136-138).
SetPointTrusted ==
  [][Booting =>
       LET set == cfg'.limitCpu
       IN  \/ set = Milli(57500) - 5 * One
           \/ \E trip \in Trusted :
                CASE trip < 50 * One -> set = 45 * One
                  [] trip > 95 * One -> set = 90 * One
                  [] OTHER           -> set = trip - 5 * One]_vars

\* However long the integral was pulled down before, a zone so far above the set point
\* that the proportional term alone outweighs the lower end of the integral's range
\* is restricted as far as it goes by the very next update, unless it is cooling
\* already (thermal.c:69-75).
HotRestricts ==
  ~Booting => \A in \in Inputs :
    /\ in.vel >= 0
    /\ Mul(Gain(cfg.kp, cfg, in), Error(cfg, in)) >= 150 * One
    => Scale(cfg, pid, in) = Milli(100)

\* After a gap (a suspension, a lost sensor) a zone below its set point is controlled as
\* if the daemon had just started: nothing learnt before the gap is held against it
\* (thermal.c:46-54).
GapForgets ==
  ~Booting => \A in \in Inputs :
    in.gap > Stale /\ in.temp < SetPoint(cfg, in.bat) =>
      /\ Updated(cfg, pid, in) = Updated(cfg, Cold, in)
      /\ Scale(cfg, pid, in) = Scale(cfg, Cold, in)

\* Whatever the past, a zone that settles below its set point is freed while the battery
\* is cool: the restriction falls below two hundredths and stays there (thermal.c:66-96).
Recovers ==
  settled # {} ~> [](\A in \in settled : Scale(cfg, pid, in) >= Milli(980))

\* The anti-windup takes from the integral and never adds to it (violated).
BleedsOff ==
  ~Booting => \A in \in Inputs :
    LET integ == Integral(cfg, pid, in)
    IN  Abs(Updated(cfg, pid, in).integ) <= Abs(integ)
=============================================================================
