------------------------------- MODULE Mapping -------------------------------
(***************************************************************************)
(* From a demand to the six values apply_mapping() of src/core/gov.c asks  *)
(* the tunables for: the efficiency terms and shaping functions of         *)
(* src/core/cpu.c, with the limits and coefficients Tune calibrated for    *)
(* the device.                                                             *)
(*                                                                         *)
(* An operator used nowhere is a mutant of the one that follows it.        *)
(***************************************************************************)
EXTENDS Tune, LoadDemand

CONSTANTS
  Units,     \* nanoseconds in a millisecond, to scale
  Quant,     \* PG_QUANT_NS, in those units: a power of two
  BaseLim,   \* LIM_CPU as config.c initialises it
  Demands, Velocities, Scales, Levels, Baselines   \* the inputs tried

ASSUME ScaleAssumption ==
  Units \in Nat \ {0} /\ Quant \in Nat \ {0} /\ CpuSetSize \in Nat \ {0}
\* The limits config.c initialises, those of the initial task load in whole percent
ASSUME LimitAssumption ==
  /\ BaseLim \in Limits
  /\ BaseLim.minLat <= BaseLim.maxLat /\ BaseLim.minGran <= BaseLim.maxGran
  /\ BaseLim.minWake <= BaseLim.maxWake /\ BaseLim.minMig <= BaseLim.maxMig
  /\ BaseLim.minWalt <= BaseLim.maxWalt /\ BaseLim.minUcl <= BaseLim.maxUcl
  /\ BaseLim.minGran <= BaseLim.minLat /\ BaseLim.maxUcl <= Milli(384000)
  /\ BaseLim.minWalt % One = 0 /\ BaseLim.maxWalt % One = 0
\* Demands are clamped at zero and thermal scales at a tenth (cpu.c, thermal.c:98-101).
ASSUME InputAssumption ==
  /\ Demands \subseteq Nat /\ Velocities \subseteq Int /\ Scales \subseteq Nat
  /\ Levels \subseteq Int /\ Baselines \subseteq Int
  /\ \A vel \in Velocities : RootFits(vel)

VARIABLES
  device,  \* what the files of the device say
  pinned,  \* the cores the daemon runs on
  lim,     \* LIM_CPU
  cfg,     \* CFG_CPU
  input,   \* what the governor maps: demand, velocity, thermal scale, battery, avg300
  values   \* what it asks the nodes for

bootVars == <<device, pinned, lim, cfg>>
mappingVars == <<bootVars, input, values>>

-----------------------------------------------------------------------------
(* include/pg/math.h *)

Sigmoid(v, k, mid) ==
  LET x == Mul(k, v - mid) IN (Div(x, One + Abs(x)) + One) \div 2

Decay(v, coeff) ==
  LET x == Mul(coeff, v)
  IN  IF x < 0 THEN One ELSE IF x >= 180 * One THEN 0
      ELSE Div(One, One + x + Mul(x, x) \div 2)

Rounded(v) == (v + One \div 2) \div One
San(v, fallback) == IF v < 0 THEN fallback ELSE Rounded(v)
SanQuantUp(v, fallback) ==
  LET ns == ((IF v < 0 THEN fallback ELSE v) * Units) \div One
  IN  ((ns + Quant - 1) \div Quant) * Quant
SanQuant(v, fallback) ==
  LET ns == ((IF v < 0 THEN fallback ELSE v) * Units) \div One
  IN  ((ns + Quant \div 2) \div Quant) * Quant

-----------------------------------------------------------------------------
(* src/core/cpu.c *)

\* A share of 100, as the ramps take it
Share(v) == Clamp(Div(v, 100 * One), 0, One)

\* The thermal floor of the latency rises as the scale falls.
ThermLatCooler(scale) ==
  lim.minLat + Mul(lim.maxLat - lim.minLat, Clamp(scale, 0, One))
ThermLat(scale) ==
  lim.minLat + Mul(lim.maxLat - lim.minLat, Clamp(One - scale, 0, One))

Lat(in, press, eff) ==
  LET range == lim.maxLat - lim.minLat
      shaped == lim.minLat + Mul(range, One - Sigmoid(press, cfg.sigmoidK, eff.sigMid))
      ceiling == lim.maxLat - Mul(Share(in.demand), range)
      sooner == IF shaped < ceiling THEN shaped ELSE ceiling
      floor == ThermLat(in.scale)
  IN  Clamp(IF sooner > floor THEN sooner ELSE floor, lim.minLat, lim.maxLat)

Gran(lat) ==
  LET share == Clamp(Mul(lat, cfg.latGranRat), lim.minGran, lim.maxGran)
  IN  IF share < lat THEN share ELSE lat

Wakeup(press, eff) ==
  Clamp(lim.minWake + Mul(lim.maxWake - lim.minWake, Decay(press, eff.decay)),
        lim.minWake, lim.maxWake)

\* Halved at most by the velocity, up to 25 of it
Migration(vel, press) ==
  LET rest == One - Share(press)
      ramp == lim.minMig + Mul(lim.maxMig - lim.minMig, Mul(rest, rest))
      slope == Clamp(Div(Abs(vel), 25 * One), 0, One)
  IN  Clamp(Mul(ramp, One - Mul(slope, One \div 2)), lim.minMig, lim.maxMig)

Walt(press) ==
  Clamp(lim.minWalt + Mul(lim.maxWalt - lim.minWalt, Mul(Share(press), Share(press))),
        lim.minWalt, lim.maxWalt)

Uclamp(press, scale, eff) ==
  LET raw == lim.minUcl + Mul(lim.maxUcl - lim.minUcl,
                              Sigmoid(press, cfg.uclampK, eff.uclMid))
  IN  Clamp(Mul(raw, scale), lim.minUcl, lim.maxUcl)

-----------------------------------------------------------------------------
(* src/core/gov.c *)

\* apply_mapping(), with every node there
Mapped(in) ==
  LET eff == Eff(in)
      press == EffPress(in.demand, in.vel, eff)
      lat == Lat(in, press, eff)
  IN  [lat  |-> SanQuant(lat, lim.maxLat),
       gran |-> SanQuant(Gran(lat), lim.maxGran),
       wake |-> SanQuant(Wakeup(press, eff), lim.maxWake),
       mig  |-> SanQuant(Migration(in.vel, press), lim.minMig),
       walt |-> San(Walt(press), lim.minWalt \div One),
       ucl  |-> San(Uclamp(press, in.scale, eff), lim.minUcl \div One)]

\* setup_process(), pg_tune_limits() and pg_tune_configs() run before the first mapping.
MappingInit ==
  /\ device \in Devices
  /\ pinned = Affinity(device)
  /\ lim = TuneLimits(device, BaseLim)
  /\ cfg = TuneCpu(Metrics(device))
  /\ input \in [demand : Demands, vel : Velocities, scale : Scales, bat : Levels, base : Baselines]
  /\ values = Mapped(input)

Maps(in) == input' = in /\ values' = Mapped(in) /\ UNCHANGED bootVars

\* What a run maps has three sources, each with a period of its own; readings that are
\* new in the same run are two steps.
NewPressure(d, v, b) == Maps([input EXCEPT !.demand = d, !.vel = v, !.base = b])
NewScale(s) == Maps([input EXCEPT !.scale = s])
NewLevel(l) == Maps([input EXCEPT !.bat = l])

MappingNext ==
  \/ \E d \in Demands, v \in Velocities, b \in Baselines : NewPressure(d, v, b)
  \/ \E s \in Scales : NewScale(s)
  \/ \E l \in Levels : NewLevel(l)

MappingSpec == MappingInit /\ [][MappingNext]_mappingVars

-----------------------------------------------------------------------------
Near(v, lo, hi) == /\ v * One >= lo * Units - (Quant \div 2 + 1) * One
                   /\ v * One <= hi * Units + (Quant \div 2) * One
Within(v) ==
  /\ Near(v.lat, lim.minLat, lim.maxLat) /\ Near(v.gran, lim.minGran, lim.maxGran)
  /\ Near(v.wake, lim.minWake, lim.maxWake) /\ Near(v.mig, lim.minMig, lim.maxMig)
  /\ v.walt * One \in lim.minWalt..lim.maxWalt
  /\ 2 * v.ucl * One \in (2 * lim.minUcl - One)..(2 * lim.maxUcl + One)
  /\ v.gran <= v.lat

\* On every device the calibrated limits leave room for the requests: they stay within
\* LIM_CPU, but for the half step that rounding may add or take, and the minimum
\* granularity never exceeds the latency (tune.c:24-72, gov.c:270-300).
InLimits == Within(values)

\* b asks for no more than a: less demand, slower growth, less headroom or battery,
\* or a higher baseline of pressure.
Calmer(a, b) ==
  /\ b.demand <= a.demand /\ b.scale <= a.scale /\ b.bat <= a.bat /\ b.base >= a.base
  /\ b.vel <= a.vel /\ (b.vel >= 0 \/ b.vel = a.vel)

\* From v to w no scheduler period gets shorter and no boost larger.
Relaxes(v, w) == /\ v.lat <= w.lat /\ v.gran <= w.gran /\ v.wake <= w.wake /\ v.mig <= w.mig
                 /\ v.walt >= w.walt /\ v.ucl >= w.ucl

\* The six functions pull one way: when the demand falls, the device heats up or the
\* battery empties, no scheduler period gets shorter and no boost larger, through
\* the trend, the sigmoids, the ramps and their roundings (cpu.c:92-306).
PullsOneWay == [][Calmer(input, input') => Relaxes(values, values')]_mappingVars

\* The daemon keeps off the fast cores: it is pinned to cores of the least capacity that
\* can be read or, when it may use none of those, of the least frequency; only when it
\* may use none of these either does it take any core, and never none (topo.c:50-117).
\* Cores are those a cpu_set_t has room for.
KeepsOffFastCores ==
  LET Least(node) == {i \in Readable(node, Named(device)) :
                        \A j \in Readable(node, Named(device)) : node[i] <= node[j]}
  IN  /\ pinned # {}
      /\ \/ pinned \subseteq Least(device.capacity)
         \/ /\ Least(device.capacity) \cap device.usable = {}
            /\ \/ pinned \subseteq Least(device.freq)
               \/ Least(device.freq) \cap device.usable = {}
=============================================================================
