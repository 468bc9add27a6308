--------------------------------- MODULE Tune ---------------------------------
(***************************************************************************)
(* The one-time calibration of src/policy/tune.c and the topology of       *)
(* src/sys/topo.c it is computed from.  A device is what its files say:    *)
(*                                                                         *)
(*   cores     sysconf(_SC_NPROCESSORS_CONF), 0 when it fails              *)
(*   freq      cpuinfo_max_freq per core, in MHz, 0 when unreadable        *)
(*   capacity  cpu_capacity per core, 0 when unreadable                    *)
(*   usable    the cores the kernel lets the daemon run on                 *)
(*                                                                         *)
(* A value of 0 or below is skipped by the code like one it cannot read.   *)
(***************************************************************************)
EXTENDS FixedPoint, FiniteSetsExt

CONSTANTS
  CpuSetSize,  \* CPU_SETSIZE
  Devices      \* bound: the devices tried

\* The kernel runs the daemon somewhere.
ASSUME DeviceAssumption ==
  \A dev \in Devices :
    /\ dev.cores \in Nat
    /\ dev.freq \in [1..dev.cores -> Int] /\ dev.capacity \in [1..dev.cores -> Int]
    /\ dev.usable # {}
\* INT_TO_Q16 shifts the number of cores, the total of their capacities (the kernel's are
\* 1024 at most) and the frequency into the upper half of 32 bits.
ASSUME WidthAssumption ==
  \A dev \in Devices :
    /\ dev.cores < 32768
    /\ \A i \in 1..dev.cores : dev.freq[i] < 32768 /\ dev.cores * dev.capacity[i] < 32768

-----------------------------------------------------------------------------
(* src/sys/topo.c *)

Cores(dev) == 1..dev.cores
Readable(node, cores) == {i \in cores : node[i] > 0}

MaxFreq(dev) == Max({0} \cup {dev.freq[i] : i \in Readable(dev.freq, Cores(dev))})

\* pg_topo_get_cpu_capacity(): no capacity at all is a failure
Capacity(dev) ==
  LET known == Readable(dev.capacity, Cores(dev))
      values == {dev.capacity[i] : i \in known}
      total[i \in 0..dev.cores] ==
        IF i = 0 THEN 0 ELSE total[i - 1] + (IF i \in known THEN dev.capacity[i] ELSE 0)
  IN  [ok    |-> known # {},
       total |-> total[dev.cores],
       least |-> IF known = {} THEN 0 ELSE Min(values),
       most  |-> IF known = {} THEN 0 ELSE Max(values)]

\* build_cpuset(): the cores seen so far that share the least value
WithoutReset(seen, i, value) ==
  CASE value <= 0 \/ (seen.set # {} /\ value > seen.least) -> seen
    [] OTHER -> [least |-> value, set |-> seen.set \cup {i}]
SeenWith(seen, i, value) ==
  CASE value <= 0 \/ (seen.set # {} /\ value > seen.least) -> seen
    [] value > 0 /\ seen.set # {} /\ value = seen.least     -> [seen EXCEPT !.set = @ \cup {i}]
    [] value > 0 /\ (seen.set = {} \/ value < seen.least)   -> [least |-> value, set |-> {i}]

LittleSet(node, count) ==
  LET scan[i \in 0..count] == IF i = 0 THEN [least |-> 0, set |-> {}]
                             ELSE SeenWith(scan[i - 1], i, node[i])
  IN  scan[count].set

\* The cores a cpu_set_t has room for
NamedCount(dev) == IF dev.cores > CpuSetSize THEN CpuSetSize ELSE dev.cores
Named(dev) == 1..NamedCount(dev)

\* pg_topo_set_little_core(): the first mask with a core the kernel lets it run on;
\* sched_setaffinity() refuses the others, and the mask stays as it was.
Affinity(dev) ==
  LET count == NamedCount(dev)
      masks == <<LittleSet(dev.capacity, count), LittleSet(dev.freq, count), Named(dev)>>
      accepted == {m \in 1..3 : masks[m] \cap dev.usable # {}}
  IN  IF dev.cores <= 0 \/ accepted = {} THEN dev.usable
      ELSE masks[Min(accepted)] \cap dev.usable

-----------------------------------------------------------------------------
(* src/policy/tune.c *)

Or(value, default) == IF value > 0 THEN value ELSE default

HeuristicCap(core, mhz) ==
  LET share == Clamp(Div(Or(core, 8) * One, 8 * One), 0, One)
      speed == Clamp(Div(Or(mhz, 2000) * One, 3500 * One), 0, One)
  IN  Clamp(Mul(share, Milli(400)) + Mul(speed, Milli(600)), 0, One)

\* Two ends of a field in thousandths, and where between them the index puts it
Tuned(from, to, index) ==
  LET a == Milli(from)  b == Milli(to)
  IN  Clamp(Lerp(a, b, index), IF a < b THEN a ELSE b, IF a < b THEN b ELSE a)

\* struct pg_cpu_lim
Limits == [minLat : Nat, maxLat : Nat, minGran : Nat, maxGran : Nat, minWake : Nat, maxWake : Nat,
           minMig : Nat, maxMig : Nat, minWalt : Nat, maxWalt : Nat, minUcl : Nat, maxUcl : Nat]

\* pg_tune_limits(): untouched unless cores and frequency are known
TuneLimits(dev, lim) ==
  LET cap == HeuristicCap(dev.cores, MaxFreq(dev))
  IN  IF dev.cores <= 0 \/ MaxFreq(dev) <= 0 THEN lim
      ELSE [minLat |-> Tuned(20000, 4000, cap), maxLat |-> Tuned(25000, 12000, cap),
            minGran |-> Tuned(6500, 1500, cap), maxGran |-> Tuned(10000, 4000, cap),
            minWake |-> Tuned(3000, 1000, cap), maxWake |-> Tuned(8000, 4000, cap),
            minMig |-> Tuned(600, 200, cap), maxMig |-> Tuned(1200, 600, cap),
            minWalt |-> lim.minWalt, maxWalt |-> lim.maxWalt,
            minUcl |-> lim.minUcl, maxUcl |-> Tuned(384000, 1024000, cap)]

\* calc_topo_metrics(): heterogeneity, capacity and heat of the device, each in [0, One]
Metrics(dev) ==
  LET cap == Capacity(dev)
      eas == cap.ok /\ cap.most > 0 /\ MaxFreq(dev) > 0
      rel == IF eas THEN Clamp(Div(cap.total * One, 8192 * One), 0, One)
             ELSE HeuristicCap(dev.cores, Or(MaxFreq(dev), 2000))
      rat == IF eas THEN Clamp(Div(cap.least * One, cap.most * One), 0, One)
             ELSE IF dev.cores > 4 THEN Milli(500) ELSE One
      speed == Clamp(Div(Or(MaxFreq(dev), 2000) * One, 3500 * One), 0, One)
  IN  [rel |-> rel, rat |-> rat, therm |-> Clamp(Mul(rel, speed), 0, One)]

\* tune_cpu_configs()
TuneCpu(metrics) ==
  [latGranRat  |-> Tuned(500, 200, metrics.rel),
   uclampK     |-> Tuned(120, 250, metrics.rat), sigmoidK |-> Tuned(40, 120, metrics.rat),
   surgeThresh |-> Tuned(12000, 25000, metrics.rel),
   transRate   |-> Tuned(80, 200, metrics.rel), transDiff |-> Tuned(400, 900, metrics.rel)]

\* tune_thermal_configs(): the set point lies 5 degrees below the trip point, within bounds
TuneThermal(metrics, trip) ==
  [limitCpu |-> Clamp(trip - 5 * One, 45 * One, 90 * One),
   limitBat |-> Tuned(42000, 38000, metrics.therm),
   ki |-> Tuned(5, 15, metrics.therm), kp |-> Tuned(450, 900, metrics.therm),
   kd |-> Tuned(600, 1300, metrics.therm)]
=============================================================================
