----------------------------- MODULE ThermalProofs -----------------------------
(***************************************************************************)
(* What the thermal control of Thermal promises, for every fixed point of  *)
(* ten steps or more to the unit, every device, directory and input.       *)
(***************************************************************************)
EXTENDS Thermal, WellFoundedInduction, TLAPS

-----------------------------------------------------------------------------
(* The fixed point *)

\* Quotients by a positive divisor are integers, natural ones of naturals.
LEMMA DivInt ==
  ASSUME NEW a \in Int, NEW k \in Nat \ {0}
  PROVE  a \div k \in Int /\ (a >= 0 => a \div k \in Nat)
  OBVIOUS

\* A multiple of the divisor is divided without a rest.
LEMMA DivExact ==
  ASSUME NEW a \in Nat, NEW k \in Nat \ {0}
  PROVE  (k * a) \div k = a
<1> DEFINE q == (k * a) \div k
<1>1. k * a \in Nat
  OBVIOUS
<1>2. q \in Nat /\ k * q <= k * a /\ k * a < k * q + k
  BY <1>1
<1>. HIDE DEF q
<1>3. q <= a
  <2>. SUFFICES ASSUME q >= a + 1 PROVE FALSE
    BY <1>2
  <2>1. k * (q - (a + 1)) >= 0
    BY <1>2
  <2>2. k * (q - (a + 1)) = k * q - k * a - k
    BY <1>2
  <2>. QED BY <1>1, <1>2, <2>1, <2>2
<1>4. a <= q
  <2>. SUFFICES ASSUME a >= q + 1 PROVE FALSE
    BY <1>2
  <2>1. k * (a - (q + 1)) >= 0
    BY <1>2
  <2>2. k * (a - (q + 1)) = k * a - k * q - k
    BY <1>2
  <2>. QED BY <1>1, <1>2, <2>1, <2>2
<1>. QED BY <1>2, <1>3, <1>4 DEF q

LEMMA MulInt ==
  ASSUME NEW a \in Int, NEW b \in Int
  PROVE  Mul(a, b) \in Int
<1>1. a * b \in Int
  OBVIOUS
<1>. QED BY <1>1, DivInt, OneAssumption DEF Mul

\* Products of numbers that are not negative are not negative.
LEMMA MulNat ==
  ASSUME NEW a \in Nat, NEW b \in Nat
  PROVE  Mul(a, b) \in Nat
<1>1. a * b \in Int /\ a * b >= 0
  OBVIOUS
<1>. QED BY <1>1, DivInt, OneAssumption DEF Mul

LEMMA DivFixInt ==
  ASSUME NEW a \in Int, NEW b \in Nat \ {0}
  PROVE  Div(a, b) \in Int
<1>1. a * One \in Int /\ (-a) * One \in Int
  BY OneAssumption
<1>. QED BY <1>1, DivInt DEF Div

LEMMA MilliNat ==
  ASSUME NEW n \in Nat
  PROVE  Milli(n) \in Nat
<1>1. n * One \in Int /\ n * One >= 0
  BY OneAssumption
<1>. QED BY <1>1, DivInt DEF Milli

\* A tenth is more than nothing in the fixed point.
LEMMA TenthPositive == Milli(100) \in Nat \ {0}
<1>1. One * 100 >= 1000
  BY ControlAssumption, OneAssumption
<1>2. (100 * One) \div 1000 >= 1
  BY <1>1, OneAssumption
<1>. QED BY <1>2, MilliNat DEF Milli

LEMMA ClampBetween ==
  ASSUME NEW v \in Int, NEW lo \in Int, NEW hi \in Int, lo <= hi
  PROVE  Clamp(v, lo, hi) \in Int /\ lo <= Clamp(v, lo, hi) /\ Clamp(v, lo, hi) <= hi
  BY DEF Clamp

\* What is measured against k units, as a share.
LEMMA ShareOfUnits ==
  ASSUME NEW v \in Int, NEW k \in Nat \ {0}
  PROVE  Clamp(Div(v, k * One), 0, One) \in Int
<1>1. k * One \in Nat \ {0}
  BY OneAssumption
<1>2. Div(v, k * One) \in Int
  BY <1>1, DivFixInt
<1>. QED BY <1>2, OneAssumption DEF Clamp

-----------------------------------------------------------------------------
(* What the files of a device say of its heat *)

\* What holds at first and after each round holds after every one.
LEMMA Counting ==
  ASSUME NEW n \in Nat, NEW good, 0 \in good, \A i \in 1..n : i - 1 \in good => i \in good
  PROVE  0..n \subseteq good
<1> DEFINE R == {ss \in Nat \X Nat : ss[1] < ss[2]}
           bad == (0..n) \ good
<1>0. IsWellFoundedOn(R, Nat)
  BY NatLessThanWellFounded DEF OpToRel
<1>1. bad \subseteq Nat
  OBVIOUS
<1> SUFFICES ASSUME bad # {} PROVE FALSE
  OBVIOUS
<1>2. PICK x \in bad : \A y \in bad : ~(<<y, x>> \in R)
  <2> HIDE DEF R, bad
  <2> QED BY <1>0, <1>1, WFMin
<1>3. x \in 1..n /\ x - 1 \in 0..n
  BY <1>2
<1>4. x - 1 \notin good
  BY <1>3
<1>5. x - 1 \in bad /\ x - 1 \in Nat /\ x \in Nat /\ x - 1 < x
  BY <1>3, <1>4
<1>6. <<x - 1, x>> \in R
  BY <1>5
<1> QED BY <1>2, <1>5, <1>6

\* The course f of a loop over 1 to n: what it holds before the first round and after each
Course(f, n, S, first, step) ==
  /\ f \in [0..n -> S] /\ f[0] = first
  /\ \A i \in 1..n : f[i] = step[i][f[i - 1]]

\* A loop that starts from first and whose rounds keep it in S has its course.
LEMMA LoopExists ==
  ASSUME NEW n \in Nat, NEW S, NEW first \in S, NEW step \in [1..n -> [S -> S]]
  PROVE  \E f : Course(f, n, S, first, step)
<1> DEFINE Runs(f, k) == f[0] = first /\ \A i \in 1..k : f[i] = step[i][f[i - 1]]
           good == {k \in 0..n : \E f \in [0..k -> S] : Runs(f, k)}
<1>1. 0 \in good
  <2> DEFINE f == [i \in 0..0 |-> first]
  <2>1. f \in [0..0 -> S] /\ f[0] = first /\ 1..0 = {} /\ 0 \in 0..n
    OBVIOUS
  <2>2. Runs(f, 0)
    <3> HIDE DEF f
    <3> QED BY <2>1
  <2> HIDE DEF f, Runs
  <2> QED BY <2>1, <2>2
<1>2. ASSUME NEW k \in 1..n, k - 1 \in good PROVE k \in good
  <2>1. PICK f \in [0..(k - 1) -> S] : Runs(f, k - 1)
    <3> HIDE DEF Runs
    <3> QED BY <1>2
  <2> DEFINE next == step[k][f[k - 1]]
             g == [i \in 0..k |-> IF i = k THEN next ELSE f[i]]
  <2>2. next \in S
    <3>1. k - 1 \in 0..(k - 1)
      OBVIOUS
    <3> QED BY <3>1
  <2>3. \A i \in 0..k : i # k => i \in 0..(k - 1)
    OBVIOUS
  <2>4. g \in [0..k -> S]
    <3> HIDE DEF next
    <3> QED BY <2>1, <2>2, <2>3
  <2>5. g[0] = first
    <3>1. 0 \in 0..k /\ 0 # k
      OBVIOUS
    <3>2. f[0] = first
      BY <2>1
    <3> HIDE DEF next
    <3> QED BY <3>1, <3>2
  <2>6. ASSUME NEW i \in 1..k PROVE g[i] = step[i][g[i - 1]]
    <3>1. i - 1 \in 0..(k - 1) /\ i - 1 \in 0..k /\ i - 1 # k /\ i \in 0..k
      OBVIOUS
    <3>2. g[i - 1] = f[i - 1]
      BY <3>1
    <3>3. CASE i = k
      BY <3>1, <3>2, <3>3
    <3>4. CASE i # k
      <4>1. i \in 1..(k - 1)
        BY <3>4
      <4>2. g[i] = f[i]
        BY <3>1, <3>4
      <4> QED BY <4>1, <4>2, <3>2, <2>1
    <3> QED BY <3>3, <3>4
  <2>7. Runs(g, k)
    BY <2>5, <2>6
  <2>8. k \in 0..n
    OBVIOUS
  <2> HIDE DEF g, Runs
  <2> QED BY <2>4, <2>7, <2>8
<1>3. n \in good
  <2>1. \A i \in 1..n : i - 1 \in good => i \in good
    BY <1>2
  <2> HIDE DEF good
  <2>2. 0..n \subseteq good
    BY <1>1, <2>1, Counting
  <2> QED BY <2>2
<1>4. \E f \in [0..n -> S] : Runs(f, n)
  <2> HIDE DEF Runs
  <2> QED BY <1>3
<1> QED BY <1>4 DEF Course

\* Some core of a group has the most, and some the least, of what a node says.
LEMMA NodeTop ==
  ASSUME NEW n \in Nat, NEW K \in SUBSET (1..n), K # {}, NEW node, \A i \in K : node[i] \in Int
  PROVE  \E m \in K : \A j \in K : node[j] <= node[m]
<1> DEFINE good == {i \in 0..n : K \cap (1..i) # {} =>
                                   \E m \in K \cap (1..i) : \A j \in K \cap (1..i) : node[j] <= node[m]}
<1>1. 0 \in good
  <2>1. 1..0 = {} /\ 0 \in 0..n
    OBVIOUS
  <2> QED BY <2>1
<1>2. ASSUME NEW i \in 1..n, i - 1 \in good PROVE i \in good
  <2> DEFINE before == K \cap (1..(i - 1))
             now == K \cap (1..i)
  <2>1. now = IF i \in K THEN before \cup {i} ELSE before
    OBVIOUS
  <2>2. before # {} => \E m \in before : \A j \in before : node[j] <= node[m]
    BY <1>2
  <2>3. before \subseteq K /\ i \in 0..n
    OBVIOUS
  <2> HIDE DEF before
  <2>4. ASSUME now # {} PROVE \E m \in now : \A j \in now : node[j] <= node[m]
    <3>1. CASE i \notin K
      BY <2>1, <2>2, <2>4, <3>1
    <3>2. CASE i \in K /\ before = {}
      BY <2>1, <3>2
    <3>3. CASE i \in K /\ before # {}
      <4>1. PICK m \in before : \A j \in before : node[j] <= node[m]
        BY <2>2, <3>3
      <4>2. node[i] \in Int /\ node[m] \in Int /\ \A j \in before : node[j] \in Int
        BY <2>3, <3>3, <4>1
      <4>3. CASE node[i] <= node[m]
        BY <2>1, <3>3, <4>1, <4>3
      <4>4. CASE node[m] <= node[i]
        <5>1. \A j \in now : node[j] <= node[i]
          BY <2>1, <4>1, <4>2, <4>4
        <5> QED BY <2>1, <3>3, <5>1
      <4> QED BY <4>2, <4>3, <4>4
    <3> QED BY <3>1, <3>2, <3>3
  <2> HIDE DEF now
  <2>5. now # {} => \E m \in now : \A j \in now : node[j] <= node[m]
    BY <2>4
  <2> QED BY <2>3, <2>5 DEF now
<1>3. n \in good
  <2>1. \A i \in 1..n : i - 1 \in good => i \in good
    BY <1>2
  <2> HIDE DEF good
  <2>2. 0..n \subseteq good
    BY <1>1, <2>1, Counting
  <2> QED BY <2>2
<1>4. K \cap (1..n) = K
  OBVIOUS
<1> QED BY <1>3, <1>4

LEMMA MaxFreqNat ==
  ASSUME NEW dev \in Devices
  PROVE  MaxFreq(dev) \in Nat
<1> DEFINE known == Readable(dev.freq, Cores(dev))
           V == {0} \cup {dev.freq[i] : i \in known}
<1>1. dev.cores \in Nat /\ known \in SUBSET (1..dev.cores)
      /\ \A i \in known : dev.freq[i] \in Int /\ dev.freq[i] > 0
  BY DeviceAssumption DEF Readable, Cores
<1> HIDE DEF known
<1>2. \E x \in V : \A y \in V : x >= y
  <2>1. CASE known = {}
    BY <2>1
  <2>2. CASE known # {}
    <3>1. PICK m \in known : \A j \in known : dev.freq[j] <= dev.freq[m]
      BY <1>1, <2>2, NodeTop
    <3>2. dev.freq[m] \in V
      OBVIOUS
    <3>3. \A y \in V : dev.freq[m] >= y
      BY <1>1, <3>1
    <3> QED BY <3>2, <3>3
  <2> QED BY <2>1, <2>2
<1>3. V \subseteq Nat
  BY <1>1
<1>4. Max(V) \in V
  <2> HIDE DEF V
  <2> QED BY <1>2 DEF Max
<1>5. MaxFreq(dev) = Max(V)
  BY DEF MaxFreq, known
<1> HIDE DEF V
<1> QED BY <1>3, <1>4, <1>5

\* The total of the capacities is a number, as every sum on the way to it is.
LEMMA TotalInt ==
  ASSUME NEW dev \in Devices
  PROVE  Capacity(dev).total \in Int
<1> DEFINE known == Readable(dev.capacity, Cores(dev))
           share(i) == IF i \in known THEN dev.capacity[i] ELSE 0
           total[i \in 0..dev.cores] == IF i = 0 THEN 0 ELSE total[i - 1] + share(i)
           step == [i \in 1..dev.cores |-> [sum \in Int |-> sum + share(i)]]
<1>1. dev.cores \in Nat /\ known \in SUBSET (1..dev.cores)
      /\ \A i \in known : dev.capacity[i] \in Int /\ dev.capacity[i] > 0
  BY DeviceAssumption DEF Readable, Cores
<1>2. Capacity(dev).total = total[dev.cores]
  BY DEF Capacity
<1>3. \A i \in 1..dev.cores : share(i) \in Int
  <2> HIDE DEF known
  <2> QED BY <1>1
<1>4. step \in [1..dev.cores -> [Int -> Int]]
  <2> HIDE DEF share
  <2> QED BY <1>3
<1>5. PICK f : Course(f, dev.cores, Int, 0, step)
  <2>1. 0 \in Int /\ dev.cores \in Nat
    BY <1>1
  <2> HIDE DEF step
  <2> QED BY <1>4, <2>1, LoopExists
<1>6. f = [i \in 0..dev.cores |-> IF i = 0 THEN 0 ELSE f[i - 1] + share(i)]
  <2>1. f \in [0..dev.cores -> Int] /\ f[0] = 0 /\ \A i \in 1..dev.cores : f[i] = step[i][f[i - 1]]
    BY <1>5 DEF Course
  <2>2. ASSUME NEW i \in 1..dev.cores PROVE f[i] = f[i - 1] + share(i)
    <3>1. f[i - 1] \in Int
      <4>1. i - 1 \in 0..dev.cores
        BY <1>1
      <4> QED BY <2>1, <4>1
    <3>2. f[i] = step[i][f[i - 1]]
      BY <2>1
    <3> HIDE DEF share
    <3> QED BY <3>1, <3>2
  <2>3. \A i \in 0..dev.cores : i # 0 => i \in 1..dev.cores
    BY <1>1
  <2> HIDE DEF share, step
  <2>4. ASSUME NEW i \in 0..dev.cores PROVE f[i] = IF i = 0 THEN 0 ELSE f[i - 1] + share(i)
    BY <2>1, <2>2, <2>3
  <2> QED BY <2>1, <2>4
<1>7. total = [i \in 0..dev.cores |-> IF i = 0 THEN 0 ELSE total[i - 1] + share(i)]
  <2> HIDE DEF share
  <2> QED BY <1>6
<1> HIDE DEF total
<1> DEFINE good == {i \in 0..dev.cores : total[i] \in Int}
<1>8. 0 \in good
  <2>1. 0 \in 0..dev.cores
    BY <1>1
  <2>2. total[0] = 0
    <3> HIDE DEF share
    <3> QED BY <1>7, <2>1
  <2> QED BY <2>1, <2>2
<1>9. ASSUME NEW i \in 1..dev.cores, i - 1 \in good PROVE i \in good
  <2>1. i \in 0..dev.cores /\ i # 0
    BY <1>1
  <2> HIDE DEF share
  <2>2. total[i] = total[i - 1] + share(i)
    BY <1>7, <2>1
  <2>3. total[i - 1] \in Int /\ share(i) \in Int
    BY <1>3, <1>9
  <2> QED BY <2>1, <2>2, <2>3
<1>10. total[dev.cores] \in Int
  <2>1. \A i \in 1..dev.cores : i - 1 \in good => i \in good
    BY <1>9
  <2> HIDE DEF good
  <2>2. 0..dev.cores \subseteq good
    BY <1>1, <1>8, <2>1, Counting
  <2>3. dev.cores \in good
    BY <1>1, <2>2
  <2> QED BY <2>3 DEF good
<1> QED BY <1>2, <1>10

\* The heuristic is a number whatever it is told.
LEMMA HeuristicInt ==
  ASSUME NEW core \in Int, NEW mhz \in Int
  PROVE  HeuristicCap(core, mhz) \in Int
<1> DEFINE v == Or(core, 8) * One
           w == Or(mhz, 2000) * One
           share == Clamp(Div(v, 8 * One), 0, One)
           speed == Clamp(Div(w, 3500 * One), 0, One)
           low == Milli(400)
           high == Milli(600)
           a == Mul(share, low)
           b == Mul(speed, high)
<1>1. HeuristicCap(core, mhz) = Clamp(a + b, 0, One)
  BY DEF HeuristicCap
<1>2. v \in Int
  BY OneAssumption DEF Or
<1>3. w \in Int
  BY OneAssumption DEF Or
<1>4. low \in Int
  BY MilliNat
<1>5. high \in Int
  BY MilliNat
<1> HIDE DEF v, w, low, high
<1>6. share \in Int
  BY <1>2, ShareOfUnits
<1>7. speed \in Int
  <2>1. 3500 \in Nat \ {0}
    OBVIOUS
  <2> QED BY ONLY <1>3, <2>1, ShareOfUnits
<1> HIDE DEF share, speed
<1>8. a \in Int
  BY <1>4, <1>6, MulInt
<1>9. b \in Int
  BY <1>5, <1>7, MulInt
<1> HIDE DEF a, b
<1>10. a + b \in Int
  BY <1>8, <1>9
<1> QED BY <1>1, <1>10, OneAssumption DEF Clamp

\* The index of a device's heat is a share, whichever of its files can be read
\* (tune.c:71-102).
LEMMA ThermRange ==
  ASSUME NEW dev \in Devices
  PROVE  Metrics(dev).therm \in 0..One
<1> DEFINE mhz == Or(MaxFreq(dev), 2000)
           eas == Capacity(dev).ok /\ Capacity(dev).most > 0 /\ MaxFreq(dev) > 0
           known == Clamp(Div(Capacity(dev).total * One, 8192 * One), 0, One)
           rel == IF eas THEN known ELSE HeuristicCap(dev.cores, mhz)
           speed == Clamp(Div(mhz * One, 3500 * One), 0, One)
<1>1. dev.cores \in Int /\ mhz \in Int
  BY DeviceAssumption, MaxFreqNat DEF Or
<1>2. Metrics(dev).therm = Clamp(Mul(rel, speed), 0, One)
  BY DEF Metrics
<1> HIDE DEF mhz, eas
<1>3. known \in Int
  <2> DEFINE load == Capacity(dev).total * One
  <2>1. load \in Int
    BY TotalInt, OneAssumption
  <2>2. 8192 \in Nat \ {0}
    OBVIOUS
  <2> HIDE DEF load
  <2>3. Clamp(Div(load, 8192 * One), 0, One) \in Int
    BY ONLY <2>1, <2>2, ShareOfUnits
  <2> QED BY <2>3 DEF load
<1>4. HeuristicCap(dev.cores, mhz) \in Int
  BY <1>1, HeuristicInt
<1> HIDE DEF known
<1>5. rel \in Int
  BY <1>3, <1>4
<1>6. speed \in Int
  <2> DEFINE fast == mhz * One
  <2>1. fast \in Int
    BY <1>1, OneAssumption
  <2>2. 3500 \in Nat \ {0}
    OBVIOUS
  <2> HIDE DEF fast
  <2>3. Clamp(Div(fast, 3500 * One), 0, One) \in Int
    BY ONLY <2>1, <2>2, ShareOfUnits
  <2> QED BY <2>3 DEF fast
<1> HIDE DEF rel, speed
<1>7. Mul(rel, speed) \in Int
  BY <1>5, <1>6, MulInt
<1> QED BY <1>2, <1>7, OneAssumption DEF Clamp

-----------------------------------------------------------------------------
(* The types *)

\* A calibrated gain or limit lies between the two ends of its field.
LEMMA TunedNat ==
  ASSUME NEW from \in Nat, NEW to \in Nat, NEW index \in 0..One
  PROVE  Tuned(from, to, index) \in Nat
<1> DEFINE a == Milli(from)  b == Milli(to)
<1>1. a \in Nat /\ b \in Nat
  BY MilliNat
<1>2. Mul(b - a, index) \in Int
  BY <1>1, MulInt, OneAssumption
<1>. HIDE DEF a, b
<1>3. Clamp(a + Mul(b - a, index), IF a < b THEN a ELSE b, IF a < b THEN b ELSE a) \in Nat
  BY <1>1, <1>2 DEF Clamp
<1>. QED BY <1>3 DEF Tuned, Lerp, a, b

\* The set point's base is a number whatever the trip points say.
LEMMA TripTempInt ==
  ASSUME NEW d, NEW fallback \in Int
  PROVE  TripTemp(d, fallback) \in Int
<1>1. \A temp : temp \in (40 * One)..(115 * One) => temp \in Int
  BY OneAssumption
<1>. QED BY <1>1 DEF TripTemp

Configs == [limitCpu : Int, limitBat : Int, ki : Nat, kp : Nat, kd : Nat]

LEMMA TuneThermalType ==
  ASSUME NEW device \in Devices, NEW trip \in Int
  PROVE  TuneThermal(Metrics(device), trip) \in Configs
<1> DEFINE therm == Metrics(device).therm
<1>1. therm \in 0..One
  BY ThermRange
<1>. HIDE DEF therm
<1>2. Clamp(trip - 5 * One, 45 * One, 90 * One) \in Int
  BY OneAssumption DEF Clamp
<1>3. /\ Tuned(42000, 38000, therm) \in Nat /\ Tuned(5, 15, therm) \in Nat
      /\ Tuned(450, 900, therm) \in Nat /\ Tuned(600, 1300, therm) \in Nat
  <2>1. Tuned(42000, 38000, therm) \in Nat
    BY <1>1, TunedNat
  <2>2. Tuned(5, 15, therm) \in Nat
    BY <1>1, TunedNat
  <2>3. Tuned(450, 900, therm) \in Nat
    BY <1>1, TunedNat
  <2>4. Tuned(600, 1300, therm) \in Nat
    BY <1>1, TunedNat
  <2>. QED BY <2>1, <2>2, <2>3, <2>4
<1>. QED BY <1>2, <1>3 DEF TuneThermal, Configs, therm

LEMMA InputType ==
  ASSUME NEW in \in AllInputs
  PROVE  in.temp \in Int /\ in.vel \in Int /\ in.bat \in Int /\ in.gap \in Nat
<1>1. in.temp \in Temps \cup {0} /\ in.vel \in Velocities
  BY DEF AllInputs
<1>2. in.bat \in Batteries /\ in.gap \in Gaps
  BY DEF AllInputs
<1>3. \A t \in Temps \cup {0} : t \in Int
  BY InputAssumption
<1>4. in.vel \in Int /\ in.bat \in Int /\ in.gap \in Nat
  BY <1>1, <1>2, InputAssumption, Zenon
<1>. QED BY <1>1, <1>3, <1>4

\* The parts of an update are numbers.
LEMMA ErrorType ==
  ASSUME NEW c \in Configs, NEW in \in AllInputs
  PROVE  SetPoint(c, in.bat) \in Int /\ Error(c, in) \in Int
<1>1. Clamp(c.limitBat - in.bat, 0, 5 * One) \in Int
  BY InputType, OneAssumption DEF Clamp, Configs
<1>. QED BY <1>1, InputType, OneAssumption DEF SetPoint, Error, Configs

LEMMA GainType ==
  ASSUME NEW c \in Configs, NEW in \in AllInputs, NEW base \in Nat
  PROVE  Gain(base, c, in) \in Int
<1> DEFINE dist == SetPoint(c, in.bat) - in.temp
           divisor == IF dist < Milli(100) THEN Milli(100) ELSE dist
<1>1. dist \in Int
  BY ErrorType, InputType
<1>2. divisor \in Nat \ {0}
  BY <1>1, TenthPositive
<1>3. Div(base, divisor) \in Int
  BY <1>2, DivFixInt
<1>. QED BY <1>3 DEF Gain

LEMMA DtType ==
  ASSUME NEW in \in AllInputs
  PROVE  Dt(in) \in Int
<1>1. in.gap * One \in Int
  BY InputType, OneAssumption
<1>. QED BY <1>1, MilliNat, OneAssumption DEF Dt, Clamp

\* The integral an update works with lies in its range, whatever it was before.
LEMMA IntegralType ==
  ASSUME NEW c \in Configs, NEW in \in AllInputs, NEW p, p.integ \in Int
  PROVE  /\ Integral(c, p, in) \in Int
         /\ -50 * One <= Integral(c, p, in) /\ Integral(c, p, in) <= 50 * One
<1> DEFINE q == Restarted(c, p, in)
           gained == Mul(Mul(Gain(c.ki, c, in), Error(c, in)), Dt(in))
<1>1. q.integ \in Int
  BY DEF Restarted
<1>2. gained \in Int
  BY GainType, ErrorType, DtType, MulInt DEF Configs
<1>3. Integral(c, p, in) = Clamp(q.integ + gained, -50 * One, 50 * One)
  BY DEF Integral, Accumulated
<1>. HIDE DEF q, gained
<1> DEFINE lo == -50 * One  hi == 50 * One  sum == q.integ + gained
<1>4. lo \in Int /\ hi \in Int /\ lo <= hi /\ sum \in Int
  BY <1>1, <1>2, OneAssumption
<1>5. Integral(c, p, in) = Clamp(sum, lo, hi)
  BY <1>3
<1>. HIDE DEF lo, hi, sum
<1>6. Integral(c, p, in) \in Int /\ lo <= Integral(c, p, in) /\ Integral(c, p, in) <= hi
  BY <1>4, <1>5, ClampBetween
<1>. QED BY <1>6 DEF lo, hi

LEMMA ProportionalType ==
  ASSUME NEW c \in Configs, NEW in \in AllInputs
  PROVE  Mul(Gain(c.kp, c, in), Error(c, in)) \in Int
  BY GainType, ErrorType, MulInt DEF Configs

LEMMA DerivativeType ==
  ASSUME NEW c \in Configs, NEW vel \in Int
  PROVE  LET boost == IF vel > 0 THEN Mul(2 * One, vel) ELSE 0
         IN  /\ Mul(c.kd + boost, vel) \in Int
             /\ vel >= 0 => Mul(c.kd + boost, vel) >= 0
<1> DEFINE boost == IF vel > 0 THEN Mul(2 * One, vel) ELSE 0
<1>1. boost \in Nat
  <2>1. CASE vel > 0
    <3>1. 2 * One \in Nat /\ vel \in Nat
      BY <2>1, OneAssumption
    <3>. QED BY <2>1, <3>1, MulNat
  <2>. QED BY <2>1
<1>2. c.kd \in Nat
  BY DEF Configs
<1>. HIDE DEF boost
<1> DEFINE gain == c.kd + boost
<1>3. gain \in Nat
  BY <1>1, <1>2
<1>. HIDE DEF gain
<1>4. Mul(gain, vel) \in Int
  BY <1>3, MulInt
<1>5. ASSUME vel >= 0 PROVE Mul(gain, vel) >= 0
  <2>1. vel \in Nat
    BY <1>5
  <2>2. Mul(gain, vel) \in Nat
    BY <1>3, <2>1, MulNat
  <2>. QED BY <2>2
<1>. QED BY <1>4, <1>5 DEF boost, gain

LEMMA RawType ==
  ASSUME NEW c \in Configs, NEW in \in AllInputs, NEW integ \in Int
  PROVE  /\ Raw(c, integ, in) \in Int
         /\ in.vel >= 0 =>
              Raw(c, integ, in) >= Mul(Gain(c.kp, c, in), Error(c, in)) + integ
<1> DEFINE boost == IF in.vel > 0 THEN Mul(2 * One, in.vel) ELSE 0
           prop == Mul(Gain(c.kp, c, in), Error(c, in))
           deriv == Mul(c.kd + boost, in.vel)
<1>1. prop \in Int
  BY ProportionalType
<1>2. in.vel \in Int
  BY InputType
<1>3. deriv \in Int /\ (in.vel >= 0 => deriv >= 0)
  BY <1>2, DerivativeType
<1>4. Raw(c, integ, in) = prop + integ + deriv
  BY DEF Raw
<1>. HIDE DEF boost, prop, deriv
<1>5. Raw(c, integ, in) \in Int /\ (in.vel >= 0 => Raw(c, integ, in) >= prop + integ)
  BY <1>1, <1>3, <1>4
<1>. QED BY <1>5 DEF prop

LEMMA SatType ==
  ASSUME NEW raw \in Int
  PROVE  Sat(raw) \in Int
  BY OneAssumption DEF Sat, Clamp

LEMMA DrainedType ==
  ASSUME NEW integ \in Int, NEW raw \in Int, NEW count \in Nat, NEW dt \in Int
  PROVE  Drained(integ, raw, count, dt) \in Int
<1> DEFINE excess == raw - Sat(raw)
           strength == Milli(1950) + Mul(Milli(100), count * One)
           drain == Mul(Mul(excess, strength), dt)
<1>1. excess \in Int
  BY SatType
<1>2. strength \in Int
  <2>1. count * One \in Int
    BY OneAssumption
  <2>2. Milli(100) \in Nat /\ Milli(1950) \in Nat
    BY MilliNat
  <2>3. Mul(Milli(100), count * One) \in Int
    BY <2>1, <2>2, MulInt
  <2>. QED BY <2>2, <2>3
<1>. HIDE DEF excess, strength
<1>3. drain \in Int
  BY <1>1, <1>2, MulInt
<1>4. Drained(integ, raw, count, dt) =
        IF Abs(excess) <= Milli(1) THEN integ
        ELSE IF (integ > 0 /\ drain > integ) \/ (integ < 0 /\ drain < integ) THEN 0
        ELSE integ - drain
  BY DEF Drained, excess, strength
<1>. HIDE DEF drain
<1>. QED BY <1>3, <1>4

PidStates == [integ : Int, full : BOOLEAN, sat : 0..SatMax]

LEMMA RestartedType ==
  ASSUME NEW c, NEW in, NEW p \in PidStates
  PROVE  Restarted(c, p, in) \in PidStates
  BY ControlAssumption DEF Restarted, PidStates

\* Whatever an update starts from, it leaves a state of the controller behind.
LEMMA UpdatedType ==
  ASSUME NEW c \in Configs, NEW in \in AllInputs, NEW p \in PidStates
  PROVE  Updated(c, p, in) \in PidStates
<1> DEFINE start == Restarted(c, p, in)
           integ == Integral(c, p, in)
           raw == Raw(c, integ, in)
           count == SatCount(start)
<1>1. start \in PidStates
  BY RestartedType
<1>2. integ \in Int
  BY IntegralType DEF PidStates
<1>. HIDE DEF start, integ
<1>3. raw \in Int
  BY <1>2, RawType
<1>4. count \in 0..SatMax
  BY <1>1, ControlAssumption DEF SatCount, PidStates
<1>. HIDE DEF raw, count
<1>5. Drained(integ, raw, count, Dt(in)) \in Int
  BY <1>2, <1>3, <1>4, DtType, DrainedType, ControlAssumption
<1>6. Updated(c, p, in) =
        [integ |-> Drained(integ, raw, count, Dt(in)), full |-> Sat(raw) >= 100 * One,
         sat |-> count]
  BY DEF Updated, start, integ, raw, count
<1>7. (Sat(raw) >= 100 * One) \in BOOLEAN
  OBVIOUS
<1>. HIDE DEF start, integ, raw, count
<1>. QED BY <1>4, <1>5, <1>6, <1>7 DEF PidStates

-----------------------------------------------------------------------------
(* The invariant *)

LEMMA InitType == Init => TypeOK
<1>. SUFFICES ASSUME Init PROVE TypeOK
  OBVIOUS
<1>1. dir \in Directories \cup {<<>>} /\ sensor \in BOOLEAN /\ fresh \in BOOLEAN
  BY DEF Init
<1>2. cfg \in [limitCpu : Int, limitBat : Int, ki : Nat, kp : Nat, kd : Nat]
  BY DEF Init, Unset
<1>3. pid \in [integ : Int, full : BOOLEAN, sat : 0..SatMax]
  BY ControlAssumption DEF Init, Cold
<1>4. settled \subseteq AllInputs
  BY DEF Init
<1>. QED BY <1>1, <1>2, <1>3, <1>4 DEF TypeOK

LEMMA StepType == TypeOK /\ [Next]_vars => TypeOK'
<1>. SUFFICES ASSUME TypeOK, [Next]_vars PROVE TypeOK'
  OBVIOUS
<1>. USE DEF TypeOK
<1>1. ASSUME NEW device \in Devices, Boot(device) PROVE TypeOK'
  <2>1. Milli(57500) \in Int
    BY MilliNat
  <2>2. TripTemp(dir, Milli(57500)) \in Int
    BY <2>1, TripTempInt
  <2>3. cfg' \in [limitCpu : Int, limitBat : Int, ki : Nat, kp : Nat, kd : Nat]
    BY <1>1, <2>2, TuneThermalType DEF Boot, Configs
  <2>4. sensor' \in BOOLEAN /\ dir' = <<>>
    BY <1>1 DEF Boot
  <2>. QED BY <1>1, <2>3, <2>4 DEF Boot
<1>2. ASSUME NEW in \in Inputs, Update(in) PROVE TypeOK'
  <2>1. in \in AllInputs
    BY DEF Inputs
  <2>2. cfg \in Configs /\ pid \in PidStates
    BY DEF Configs, PidStates
  <2>3. Updated(cfg, pid, in) \in PidStates
    BY <2>1, <2>2, UpdatedType
  <2>4. pid' \in [integ : Int, full : BOOLEAN, sat : 0..SatMax]
    BY <1>2, <2>3 DEF Update, PidStates
  <2>. QED BY <1>2, <2>4 DEF Update
<1>3. CASE Settle
  <2>1. settled' \subseteq AllInputs
    BY <1>3 DEF Settle, Inputs
  <2>. QED BY <1>3, <2>1 DEF Settle
<1>4. CASE UNCHANGED vars
  BY <1>4 DEF vars
<1>. QED BY <1>1, <1>2, <1>3, <1>4 DEF Next, Boots, Updates

\* The calibrated set point, limits and gains are numbers, the gains not negative, and the
\* controller's state stays within its types, for every device and directory.
THEOREM TypeCorrect == Spec => []TypeOK
<1>1. Init => TypeOK
  BY InitType
<1>2. TypeOK /\ [Next]_vars => TypeOK'
  BY StepType
<1>. QED BY <1>1, <1>2, PTL DEF Spec

-----------------------------------------------------------------------------
(* Hot zones *)

\* An output at or past the top of the range restricts as far as the scale goes.
LEMMA FullRestriction ==
  ASSUME NEW raw \in Int, raw >= 100 * One, NEW top \in Int, Milli(100) <= top
  PROVE  Clamp(One - Div(Sat(raw), 100 * One), Milli(100), top) = Milli(100)
<1>1. Sat(raw) = 100 * One
  BY OneAssumption DEF Sat, Clamp
<1>2. Div(100 * One, 100 * One) = One
  <2> DEFINE k == 100 * One
  <2>1. k \in Nat \ {0} /\ One \in Nat
    BY OneAssumption
  <2>. HIDE DEF k
  <2>2. (k * One) \div k = One
    BY <2>1, DivExact
  <2>3. Div(k, k) = (k * One) \div k
    BY <2>1 DEF Div
  <2>. QED BY <2>2, <2>3 DEF k
<1>3. Div(Sat(raw), 100 * One) = One
  BY <1>1, <1>2
<1>4. One - Div(Sat(raw), 100 * One) = 0
  BY <1>3, OneAssumption
<1>. QED BY <1>4, TenthPositive DEF Clamp

LEMMA HotUpdate ==
  ASSUME NEW c \in Configs, NEW in \in AllInputs, NEW p \in PidStates, in.vel >= 0,
         Mul(Gain(c.kp, c, in), Error(c, in)) >= 150 * One
  PROVE  Scale(c, p, in) = Milli(100)
<1> DEFINE integ == Integral(c, p, in)
           prop == Mul(Gain(c.kp, c, in), Error(c, in))
           raw == Raw(c, integ, in)
           top == IF in.bat >= c.limitBat THEN Milli(200) ELSE One
<1>1. integ \in Int /\ -50 * One <= integ
  BY IntegralType DEF PidStates
<1>2. prop \in Int /\ prop >= 150 * One
  BY ProportionalType
<1>. HIDE DEF integ
<1>3. raw \in Int /\ raw >= prop + integ
  BY <1>1, RawType
<1>. HIDE DEF prop, raw
<1>4. raw >= 100 * One
  BY <1>1, <1>2, <1>3, OneAssumption
<1>5. top \in Int /\ Milli(100) <= top
  <2>1. One * 100 <= One * 200 /\ One * 100 <= One * 1000
    BY OneAssumption
  <2>2. (100 * One) \div 1000 <= (200 * One) \div 1000 /\ (100 * One) \div 1000 <= One
    BY OneAssumption
  <2>3. Milli(200) \in Nat
    BY MilliNat
  <2>. QED BY <2>2, <2>3, OneAssumption DEF Milli
<1>. HIDE DEF top
<1>6. Clamp(One - Div(Sat(raw), 100 * One), Milli(100), top) = Milli(100)
  BY <1>3, <1>4, <1>5, FullRestriction
<1>. QED BY <1>6 DEF Scale, raw, integ, top

\* A zone far enough above the set point that is not cooling is restricted as far as it
\* goes by the next update, for every past (thermal.c:62-67).
THEOREM HotRestrictsHolds == Spec => []HotRestricts
<1>1. TypeOK => HotRestricts
  <2>. SUFFICES ASSUME TypeOK, NEW in \in Inputs, in.vel >= 0,
                       Mul(Gain(cfg.kp, cfg, in), Error(cfg, in)) >= 150 * One
                PROVE  Scale(cfg, pid, in) = Milli(100)
    BY DEF HotRestricts
  <2>1. cfg \in Configs /\ pid \in PidStates /\ in \in AllInputs
    BY DEF TypeOK, Configs, PidStates, Inputs
  <2>. QED BY <2>1, HotUpdate
<1>. QED BY <1>1, TypeCorrect, PTL

-----------------------------------------------------------------------------
(* Gaps *)

\* An update after a gap below the set point does not depend on what was before it
\* (thermal.c:39-47).
THEOREM GapForgetsHolds == Spec => []GapForgets
<1>1. GapForgets
  <2>. SUFFICES ASSUME NEW in \in Inputs, in.gap > Stale, in.temp < SetPoint(cfg, in.bat)
                PROVE  /\ Updated(cfg, pid, in) = Updated(cfg, Cold, in)
                       /\ Scale(cfg, pid, in) = Scale(cfg, Cold, in)
    BY DEF GapForgets
  <2>1. in.gap \in Nat
    BY InputType DEF Inputs
  <2>2. Restarted(cfg, pid, in) = Restarted(cfg, Cold, in)
    BY <2>1, ControlAssumption DEF Restarted
  <2>3. Integral(cfg, pid, in) = Integral(cfg, Cold, in)
    BY <2>2 DEF Integral
  <2>. QED BY <2>2, <2>3 DEF Updated, Scale
<1>. QED BY <1>1, PTL

-----------------------------------------------------------------------------
(* What is found at boot *)

LEMMA MinIsLeast ==
  ASSUME NEW S \in SUBSET Nat, S # {}
  PROVE  Min(S) \in S /\ \A y \in S : Min(S) <= y
<1> DEFINE R == {ss \in Nat \X Nat : ss[1] < ss[2]}
<1>0. IsWellFoundedOn(R, Nat)
  BY NatLessThanWellFounded DEF OpToRel
<1>. HIDE DEF R
<1>a. \E n \in S : \A m \in S : ~(<<m, n>> \in R)
  BY <1>0, WFMin
<1>1. \E n \in S : \A m \in S : n <= m
  <2>1. PICK n \in S : \A m \in S : ~(<<m, n>> \in R)
    BY <1>a
  <2>2. ASSUME NEW m \in S PROVE n <= m
    <3>1. ~(<<m, n>> \in R) /\ m \in Nat /\ n \in Nat
      BY <2>1
    <3>2. ~(m < n)
      BY <3>1 DEF R
    <3>. QED BY <3>1, <3>2
  <2>. QED BY <2>2
<1>. QED BY <1>1 DEF Min

LEMMA ListingType ==
  ASSUME NEW d \in Directories \cup {<<>>}
  PROVE  /\ DOMAIN d \subseteq Nat \ {NoZone}
         /\ \A z \in DOMAIN d : DOMAIN d[z].trips \subseteq Nat
<1>1. CASE d \in Directories
  BY <1>1, DirectoryAssumption
<1>2. CASE d = <<>>
  <2>1. DOMAIN d = {}
    BY <1>2
  <2>. QED BY <2>1
<1>. QED BY <1>1, <1>2

\* The trip point found is the default, or a trusted one.
LEMMA TripTrusted ==
  ASSUME dir \in Directories \cup {<<>>}, NEW fallback \in Int
  PROVE  TripTemp(dir, fallback) \in {fallback} \cup Trusted
<1> DEFINE temp == TripTemp(dir, fallback)
           z == Min(TripZones(dir))
           i == Min(Trips(dir[z]))
<1>. SUFFICES ASSUME temp # fallback
              PROVE  /\ temp \in (40 * One)..(115 * One)
                     /\ \E y \in DOMAIN dir : \E j \in DOMAIN dir[y].trips :
                          /\ j <= MaxTrips /\ dir[y].type # NoFile
                          /\ Listed(dir[y].type) \/ dir[y].type \in CpuLike \ Denied
                          /\ dir[y].trips[j].kind \in {"passive", "critical"}
                          /\ dir[y].trips[j].temp = temp
  BY DEF Trusted
<1>0. temp = IF TripZones(dir) = {} THEN fallback
             ELSE IF dir[z].trips[i].temp = NoFile THEN fallback
             ELSE IF dir[z].trips[i].temp \in (40 * One)..(115 * One)
                  THEN dir[z].trips[i].temp ELSE fallback
  BY DEF TripTemp
<1>1. TripZones(dir) # {} /\ temp = dir[z].trips[i].temp /\ temp \in (40 * One)..(115 * One)
  <2>. HIDE DEF temp, z, i
  <2>. QED BY <1>0, Zenon
<1>. HIDE DEF temp
<1>2. TripZones(dir) \in SUBSET Nat
  BY ListingType DEF TripZones
<1>3. z \in TripZones(dir)
  BY <1>1, <1>2, MinIsLeast
<1>. HIDE DEF z
<1>4. z \in DOMAIN dir /\ TypeValid(dir[z].type) /\ Trips(dir[z]) # {}
  BY <1>3 DEF TripZones
<1>5. Trips(dir[z]) \in SUBSET Nat
  BY <1>4, ListingType DEF Trips
<1>6. i \in Trips(dir[z])
  BY <1>4, <1>5, MinIsLeast
<1>. HIDE DEF i
<1>7. i \in DOMAIN dir[z].trips /\ i <= MaxTrips /\ dir[z].trips[i].kind \in {"passive", "critical"}
  BY <1>6 DEF Trips
<1>8. /\ dir[z].type # NoFile
      /\ Listed(dir[z].type) \/ dir[z].type \in CpuLike \ Denied
  BY <1>4 DEF TypeValid, ThermalValid
<1>. QED BY <1>1, <1>4, <1>7, <1>8

\* The default trip point leads to a set point within the bounds.
LEMMA DefaultSetPoint ==
  /\ Milli(57500) \in Int
  /\ 45 * One <= Milli(57500) - 5 * One /\ Milli(57500) - 5 * One <= 90 * One
<1>1. One \in Nat \ {0} /\ Milli(57500) = (57500 * One) \div 1000
  BY OneAssumption DEF Milli
<1>2. Milli(57500) \in Int
  BY <1>1
<1>3. 50 * One <= (57500 * One) \div 1000 /\ (57500 * One) \div 1000 <= 95 * One
  BY <1>1
<1>. QED BY <1>1, <1>2, <1>3

\* The set point is the default one or lies 5 degrees under a trusted trip point, but for
\* its bounds of 45 and 90, for every directory (scan.c:84-121, sensor.c:256-273,
\* tune.c:136-138).
THEOREM SetPointTrustedHolds == Spec => SetPointTrusted
<1> DEFINE set == cfg'.limitCpu
           At(trip) == CASE trip < 50 * One -> set = 45 * One
                         [] trip > 95 * One -> set = 90 * One
                         [] OTHER           -> set = trip - 5 * One
           Settled == set = Milli(57500) - 5 * One \/ \E trip \in Trusted : At(trip)
<1>1. TypeOK /\ [Next]_vars => [Booting => Settled]_vars
  <2>. SUFFICES ASSUME TypeOK, Next, Booting PROVE Settled
    OBVIOUS
  <2>1. PICK device \in Devices : Boot(device)
    BY DEF Next, Boots, Updates, Update, Settle
  <2> DEFINE temp == TripTemp(dir, Milli(57500))
  <2>2. temp \in {Milli(57500)} \cup Trusted
    BY DefaultSetPoint, TripTrusted DEF TypeOK
  <2>3. set = Clamp(temp - 5 * One, 45 * One, 90 * One)
    BY <2>1 DEF Boot, TuneThermal
  <2>. HIDE DEF temp, set
  <2>4. CASE temp = Milli(57500)
    <3>. HIDE DEF At
    <3> DEFINE shipped == Milli(57500)
    <3>1. shipped \in Int /\ 45 * One <= shipped - 5 * One /\ shipped - 5 * One <= 90 * One
      BY DefaultSetPoint
    <3>2. temp = shipped
      BY <2>4
    <3>. HIDE DEF shipped
    <3>3. set = shipped - 5 * One
      BY <2>3, <3>1, <3>2, OneAssumption DEF Clamp
    <3>. QED BY <3>3 DEF shipped
  <2>5. CASE temp \in Trusted
    <3>1. temp \in Int
      BY <2>5, OneAssumption DEF Trusted
    <3>2. At(temp)
      BY <2>3, <3>1, OneAssumption DEF Clamp
    <3>. QED BY <2>5, <3>2
  <2>. QED BY <2>2, <2>4, <2>5
<1>. QED BY <1>1, TypeCorrect, PTL DEF Spec, SetPointTrusted

\* A listed zone found bears the first name of the list that any zone kept bears.
LEMMA PriorityFirst ==
  ASSUME NEW d \in Directories \cup {<<>>}, FindPriority(d) # NoZone
  PROVE  \E p \in DOMAIN Priority :
           /\ d[FindPriority(d)].type = Priority[p]
           /\ \A z \in Kept(d), q \in DOMAIN Priority : q < p => d[z].type # Priority[q]
<1> DEFINE Bearing(p) == {z \in Kept(d) : d[z].type = Priority[p]}
           hits == {p \in DOMAIN Priority : Bearing(p) # {}}
           best == Min(hits)
<1>1. hits # {} /\ FindPriority(d) = Min(Bearing(best))
  BY DEF FindPriority
<1>2. hits \in SUBSET Nat
  BY PriorityAssumption
<1>3. best \in hits /\ \A q \in hits : best <= q
  BY <1>1, <1>2, MinIsLeast
<1>4. Bearing(best) \in SUBSET Nat
  BY ListingType DEF Kept
<1>5. Min(Bearing(best)) \in Bearing(best)
  BY <1>3, <1>4, MinIsLeast
<1>6. d[FindPriority(d)].type = Priority[best]
  BY <1>1, <1>5
<1>7. ASSUME NEW z \in Kept(d), NEW q \in DOMAIN Priority, q < best
      PROVE  d[z].type # Priority[q]
  <2>1. q \in Nat /\ best \in Nat /\ ~(best <= q)
    <3>1. q \in Nat /\ best \in Nat
      BY <1>2, <1>3, PriorityAssumption
    <3>. HIDE DEF best
    <3>. QED BY <3>1, <1>7
  <2>2. q \notin hits
    BY <1>3, <2>1
  <2>. QED BY <2>2
<1>8. best \in DOMAIN Priority
  BY <1>3
<1>. HIDE DEF best
<1>. QED BY <1>6, <1>7, <1>8

LEMMA NoPriority ==
  ASSUME NEW d \in Directories \cup {<<>>}, FindPriority(d) = NoZone
  PROVE  \A z \in Kept(d) : ~Listed(d[z].type)
<1>. SUFFICES ASSUME NEW z \in Kept(d), NEW p \in DOMAIN Priority, Priority[p] = d[z].type
              PROVE  FALSE
  BY DEF Listed
<1> DEFINE Bearing(q) == {y \in Kept(d) : d[y].type = Priority[q]}
           hits == {q \in DOMAIN Priority : Bearing(q) # {}}
           best == Min(hits)
<1>1. p \in hits
  OBVIOUS
<1>2. hits \in SUBSET Nat
  BY PriorityAssumption
<1>3. best \in hits
  BY <1>1, <1>2, MinIsLeast
<1>4. Bearing(best) \in SUBSET (Nat \ {NoZone})
  BY ListingType DEF Kept
<1>5. Min(Bearing(best)) \in Bearing(best)
  BY <1>3, <1>4, MinIsLeast
<1>6. FindPriority(d) = Min(Bearing(best))
  BY <1>1 DEF FindPriority
<1>. QED BY <1>4, <1>5, <1>6

LEMMA HeuristicFinds ==
  ASSUME NEW d \in Directories \cup {<<>>}
  PROVE  /\ FindHeuristic(d) # NoZone => ThermalValid(d[FindHeuristic(d)].type)
         /\ FindHeuristic(d) = NoZone => \A z \in Kept(d) : ~ThermalValid(d[z].type)
<1> DEFINE hits == {z \in Kept(d) : ThermalValid(d[z].type)}
<1>1. hits \in SUBSET (Nat \ {NoZone})
  BY ListingType DEF Kept
<1>2. CASE hits = {}
  BY <1>2 DEF FindHeuristic
<1>3. CASE hits # {}
  <2>1. Min(hits) \in hits
    BY <1>1, <1>3, MinIsLeast
  <2>2. FindHeuristic(d) = Min(hits)
    BY <1>3 DEF FindHeuristic
  <2>. QED BY <1>1, <2>1, <2>2
<1>. QED BY <1>2, <1>3

\* The zone measured is the best of those kept, for every directory, table size and list
\* of names (scan.c:123-220).
THEOREM MeasuresBestHolds == Spec => []MeasuresBest
<1>1. TypeOK => MeasuresBest
  <2>. SUFFICES ASSUME TypeOK PROVE MeasuresBest
    OBVIOUS
  <2>1. dir \in Directories \cup {<<>>}
    BY DEF TypeOK
  <2>2. CASE FindPriority(dir) # NoZone
    <3>1. ThermalZone(dir) = FindPriority(dir)
      BY <2>2 DEF ThermalZone
    <3>. QED BY <2>1, <2>2, <3>1, PriorityFirst DEF MeasuresBest
  <2>3. CASE FindPriority(dir) = NoZone
    <3>1. ThermalZone(dir) = FindHeuristic(dir)
      BY <2>3 DEF ThermalZone
    <3>2. \A z \in Kept(dir) : ~Listed(dir[z].type)
      BY <2>1, <2>3, NoPriority
    <3>3. /\ FindHeuristic(dir) # NoZone => ThermalValid(dir[FindHeuristic(dir)].type)
          /\ FindHeuristic(dir) = NoZone => \A z \in Kept(dir) : ~ThermalValid(dir[z].type)
      BY <2>1, HeuristicFinds
    <3>. QED BY <3>1, <3>2, <3>3 DEF MeasuresBest, TypeValid
  <2>. QED BY <2>2, <2>3
<1>. QED BY <1>1, TypeCorrect, PTL
=============================================================================
