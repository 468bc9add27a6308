------------------------------ MODULE DemandProofs ------------------------------
(***************************************************************************)
(* What the governor does with a demand, for every device, every limit and *)
(* every fixed point.  Of its pace: the waits stay between the limits, and *)
(* a tick is taken as late when it is, but never when it is not.  Of its   *)
(* mapping: the daemon keeps off the fast cores, what is asked of the      *)
(* tunables stays within the limits calibrated for the device, and all of  *)
(* it moves one way as long as the trend does.  Of the demand itself: its  *)
(* roots are exact, and it keeps its range with a rate that is a number.   *)
(***************************************************************************)
EXTENDS Pacing, Mapping, FiniteSetTheorems, WellFoundedInduction, TLAPS

-----------------------------------------------------------------------------
(* The pace: pg_poll_calc_next() and the governor that calls it            *)

LEMMA Positive ==
  /\ MinPoll \in Nat \ {0} /\ MaxPoll \in Nat \ {0} /\ MinPoll <= MaxPoll
  /\ Grow \in Nat \ {0} /\ Tolerance \in Nat \ {0}
  /\ Round \in Nat \ {0} /\ Percent \in Nat \ {0}
  BY PollAssumption

\* The way through Q16 loses at most a millisecond, and never adds one
\* (pg_dt_sec(), and the shift back at poll.c:93).
LEMMA MeasuredBound ==
  ASSUME NEW ms \in Nat
  PROVE  Measured(ms) \in Nat /\ ms - 1 <= Measured(ms) /\ Measured(ms) <= ms
<1> DEFINE a == ms \div 1000
           b == ms % 1000
           q == (b * 65536) \div 1000
           r == (q * 1000) \div 65536
<1>1. a \in Nat /\ b \in 0..999 /\ ms = a * 1000 + b
  OBVIOUS
<1>2. q \in Nat /\ q * 1000 <= b * 65536 /\ b * 65536 < q * 1000 + 1000
  <2> HIDE DEF a, b
  <2> QED BY <1>1
<1>3. r \in Nat /\ b - 1 <= r /\ r <= b
  <2> HIDE DEF a, b, q
  <2> QED BY <1>1, <1>2
<1>4. ((a * 65536 + q) * 1000) \div 65536 = a * 1000 + r
  <2> HIDE DEF a, b, q
  <2>1. (a * 65536 + q) * 1000 = (a * 1000) * 65536 + q * 1000
    BY <1>1, <1>2
  <2> QED BY <1>1, <1>2, <1>3, <2>1
<1>5. Measured(ms) = a * 1000 + r
  BY <1>4 DEF Measured
<1> HIDE DEF a, b, q, r
<1> QED BY <1>1, <1>3, <1>5

LEMMA BoundedRange ==
  ASSUME NEW x \in Int
  PROVE  Bounded(x) \in MinPoll..MaxPoll /\ (x <= MaxPoll => Bounded(x) >= x)
  BY Positive DEF Bounded

LEMMA WaitsRange ==
  ASSUME NEW ivl \in Nat
  PROVE  Waits(ivl) \subseteq MinPoll..MaxPoll
<1> DEFINE rounded == ((ivl + Round \div 2) \div Round) * Round
           mid == Bounded(rounded)
           amp == (mid * Percent) \div 100
<1>1. rounded \in Int
  <2>1. Round \in Nat \ {0} /\ Round \div 2 \in Nat
    BY Positive
  <2>2. (ivl + Round \div 2) \div Round \in Int
    BY <2>1
  <2> QED BY <2>1, <2>2
<1>2. mid \in MinPoll..MaxPoll
  BY <1>1, BoundedRange
<1>3. amp \in Int
  <2> HIDE DEF mid
  <2>1. mid \in Nat /\ Percent \in Nat
    BY <1>2, Positive
  <2>2. mid * Percent \in Nat
    BY <2>1
  <2> QED BY <2>2
<1>4. mid - amp \in Int /\ mid + amp \in Int
  <2> HIDE DEF mid, amp
  <2> QED BY <1>2, <1>3, Positive
<1>5. Bounded(mid - amp) \in MinPoll..MaxPoll /\ Bounded(mid + amp) \in MinPoll..MaxPoll
  BY <1>4, BoundedRange
<1>6. Waits(ivl) = {Bounded(mid - amp), mid, Bounded(mid + amp)}
  BY DEF Waits
<1> HIDE DEF mid, amp
<1> QED BY <1>2, <1>5, <1>6

LEMMA WantedRange ==
  ASSUME TypeOK, NEW branch \in {"surge", "load", "calm", "steady"}
  PROVE  Wanted(branch) \in MinPoll..MaxPoll /\ (branch = "calm" => Wanted(branch) >= cur_ivl)
<1>1. cur_ivl \in MinPoll..MaxPoll /\ cur_ivl \in Nat
  BY Positive DEF TypeOK
<1>2. CASE branch = "surge"
  BY <1>1, <1>2, Positive DEF Wanted
<1>3. CASE branch = "load"
  <2>1. Wanted(branch) = Bounded(cur_ivl \div 2)
    BY <1>3 DEF Wanted
  <2>2. cur_ivl \div 2 \in Int
    BY <1>1
  <2> QED BY <1>3, <2>1, <2>2, BoundedRange
<1>4. CASE branch = "calm"
  <2>1. Wanted(branch) = Bounded(cur_ivl + Grow)
    BY <1>4 DEF Wanted
  <2> QED BY <2>1, <1>1, Positive DEF Bounded
<1>5. CASE branch = "steady"
  <2>1. Wanted(branch) = Bounded(cur_ivl)
    BY <1>5 DEF Wanted
  <2> QED BY <2>1, <1>1, <1>5, BoundedRange
<1> QED BY <1>2, <1>3, <1>4, <1>5

LEMMA TypeStep == TypeOK /\ [Next]_vars => TypeOK'
<1> SUFFICES ASSUME TypeOK, [Next]_vars PROVE TypeOK'
  OBVIOUS
<1>1. CASE Next
  <2>1. PICK branch \in {"surge", "load", "calm", "steady"} :
          /\ over' \in Overshoots /\ calm' = (branch = "calm")
          /\ TickLate \/ TickInTime(branch)
    BY <1>1 DEF Next, Tick
  <2>2. over' \in Int
    BY <2>1 DEF Overshoots
  <2>3. calm' \in BOOLEAN
    BY <2>1
  <2>4. CASE TickLate
    BY <2>2, <2>3, <2>4, Positive DEF TickLate, TypeOK
  <2>5. CASE TickInTime(branch)
    <3>1. cur_ivl' \in MinPoll..MaxPoll
      BY <2>5, WantedRange DEF TickInTime, TypeOK
    <3>2. last_wait' \in MinPoll..MaxPoll
      BY <3>1, <2>5, WaitsRange, Positive DEF TickInTime
    <3> QED BY <3>1, <3>2, <2>2, <2>3 DEF TypeOK
  <2> QED BY <2>1, <2>4, <2>5
<1>2. CASE UNCHANGED vars
  BY <1>2 DEF vars, TypeOK
<1> QED BY <1>1, <1>2

\* The interval and the wait stay within the limits (poll.c:110-113, 67-71).
THEOREM TypeCorrect == Spec => []TypeOK
<1>1. Init => TypeOK
  <2> SUFFICES ASSUME Init PROVE TypeOK
    OBVIOUS
  <2>1. cur_ivl \in MinPoll..MaxPoll /\ last_wait \in MinPoll..MaxPoll /\ over \in Int
    BY Positive DEF Init
  <2>2. calm \in BOOLEAN
    BY DEF Init
  <2> QED BY <2>1, <2>2 DEF TypeOK
<1> QED BY <1>1, TypeStep, PTL DEF Spec

InPace ==
  /\ over' <= Tolerance /\ calm' => cur_ivl' >= cur_ivl
  /\ over' > Tolerance + 1 => last_wait' = MinPoll

\* A tick within the tolerance of the jittered wait is not late; one more than a
\* millisecond beyond it is (poll.c:93-99).
THEOREM PaceKeptHolds == Spec => PaceKept
<1>1. TypeOK /\ [Next]_vars => [InPace]_vars
  <2> SUFFICES ASSUME TypeOK, Next PROVE InPace
    OBVIOUS
  <2>1. PICK branch \in {"surge", "load", "calm", "steady"} :
          /\ over' \in Overshoots /\ calm' = (branch = "calm")
          /\ TickLate \/ TickInTime(branch)
    BY DEF Next, Tick
  <2> DEFINE elapsed == last_wait + over'
  <2>2. last_wait \in Nat /\ cur_ivl \in Nat
    BY Positive DEF TypeOK
  <2>3. over' \in Overshoots
    BY <2>1
  <2>4. over' \in Int /\ elapsed \in Nat
    <3>1. over' \in Int /\ over' >= -last_wait
      BY <2>3 DEF Overshoots
    <3>2. \A x \in Nat, y \in Int : y >= -x => x + y \in Nat
      OBVIOUS
    <3> QED BY <2>2, <3>1, <3>2
  <2>5. Measured(elapsed) \in Nat /\ elapsed - 1 <= Measured(elapsed) /\ Measured(elapsed) <= elapsed
    BY <2>4, MeasuredBound
  <2>6. over' <= Tolerance => ~Late(elapsed)
    BY <2>2, <2>4, <2>5, Positive DEF Late
  <2>7. over' > Tolerance + 1 => Late(elapsed)
    BY <2>2, <2>4, <2>5, Positive DEF Late
  <2>8. over' <= Tolerance /\ calm' => cur_ivl' >= cur_ivl
    <3> SUFFICES ASSUME over' <= Tolerance, calm' PROVE cur_ivl' >= cur_ivl
      OBVIOUS
    <3>1. branch = "calm" /\ TickInTime(branch)
      BY <2>1, <2>6 DEF TickLate
    <3>2. Wanted(branch) \in Nat /\ Wanted(branch) >= cur_ivl
      BY <3>1, WantedRange, Positive
    <3> QED BY <3>1, <3>2, <2>2 DEF TickInTime
  <2>9. over' > Tolerance + 1 => last_wait' = MinPoll
    BY <2>1, <2>7 DEF TickLate, TickInTime
  <2> QED BY <2>8, <2>9 DEF InPace
<1>2. [][InPace]_vars => PaceKept
  BY PTL DEF PaceKept, InPace
<1> QED BY <1>1, <1>2, TypeCorrect, PTL DEF Spec

-----------------------------------------------------------------------------
(* The governor that computes the pressure and decides when to come back   *)

LEMMA WakeAssumption == TransPoll \in Nat /\ Lateness \subseteq Nat
  BY PacingAssumption

\* A run, however it comes about, is a tick that ends a wait.
LEMMA RunTicks ==
  ASSUME TypeOK, NEW in, NEW elapsed \in Nat, NEW remap \in BOOLEAN, Run(in, elapsed, remap)
  PROVE  Next /\ wake' \in Nat
<1>1. last_wait \in Nat
  BY Positive DEF TypeOK
<1>2. over' \in Overshoots
  <2>1. over' = elapsed - last_wait
    BY DEF Run
  <2> QED BY <1>1, <2>1 DEF Overshoots
<1>3. \E branch \in {"surge", "load", "calm", "steady"} :
        calm' = (branch = "calm") /\ (TickLate \/ TickInTime(branch))
  BY DEF Run
<1>4. Next
  BY <1>2, <1>3 DEF Next, Tick
<1>5. TypeOK'
  BY <1>4, TypeStep
<1>6. last_wait' \in Nat
  BY <1>5, Positive DEF TypeOK
<1>7. wake' = TransPoll \/ wake' = last_wait'
  BY DEF Run, Wake
<1> QED BY <1>4, <1>6, <1>7, WakeAssumption

LEMMA PacingStep ==
  ASSUME TypeOK, wake \in Nat, [PacingNext]_pacingVars
  PROVE  [Next]_vars /\ wake' \in Nat
<1>1. ASSUME NEW reading \in Readings, AnyRun(reading) PROVE Next /\ wake' \in Nat
  <2>1. PICK elapsed \in {0} \cup {wake + late : late \in Lateness}, remap \in BOOLEAN :
          Run(reading, elapsed, remap)
    BY <1>1 DEF AnyRun
  <2>2. elapsed \in Nat
    BY <2>1, WakeAssumption
  <2> QED BY <2>1, <2>2, RunTicks
<1>2. ASSUME NEW reading \in Steady, Settle(reading) PROVE UNCHANGED vars /\ wake' = wake
  BY <1>2 DEF Settle
<1>3. CASE SteadyRun
  <2>1. PICK reading \in settled, remap \in BOOLEAN : Run(reading, wake, remap)
    BY <1>3 DEF SteadyRun
  <2> QED BY <2>1, RunTicks
<1>4. CASE UNCHANGED pacingVars
  BY <1>4 DEF pacingVars
<1> QED BY <1>1, <1>2, <1>3, <1>4 DEF PacingNext

\* Whatever the demand makes of the pressure, the governor paces itself as
\* pg_poll_calc_next() lets any caller (gov.c:217-236): every step of it is a tick or none.
THEOREM PacingImplements == PacingSpec => Spec
<1> DEFINE PacingInv == TypeOK /\ wake \in Nat
<1>1. PacingInit => Init /\ wake \in Nat
  BY Positive DEF PacingInit
<1>2. Init => TypeOK
  <2> SUFFICES ASSUME Init PROVE TypeOK
    OBVIOUS
  <2>1. cur_ivl \in MinPoll..MaxPoll /\ last_wait \in MinPoll..MaxPoll /\ over \in Int
    BY Positive DEF Init
  <2>2. calm \in BOOLEAN
    BY DEF Init
  <2> QED BY <2>1, <2>2 DEF TypeOK
<1>3. PacingInv /\ [PacingNext]_pacingVars => PacingInv' /\ [Next]_vars
  BY PacingStep, TypeStep
<1> QED BY <1>1, <1>2, <1>3, PTL DEF PacingSpec, Spec

\* The governor's runs keep the pace whatever demand they compute (gov.c:223, poll.c:93-99).
THEOREM PacingKeepsPace == PacingSpec => PaceKept
  BY PacingImplements, PaceKeptHolds, PTL

-----------------------------------------------------------------------------
(* Loops                                                                   *)

\* What holds at first and after each round holds after every one.
LEMMA Counting ==
  ASSUME NEW n \in Nat, NEW good, 0 \in good, \A i \in 1..n : i - 1 \in good => i \in good
  PROVE  0..n \subseteq good
<1> DEFINE R == {ss \in Nat \X Nat : ss[1] < ss[2]}
           bad == (0..n) \ good
<1>0. IsWellFoundedOn(R, Nat)
  BY NatLessThanWellFounded DEF OpToRel
<1>1. bad \subseteq Nat
  OBVIOUS
<1> SUFFICES ASSUME bad # {} PROVE FALSE
  OBVIOUS
<1>2. PICK x \in bad : \A y \in bad : ~(<<y, x>> \in R)
  <2> HIDE DEF R, bad
  <2> QED BY <1>0, <1>1, WFMin
<1>3. x \in 1..n /\ x - 1 \in 0..n
  BY <1>2
<1>4. x - 1 \notin good
  BY <1>3
<1>5. x - 1 \in bad /\ x - 1 \in Nat /\ x \in Nat /\ x - 1 < x
  BY <1>3, <1>4
<1>6. <<x - 1, x>> \in R
  BY <1>5
<1> QED BY <1>2, <1>5, <1>6

\* The course f of a loop over 1 to n: what it holds before the first round and after each
Course(f, n, S, first, step) ==
  /\ f \in [0..n -> S] /\ f[0] = first
  /\ \A i \in 1..n : f[i] = step[i][f[i - 1]]

\* A loop that starts from first and whose rounds keep it in S has its course.
LEMMA LoopExists ==
  ASSUME NEW n \in Nat, NEW S, NEW first \in S, NEW step \in [1..n -> [S -> S]]
  PROVE  \E f : Course(f, n, S, first, step)
<1> DEFINE Runs(f, k) == f[0] = first /\ \A i \in 1..k : f[i] = step[i][f[i - 1]]
           good == {k \in 0..n : \E f \in [0..k -> S] : Runs(f, k)}
<1>1. 0 \in good
  <2> DEFINE f == [i \in 0..0 |-> first]
  <2>1. f \in [0..0 -> S] /\ f[0] = first /\ 1..0 = {} /\ 0 \in 0..n
    OBVIOUS
  <2>2. Runs(f, 0)
    <3> HIDE DEF f
    <3> QED BY <2>1
  <2> HIDE DEF f, Runs
  <2> QED BY <2>1, <2>2
<1>2. ASSUME NEW k \in 1..n, k - 1 \in good PROVE k \in good
  <2>1. PICK f \in [0..(k - 1) -> S] : Runs(f, k - 1)
    <3> HIDE DEF Runs
    <3> QED BY <1>2
  <2> DEFINE next == step[k][f[k - 1]]
             g == [i \in 0..k |-> IF i = k THEN next ELSE f[i]]
  <2>2. next \in S
    <3>1. k - 1 \in 0..(k - 1)
      OBVIOUS
    <3> QED BY <3>1
  <2>3. \A i \in 0..k : i # k => i \in 0..(k - 1)
    OBVIOUS
  <2>4. g \in [0..k -> S]
    <3> HIDE DEF next
    <3> QED BY <2>1, <2>2, <2>3
  <2>5. g[0] = first
    <3>1. 0 \in 0..k /\ 0 # k
      OBVIOUS
    <3>2. f[0] = first
      BY <2>1
    <3> HIDE DEF next
    <3> QED BY <3>1, <3>2
  <2>6. ASSUME NEW i \in 1..k PROVE g[i] = step[i][g[i - 1]]
    <3>1. i - 1 \in 0..(k - 1) /\ i - 1 \in 0..k /\ i - 1 # k /\ i \in 0..k
      OBVIOUS
    <3>2. g[i - 1] = f[i - 1]
      BY <3>1
    <3>3. CASE i = k
      BY <3>1, <3>2, <3>3
    <3>4. CASE i # k
      <4>1. i \in 1..(k - 1)
        BY <3>4
      <4>2. g[i] = f[i]
        BY <3>1, <3>4
      <4> QED BY <4>1, <4>2, <3>2, <2>1
    <3> QED BY <3>3, <3>4
  <2>7. Runs(g, k)
    BY <2>5, <2>6
  <2>8. k \in 0..n
    OBVIOUS
  <2> HIDE DEF g, Runs
  <2> QED BY <2>4, <2>7, <2>8
<1>3. n \in good
  <2>1. \A i \in 1..n : i - 1 \in good => i \in good
    BY <1>2
  <2> HIDE DEF good
  <2>2. 0..n \subseteq good
    BY <1>1, <2>1, Counting
  <2> QED BY <2>2
<1>4. \E f \in [0..n -> S] : Runs(f, n)
  <2> HIDE DEF Runs
  <2> QED BY <1>3
<1> QED BY <1>4 DEF Course

-----------------------------------------------------------------------------
(* The cores of least capacity or frequency                                *)

\* Those of the cores 1 to count with the least value of a node that can be read
Lowest(node, count) == {i \in Readable(node, 1..count) :
                          \A j \in Readable(node, 1..count) : node[i] <= node[j]}

LEMMA LittleSetLeast ==
  ASSUME NEW count \in Nat, NEW node, \A i \in 1..count : node[i] \in Int
  PROVE  LittleSet(node, count) = Lowest(node, count)
<1> DEFINE Seen == [least : Int, set : SUBSET Nat]
           none == [least |-> 0, set |-> {}]
           scan[i \in 0..count] == IF i = 0 THEN none ELSE SeenWith(scan[i - 1], i, node[i])
           step == [i \in 1..count |-> [seen \in Seen |-> SeenWith(seen, i, node[i])]]
<1>1. ASSUME NEW seen \in Seen, NEW i \in 1..count PROVE SeenWith(seen, i, node[i]) \in Seen
  BY DEF SeenWith
<1>2. step \in [1..count -> [Seen -> Seen]]
  BY <1>1
<1>3. PICK f : Course(f, count, Seen, none, step)
  <2>1. none \in Seen
    OBVIOUS
  <2> HIDE DEF step, Seen, none
  <2> QED BY <1>2, <2>1, LoopExists
<1>4. f = [i \in 0..count |-> IF i = 0 THEN none ELSE SeenWith(f[i - 1], i, node[i])]
  <2>1. f \in [0..count -> Seen] /\ f[0] = none /\ \A i \in 1..count : f[i] = step[i][f[i - 1]]
    BY <1>3 DEF Course
  <2>2. ASSUME NEW i \in 1..count PROVE f[i] = SeenWith(f[i - 1], i, node[i])
    <3>1. f[i - 1] \in Seen /\ f[i] = step[i][f[i - 1]]
      <4> HIDE DEF Seen, step
      <4>1. i - 1 \in 0..count
        OBVIOUS
      <4> QED BY <2>1, <4>1
    <3> HIDE DEF Seen
    <3> QED BY <3>1
  <2>3. ASSUME NEW i \in 0..count PROVE f[i] = IF i = 0 THEN none ELSE SeenWith(f[i - 1], i, node[i])
    <3>1. i # 0 => i \in 1..count
      OBVIOUS
    <3> HIDE DEF none, Seen, step
    <3>2. CASE i = 0
      BY <2>1, <3>2
    <3>3. CASE i # 0
      BY <2>2, <3>1, <3>3
    <3> QED BY <3>2, <3>3
  <2> HIDE DEF none, Seen, step
  <2> QED BY <2>1, <2>3
<1>5. scan = [i \in 0..count |-> IF i = 0 THEN none ELSE SeenWith(scan[i - 1], i, node[i])]
  BY <1>4
<1>6. LittleSet(node, count) = scan[count].set
  BY DEF LittleSet
<1>7. scan[0] = none
  <2>1. 0 \in 0..count
    OBVIOUS
  <2> HIDE DEF none, scan
  <2> QED BY <1>5, <2>1
<1>8. ASSUME NEW i \in 1..count PROVE scan[i] = SeenWith(scan[i - 1], i, node[i])
  <2>1. i \in 0..count /\ i # 0
    OBVIOUS
  <2> HIDE DEF none, scan
  <2> QED BY <1>5, <2>1
<1> HIDE DEF scan
\* after i rounds: the cores of least value among the first i, and that value
<1> DEFINE good == {i \in 0..count :
                      /\ scan[i] \in Seen
                      /\ scan[i].set = Lowest(node, i)
                      /\ \A j \in Lowest(node, i) : scan[i].least = node[j]
                      /\ Lowest(node, i) = {} => Readable(node, 1..i) = {}}
<1>9. 0 \in good
  BY <1>7 DEF Lowest, Readable
<1>10. ASSUME NEW i \in 1..count, i - 1 \in good PROVE i \in good
  <2> DEFINE v == node[i]
             seen == scan[i - 1]
             before == Lowest(node, i - 1)
  <2>0. seen \in Seen /\ scan[i] \in Seen
    <3>1. seen \in Seen
      BY <1>10
    <3> HIDE DEF Seen
    <3> QED BY <3>1, <1>1, <1>8
  <2>1. /\ seen.set = before
        /\ \A j \in before : seen.least = node[j]
        /\ before = {} => Readable(node, 1..(i - 1)) = {}
    BY <1>10
  <2>2. scan[i] = SeenWith(seen, i, v)
    BY <1>8
  <2>3. v \in Int /\ 1..i = 1..(i - 1) \cup {i} /\ i \notin 1..(i - 1)
        /\ \A j \in 1..i : node[j] \in Int
    OBVIOUS
  <2>4. Readable(node, 1..i) = Readable(node, 1..(i - 1)) \cup (IF v > 0 THEN {i} ELSE {})
    BY <2>3 DEF Readable
  <2>5. before \subseteq Readable(node, 1..(i - 1))
        /\ \A j \in before : \A k \in Readable(node, 1..(i - 1)) : node[j] <= node[k]
    BY DEF Lowest
  <2>6. \A k \in Readable(node, 1..(i - 1)) : node[k] \in Int
    BY <2>3 DEF Readable
  <2>7. i \in 0..count
    OBVIOUS
  <2> HIDE DEF v, seen, before
  <2>12. before # {} => seen.least \in Int
    BY <2>0
  <2>8. CASE v <= 0
    <3>1. scan[i] = seen
      BY <2>2, <2>3, <2>8 DEF SeenWith
    <3>2. Lowest(node, i) = before
      BY <2>3, <2>4, <2>8 DEF Lowest, before
    <3> QED BY <2>1, <2>0, <2>3, <2>4, <2>7, <2>8, <3>1, <3>2
  <2>9. CASE v > 0 /\ before # {} /\ v > seen.least
    <3>1. scan[i] = seen
      BY <2>1, <2>2, <2>3, <2>9, <2>12 DEF SeenWith
    <3>2. Lowest(node, i) = before
      BY <2>1, <2>3, <2>4, <2>5, <2>6, <2>9 DEF Lowest, before, v
    <3> QED BY <2>1, <2>0, <2>7, <2>9, <3>1, <3>2
  <2>10. CASE v > 0 /\ before # {} /\ v = seen.least
    <3>1. scan[i].set = before \cup {i} /\ scan[i].least = seen.least
      BY <2>0, <2>1, <2>2, <2>3, <2>10, <2>12 DEF SeenWith
    <3>2. Lowest(node, i) = before \cup {i}
      BY <2>1, <2>3, <2>4, <2>5, <2>6, <2>10 DEF Lowest, before, v
    <3> QED BY <2>1, <2>0, <2>7, <2>10, <3>1, <3>2 DEF v
  <2>11. CASE v > 0 /\ (before = {} \/ v < seen.least)
    <3>1. scan[i].set = {i} /\ scan[i].least = v
      BY <2>1, <2>2, <2>3, <2>11, <2>12 DEF SeenWith
    <3>2. \A k \in Readable(node, 1..(i - 1)) : v < node[k]
      BY <2>1, <2>3, <2>5, <2>6, <2>11, <2>12
    <3>3. i \in Readable(node, 1..i)
      BY <2>4, <2>11
    <3>4. \A k \in Readable(node, 1..i) : v <= node[k]
      BY <2>3, <2>4, <2>6, <3>2 DEF v
    <3>5. \A k \in Readable(node, 1..i) : k # i => ~(node[k] <= v)
      BY <2>3, <2>4, <2>6, <3>2
    <3>6. Lowest(node, i) = {i}
      BY <3>3, <3>4, <3>5 DEF Lowest, v
    <3> QED BY <2>0, <2>7, <3>1, <3>6 DEF v
  <2> QED BY <2>3, <2>8, <2>9, <2>10, <2>11, <2>12
<1>11. count \in good
  <2>1. \A i \in 1..count : i - 1 \in good => i \in good
    BY <1>10
  <2> HIDE DEF good
  <2>2. 0..count \subseteq good
    BY <1>9, <2>1, Counting
  <2> QED BY <2>2
<1> QED BY <1>6, <1>11

LEMMA FirstOfThree ==
  ASSUME NEW S \in SUBSET (1..3), S # {}
  PROVE  Min(S) \in S /\ (1 \in S => Min(S) = 1) /\ (2 \in S /\ 1 \notin S => Min(S) = 2)
<1>1. \E x \in S : \A y \in S : x <= y
  <2>1. CASE 1 \in S
    BY <2>1
  <2>2. CASE 1 \notin S /\ 2 \in S
    <3>1. \A y \in S : 2 <= y
      BY <2>2
    <3> QED BY <2>2, <3>1
  <2>3. CASE 1 \notin S /\ 2 \notin S
    <3>1. \A y \in S : y = 3
      BY <2>3
    <3>2. 3 \in S
      BY <3>1
    <3>3. \A y \in S : 3 <= y
      BY <3>1
    <3> QED BY <3>2, <3>3
  <2> QED BY <2>1, <2>2, <2>3
<1>2. Min(S) \in S /\ \A y \in S : Min(S) <= y
  BY <1>1 DEF Min
<1> HIDE DEF Min
<1>3. \A x \in S : (\A y \in S : x <= y) => (1 \in S => x = 1) /\ (2 \in S /\ 1 \notin S => x = 2)
  OBVIOUS
<1> QED BY <1>2, <1>3

\* pg_topo_set_little_core() ends on cores the kernel grants, by capacity, then by
\* frequency, then any (topo.c:87-117).
LEMMA AffinityKeepsOff ==
  ASSUME NEW dev \in Devices
  PROVE  LET Least(node) == Lowest(node, NamedCount(dev))
         IN  /\ Affinity(dev) # {}
             /\ \/ Affinity(dev) \subseteq Least(dev.capacity)
                \/ /\ Least(dev.capacity) \cap dev.usable = {}
                   /\ \/ Affinity(dev) \subseteq Least(dev.freq)
                      \/ Least(dev.freq) \cap dev.usable = {}
<1> DEFINE count == NamedCount(dev)
           masks == <<LittleSet(dev.capacity, count), LittleSet(dev.freq, count), Named(dev)>>
           accepted == {m \in 1..3 : masks[m] \cap dev.usable # {}}
<1>1. /\ dev.cores \in Nat /\ dev.usable # {}
      /\ dev.freq \in [1..dev.cores -> Int] /\ dev.capacity \in [1..dev.cores -> Int]
  BY DeviceAssumption
<1>2. count \in Nat /\ \A i \in 1..count : i \in 1..dev.cores
  BY <1>1, ScaleAssumption DEF NamedCount
<1> HIDE DEF count
<1>3. LittleSet(dev.capacity, count) = Lowest(dev.capacity, count)
      /\ LittleSet(dev.freq, count) = Lowest(dev.freq, count)
  <2>1. \A i \in 1..count : dev.capacity[i] \in Int /\ dev.freq[i] \in Int
    BY <1>1, <1>2
  <2> QED BY <1>2, <2>1, LittleSetLeast
<1>4. masks[1] = Lowest(dev.capacity, count) /\ masks[2] = Lowest(dev.freq, count)
  BY <1>3
<1>5. Affinity(dev) = IF dev.cores <= 0 \/ accepted = {} THEN dev.usable
                      ELSE masks[Min(accepted)] \cap dev.usable
  BY DEF Affinity, count
<1>6. 1 \in 1..3 /\ 2 \in 1..3 /\ accepted \subseteq 1..3
  OBVIOUS
<1>7. ASSUME accepted # {}
      PROVE  /\ Min(accepted) \in accepted
             /\ 1 \in accepted => Min(accepted) = 1
             /\ 2 \in accepted /\ 1 \notin accepted => Min(accepted) = 2
  <2> HIDE DEF accepted
  <2> QED BY <1>6, <1>7, FirstOfThree
<1>8. \A m \in 1..3 : m \in accepted <=> masks[m] \cap dev.usable # {}
  OBVIOUS
<1>9. dev.cores <= 0 => \A node : Lowest(node, count) = {}
  <2>1. dev.cores <= 0 => 1..count = {}
    BY <1>1, <1>2
  <2> QED BY <2>1 DEF Lowest, Readable
<1> HIDE DEF masks, accepted
<1>10. CASE dev.cores <= 0 \/ accepted = {}
  <2>1. Affinity(dev) = dev.usable
    BY <1>5, <1>10
  <2>2. Lowest(dev.capacity, count) \cap dev.usable = {}
        /\ Lowest(dev.freq, count) \cap dev.usable = {}
    BY <1>4, <1>6, <1>8, <1>9, <1>10
  <2> QED BY <1>1, <2>1, <2>2 DEF count
<1>11. CASE ~(dev.cores <= 0 \/ accepted = {})
  <2>1. Affinity(dev) = masks[Min(accepted)] \cap dev.usable /\ Min(accepted) \in accepted
    BY <1>5, <1>7, <1>11
  <2>2. Affinity(dev) # {}
    BY <2>1, <1>6, <1>8
  <2>3. CASE 1 \in accepted
    BY <2>1, <2>2, <2>3, <1>4, <1>7 DEF count
  <2>4. CASE 1 \notin accepted
    <3>1. Lowest(dev.capacity, count) \cap dev.usable = {}
      BY <2>4, <1>4, <1>6, <1>8
    <3>2. 2 \in accepted => Affinity(dev) \subseteq Lowest(dev.freq, count)
      BY <2>1, <2>4, <1>4, <1>7
    <3>3. 2 \notin accepted => Lowest(dev.freq, count) \cap dev.usable = {}
      BY <1>4, <1>6, <1>8
    <3> QED BY <2>2, <3>1, <3>2, <3>3 DEF count
  <2> QED BY <2>3, <2>4
<1> QED BY <1>10, <1>11

\* The daemon keeps off the fast cores on every device, for any number of cores and any
\* of them missing or denied (topo.c:50-117).
THEOREM KeepsOffFastCoresHolds == MappingSpec => []KeepsOffFastCores
<1> DEFINE Booted == device \in Devices /\ pinned = Affinity(device)
<1>1. MappingInit => Booted
  BY DEF MappingInit
<1>2. Booted /\ [MappingNext]_mappingVars => Booted'
  <2>1. ASSUME Booted, [MappingNext]_mappingVars PROVE device' = device /\ pinned' = pinned
    BY <2>1 DEF MappingNext, NewPressure, NewScale, NewLevel, Maps, bootVars, mappingVars
  <2> QED BY <2>1
<1>3. Booted => KeepsOffFastCores
  BY AffinityKeepsOff DEF KeepsOffFastCores, Lowest, Named
<1> QED BY <1>1, <1>2, <1>3, PTL DEF MappingSpec

-----------------------------------------------------------------------------
(* The fixed point                                                         *)

LEMMA DivInt ==
  ASSUME NEW a \in Int, NEW k \in Nat \ {0}
  PROVE  a \div k \in Int /\ (a >= 0 => a \div k \in Nat)
  OBVIOUS

LEMMA DivWithin ==
  ASSUME NEW a \in Int, NEW k \in Nat \ {0}
  PROVE  k * (a \div k) <= a /\ a < k * (a \div k) + k
  OBVIOUS

LEMMA Scaled ==
  ASSUME NEW a \in Int, NEW b \in Int, NEW c \in Nat, a <= b
  PROVE  a * c <= b * c /\ c * a <= c * b
<1>1. (b - a) * c >= 0
  OBVIOUS
<1>2. (b - a) * c = b * c - a * c /\ c * a = a * c /\ c * b = b * c
      /\ a * c \in Int /\ b * c \in Int
  OBVIOUS
<1> QED BY <1>1, <1>2

\* A whole q with k * q - k < a <= ... is the quotient: the two sides pin it down.
LEMMA DivUnique ==
  ASSUME NEW a \in Int, NEW k \in Nat \ {0}, NEW q \in Int, k * q <= a, a < k * q + k
  PROVE  a \div k = q
<1> DEFINE p == a \div k
<1>1. p \in Int /\ k * p <= a /\ a < k * p + k
  BY DivInt, DivWithin
<1> HIDE DEF p
<1>2. k * p \in Int /\ k * q \in Int
  BY <1>1
<1>3. ~(p >= q + 1)
  <2> SUFFICES ASSUME p >= q + 1 PROVE FALSE
    OBVIOUS
  <2>1. k * (q + 1) <= k * p
    BY <1>1, Scaled
  <2>2. k * (q + 1) = k * q + k
    OBVIOUS
  <2> QED BY <1>1, <1>2, <2>1, <2>2
<1>4. ~(q >= p + 1)
  <2> SUFFICES ASSUME q >= p + 1 PROVE FALSE
    OBVIOUS
  <2>1. k * (p + 1) <= k * q
    BY <1>1, Scaled
  <2>2. k * (p + 1) = k * p + k
    BY <1>1
  <2> QED BY <1>1, <1>2, <2>1, <2>2
<1> QED BY <1>1, <1>3, <1>4 DEF p

LEMMA DivMonotone ==
  ASSUME NEW a \in Int, NEW b \in Int, NEW k \in Nat \ {0}, a <= b
  PROVE  a \div k <= b \div k
<1> DEFINE p == a \div k
           q == b \div k
<1>1. p \in Int /\ q \in Int /\ k * p <= a /\ b < k * q + k
  BY DivInt, DivWithin
<1> HIDE DEF p, q
<1>2. ~(p >= q + 1)
  <2> SUFFICES ASSUME p >= q + 1 PROVE FALSE
    OBVIOUS
  <2>1. k * (q + 1) <= k * p
    BY <1>1, Scaled
  <2>2. k * (q + 1) = k * q + k /\ k * q \in Int /\ k * p \in Int
    BY <1>1
  <2> QED BY <1>1, <2>1, <2>2
<1> QED BY <1>1, <1>2 DEF p, q

LEMMA MulInt ==
  ASSUME NEW a \in Int, NEW b \in Int
  PROVE  Mul(a, b) \in Int
<1>1. a * b \in Int
  OBVIOUS
<1> QED BY <1>1, DivInt, OneAssumption DEF Mul

LEMMA SquareNat ==
  ASSUME NEW a \in Int
  PROVE  Mul(a, a) \in Nat
<1>1. a * a \in Int /\ a * a >= 0
  OBVIOUS
<1> QED BY <1>1, DivInt, OneAssumption DEF Mul

LEMMA FracInt ==
  ASSUME NEW a \in Int, NEW b \in Nat \ {0}
  PROVE  Div(a, b) \in Int
<1>1. a * One \in Int /\ (-a) * One \in Int
  BY OneAssumption
<1> QED BY <1>1, DivInt DEF Div

LEMMA MilliNat ==
  ASSUME NEW n \in Nat
  PROVE  Milli(n) \in Nat
<1>1. n * One \in Int /\ n * One >= 0
  BY OneAssumption
<1> QED BY <1>1, DivInt DEF Milli

LEMMA ClampBetween ==
  ASSUME NEW v \in Int, NEW lo \in Int, NEW hi \in Int, lo <= hi
  PROVE  Clamp(v, lo, hi) \in Int /\ lo <= Clamp(v, lo, hi) /\ Clamp(v, lo, hi) <= hi
  BY DEF Clamp

LEMMA ShareRange ==
  ASSUME NEW v \in Int
  PROVE  Clamp(v, 0, One) \in 0..One
  BY OneAssumption DEF Clamp

\* What is measured against k units, as a share.
LEMMA ShareOfUnits ==
  ASSUME NEW v \in Int, NEW k \in Nat \ {0}
  PROVE  Clamp(Div(v, k * One), 0, One) \in 0..One
<1>1. k * One \in Nat \ {0}
  BY OneAssumption
<1>2. Div(v, k * One) \in Int
  BY <1>1, FracInt
<1> QED BY <1>2, ShareRange

-----------------------------------------------------------------------------
(* The square root                                                         *)

LEMMA PowerPositive ==
  ASSUME NEW n \in Nat
  PROVE  2^n \in Nat \ {0} /\ 2^0 = 1
<1>1. \A k \in Nat : IsFiniteSet(1..k) /\ Cardinality(1..k) = k
  BY FS_Interval
<1>2. \A k \in Nat : IsFiniteSet(SUBSET (1..k)) /\ Cardinality(SUBSET (1..k)) = 2^k
  BY <1>1, FS_SUBSET
<1>3. SUBSET (1..n) # {}
  OBVIOUS
<1>4. 2^n \in Nat \ {0}
  BY <1>2, <1>3, FS_EmptySet, FS_CardinalityType
<1>5. 2^0 = 1
  <2>1. 1..0 = {} /\ SUBSET {} = {{}}
    OBVIOUS
  <2>2. Cardinality(SUBSET (1..0)) = 2^0
    BY <1>2
  <2> QED BY <2>1, <2>2, FS_Singleton
<1> QED BY <1>4, <1>5

\* What one round makes of a root (math.h:95-109)
Better(x, root, bit) ==
  LET more == root + 2^(bit - 1) IN IF more * more <= x * One THEN more ELSE root

LEMMA BetterAbove ==
  ASSUME NEW x \in Int, NEW root \in Nat, NEW bit \in 1..RootBits
  PROVE  Better(x, root, bit) \in Nat /\ root <= Better(x, root, bit)
<1>1. 2^(bit - 1) \in Nat \ {0}
  BY PowerPositive, RootAssumption
<1> QED BY <1>1 DEF Better

\* The rounds of the root as a course: the one of a bit continues with those below it.
Rounds(x, up) ==
  /\ up \in [0..RootBits -> [Nat -> Nat]]
  /\ \A root \in Nat : up[0][root] = root
  /\ \A bit \in 1..RootBits, root \in Nat : up[bit][root] = up[bit - 1][Better(x, root, bit)]

LEMMA SqrtRounds ==
  ASSUME NEW x \in Int
  PROVE  \E up : Rounds(x, up) /\ Sqrt(x) = up[RootBits][0]
<1> DEFINE Roots == [Nat -> Nat]
           same == [root \in Nat |-> root]
           step == [bit \in 1..RootBits |-> [F \in Roots |-> [root \in Nat |-> F[Better(x, root, bit)]]]]
           up[bit \in 0..RootBits] ==
             [root \in Nat |-> IF bit = 0 THEN root
                         ELSE LET more == root + 2^(bit - 1)
                              IN  up[bit - 1][IF more * more <= x * One THEN more ELSE root]]
<1>0. RootBits \in Nat \ {0}
  BY RootAssumption
<1>1. step \in [1..RootBits -> [Roots -> Roots]]
  <2>1. ASSUME NEW bit \in 1..RootBits, NEW F \in Roots
        PROVE  [root \in Nat |-> F[Better(x, root, bit)]] \in Roots
    <3>1. \A root \in Nat : F[Better(x, root, bit)] \in Nat
      BY BetterAbove
    <3> QED BY <3>1
  <2> HIDE DEF Roots
  <2> QED BY <2>1
<1>2. PICK f : Course(f, RootBits, Roots, same, step)
  <2>1. same \in Roots
    OBVIOUS
  <2> HIDE DEF step, Roots, same
  <2> QED BY <1>0, <1>1, <2>1, LoopExists
<1>3. f \in [0..RootBits -> Roots] /\ f[0] = same /\ \A bit \in 1..RootBits : f[bit] = step[bit][f[bit - 1]]
  BY <1>2 DEF Course
<1>4. ASSUME NEW bit \in 1..RootBits
      PROVE  f[bit] = [root \in Nat |-> f[bit - 1][Better(x, root, bit)]]
  <2>1. f[bit - 1] \in Roots /\ f[bit] = step[bit][f[bit - 1]]
    <3> HIDE DEF Roots, step
    <3>1. bit - 1 \in 0..RootBits
      BY <1>0
    <3> QED BY <1>3, <3>1
  <2> HIDE DEF Roots
  <2> QED BY <2>1
<1>5. f = [bit \in 0..RootBits |-> [root \in Nat |-> IF bit = 0 THEN root ELSE f[bit - 1][Better(x, root, bit)]]]
  <2>1. ASSUME NEW bit \in 0..RootBits
        PROVE  f[bit] = [root \in Nat |-> IF bit = 0 THEN root ELSE f[bit - 1][Better(x, root, bit)]]
    <3>1. bit # 0 => bit \in 1..RootBits
      BY <1>0
    <3> HIDE DEF Roots, step
    <3>2. CASE bit = 0
      BY <1>3, <3>2
    <3>3. CASE bit # 0
      BY <1>4, <3>1, <3>3
    <3> QED BY <3>2, <3>3
  <2> HIDE DEF Roots, step, same
  <2> QED BY <1>3, <2>1
<1>6. up = [bit \in 0..RootBits |-> [root \in Nat |-> IF bit = 0 THEN root ELSE up[bit - 1][Better(x, root, bit)]]]
  BY <1>5 DEF Better
<1>7. Sqrt(x) = up[RootBits][0]
  BY DEF Sqrt
<1> HIDE DEF up
<1> DEFINE good == {bit \in 0..RootBits : up[bit] \in Roots}
<1>8. ASSUME NEW bit \in 1..RootBits
      PROVE  up[bit] = [root \in Nat |-> up[bit - 1][Better(x, root, bit)]]
  <2>1. bit \in 0..RootBits /\ bit # 0
    BY <1>0
  <2> QED BY <1>6, <2>1
<1>9. up[0] = same
  <2>1. 0 \in 0..RootBits
    BY <1>0
  <2> QED BY <1>6, <2>1
<1>10. 0..RootBits \subseteq good
  <2>1. 0 \in good
    <3>1. 0 \in 0..RootBits
      BY <1>0
    <3>2. same \in Roots
      OBVIOUS
    <3> HIDE DEF Roots, same
    <3> QED BY <1>9, <3>1, <3>2
  <2>2. ASSUME NEW bit \in 1..RootBits, bit - 1 \in good PROVE bit \in good
    <3>1. up[bit - 1] \in Roots
      BY <2>2
    <3>2. [root \in Nat |-> up[bit - 1][Better(x, root, bit)]] \in Roots
      <4>1. \A root \in Nat : Better(x, root, bit) \in Nat
        BY BetterAbove
      <4> QED BY <3>1, <4>1
    <3>3. bit \in 0..RootBits
      BY <1>0
    <3> HIDE DEF Roots
    <3> QED BY <1>8, <3>2, <3>3
  <2> HIDE DEF good
  <2> QED BY <1>0, <2>1, <2>2, Counting
<1>11. Rounds(x, up)
  <2>1. up \in [0..RootBits -> Roots]
    <3>1. \A bit \in 0..RootBits : up[bit] \in Roots
      BY <1>10
    <3> DEFINE body(bit) ==
                 [root \in Nat |-> IF bit = 0 THEN root ELSE up[bit - 1][Better(x, root, bit)]]
    <3>2. up = [bit \in 0..RootBits |-> body(bit)]
      BY <1>6
    <3> HIDE DEF Roots, good, body
    <3> QED BY ONLY <3>1, <3>2
  <2>2. \A root \in Nat : up[0][root] = root
    BY <1>9
  <2>3. ASSUME NEW bit \in 1..RootBits, NEW root \in Nat
        PROVE  up[bit][root] = up[bit - 1][Better(x, root, bit)]
    <3>1. up[bit] = [r \in Nat |-> up[bit - 1][Better(x, r, bit)]]
      BY <1>8
    <3> QED BY ONLY <3>1, root \in Nat
  <2> QED BY <2>1, <2>2, <2>3 DEF Rounds
<1> QED BY <1>7, <1>11

LEMMA SqrtNat ==
  ASSUME NEW x \in Int
  PROVE  Sqrt(x) \in Nat
<1>1. PICK up : Rounds(x, up) /\ Sqrt(x) = up[RootBits][0]
  BY SqrtRounds
<1>2. RootBits \in 0..RootBits
  BY RootAssumption
<1> QED BY <1>1, <1>2 DEF Rounds

\* The root of a positive number is positive: no quotient by it fails (math.h:95-117).
LEMMA SqrtPositive ==
  ASSUME NEW x \in Nat \ {0}
  PROVE  Sqrt(x) \in Nat \ {0}
<1>0. RootBits \in Nat \ {0} /\ x \in Int
  BY RootAssumption
<1>1. PICK up : Rounds(x, up) /\ Sqrt(x) = up[RootBits][0]
  BY SqrtRounds
<1>2. /\ up \in [0..RootBits -> [Nat -> Nat]]
      /\ \A root \in Nat : up[0][root] = root
      /\ \A bit \in 1..RootBits, root \in Nat : up[bit][root] = up[bit - 1][Better(x, root, bit)]
  BY <1>1 DEF Rounds
<1> DEFINE Keeps(bit) == (\A root \in Nat : root <= up[bit][root]) /\ (bit # 0 => up[bit][0] # 0)
           good == {bit \in 0..RootBits : Keeps(bit)}
<1>3. 0 \in good
  <2>1. Keeps(0)
    BY <1>2
  <2> HIDE DEF Keeps
  <2> QED BY <1>0, <2>1
<1>4. ASSUME NEW bit \in 1..RootBits, bit - 1 \in good PROVE bit \in good
  <2>1. bit \in 0..RootBits /\ bit - 1 \in 0..RootBits /\ bit # 0
    BY <1>0
  <2>2. (\A root \in Nat : root <= up[bit - 1][root]) /\ (bit - 1 # 0 => up[bit - 1][0] # 0)
    BY <1>4
  <2>3. up[bit] \in [Nat -> Nat] /\ up[bit - 1] \in [Nat -> Nat]
    BY <1>2, <2>1
  <2>4. ASSUME NEW root \in Nat PROVE root <= up[bit][root]
    <3>1. Better(x, root, bit) \in Nat /\ root <= Better(x, root, bit)
      BY <1>0, BetterAbove
    <3>2. Better(x, root, bit) <= up[bit - 1][Better(x, root, bit)]
      BY <2>2, <3>1
    <3>3. up[bit][root] = up[bit - 1][Better(x, root, bit)]
      BY <1>2
    <3>4. up[bit - 1][Better(x, root, bit)] \in Nat
      BY <2>3, <3>1
    <3> QED BY <3>1, <3>2, <3>3, <3>4
  <2>5. up[bit][0] # 0
    <3> DEFINE first == Better(x, 0, bit)
    <3>1. first \in Nat
      BY <1>0, BetterAbove
    <3>2. up[bit][0] = up[bit - 1][first]
      BY <1>2
    <3>3. CASE first # 0
      <4> HIDE DEF first
      <4>1. first <= up[bit - 1][first] /\ up[bit - 1][first] \in Nat
        BY <2>2, <2>3, <3>1
      <4> QED BY <3>1, <3>2, <3>3, <4>1
    <3>4. CASE first = 0
      <4>1. bit - 1 # 0
        <5> SUFFICES ASSUME bit - 1 = 0 PROVE FALSE
          OBVIOUS
        <5>1. 2^(bit - 1) = 1
          BY PowerPositive
        <5>2. 1 * 1 <= x * One
          BY OneAssumption
        <5> QED BY <3>4, <5>1, <5>2 DEF Better
      <4> HIDE DEF first
      <4> QED BY <2>2, <3>2, <3>4, <4>1
    <3> QED BY <3>3, <3>4
  <2>6. Keeps(bit)
    BY <2>4, <2>5
  <2> HIDE DEF Keeps
  <2> QED BY <2>1, <2>6
<1>5. RootBits \in good
  <2>1. \A bit \in 1..RootBits : bit - 1 \in good => bit \in good
    BY <1>4
  <2> HIDE DEF good
  <2>2. 0..RootBits \subseteq good
    BY <1>0, <1>3, <2>1, Counting
  <2> QED BY <1>0, <2>2
<1>6. up[RootBits][0] # 0
  BY <1>0, <1>5
<1> QED BY <1>1, <1>6, SqrtNat

\* A set with one element more has twice the subsets.
LEMMA PowerDoubles ==
  ASSUME NEW n \in Nat
  PROVE  2^(n + 1) = 2 * 2^n
<1> DEFINE A == SUBSET (1..n)
           B == {a \cup {n + 1} : a \in A}
           pair == [a \in A |-> a \cup {n + 1}]
<1>1. \A k \in Nat : IsFiniteSet(1..k) /\ Cardinality(1..k) = k
  BY FS_Interval
<1>2. \A k \in Nat : IsFiniteSet(SUBSET (1..k)) /\ Cardinality(SUBSET (1..k)) = 2^k
  BY <1>1, FS_SUBSET
<1>3. \A a \in A : n + 1 \notin a
  OBVIOUS
<1>4. pair \in Bijection(A, B)
  <2>1. pair \in [A -> B]
    <3> HIDE DEF A
    <3> QED OBVIOUS
  <2>2. ASSUME NEW a \in A, NEW b \in A, pair[a] = pair[b] PROVE a = b
    <3>1. a \cup {n + 1} = b \cup {n + 1}
      <4> HIDE DEF A
      <4> QED BY <2>2
    <3>2. n + 1 \notin a /\ n + 1 \notin b
      BY <1>3
    <3> DEFINE e == n + 1
    <3>3. a = (a \cup {e}) \ {e} /\ b = (b \cup {e}) \ {e}
      <4> HIDE DEF A
      <4> QED BY <3>2
    <3>4. a \cup {e} = b \cup {e}
      BY <3>1
    <3> HIDE DEF e
    <3> QED BY <3>3, <3>4
  <2>3. \A t \in B : \E a \in A : pair[a] = t
    <3> HIDE DEF A
    <3> QED OBVIOUS
  <2> HIDE DEF A, B, pair
  <2> QED BY <2>1, <2>2, <2>3 DEF Bijection, Injection, Surjection, IsInjective
<1>5. IsFiniteSet(B) /\ Cardinality(B) = Cardinality(A)
  <2>1. IsFiniteSet(A) /\ ExistsBijection(A, B)
    BY <1>2, <1>4 DEF ExistsBijection
  <2> HIDE DEF A, B
  <2> QED BY <2>1, FS_Bijection
<1>6. A \cap B = {}
  <2>1. \A b \in B : n + 1 \in b
    OBVIOUS
  <2> HIDE DEF A, B
  <2> QED BY <1>3, <2>1
<1>7. SUBSET (1..(n + 1)) = A \cup B
  <2>1. 1..(n + 1) = (1..n) \cup {n + 1}
    OBVIOUS
  <2>2. ASSUME NEW s, s \subseteq 1..(n + 1) PROVE s \in A \cup B
    <3>1. s \ {n + 1} \in A
      BY <2>1, <2>2
    <3>2. CASE n + 1 \in s
      <4>1. s = (s \ {n + 1}) \cup {n + 1}
        BY <3>2
      <4> HIDE DEF A
      <4> QED BY <3>1, <4>1
    <3>3. CASE n + 1 \notin s
      <4>1. s = s \ {n + 1}
        BY <3>3
      <4> HIDE DEF A
      <4> QED BY <3>1, <4>1
    <3> QED BY <3>2, <3>3
  <2>3. ASSUME NEW s \in A \cup B PROVE s \subseteq 1..(n + 1)
    BY <2>1
  <2> QED BY <2>2, <2>3
<1>8. Cardinality(A \cup B) = Cardinality(A) + Cardinality(B)
  <2>1. Cardinality(A \cup B) = Cardinality(A) + Cardinality(B) - Cardinality(A \cap B)
    <3>1. IsFiniteSet(A)
      BY <1>2
    <3> HIDE DEF A, B
    <3> QED BY <1>5, <3>1, FS_Union
  <2>2. Cardinality(A) \in Nat
    BY <1>2, PowerPositive
  <2>3. Cardinality(A \cap B) = 0
    BY <1>6, FS_EmptySet
  <2> HIDE DEF A, B
  <2> QED BY <1>5, <2>1, <2>2, <2>3
<1>9. n + 1 \in Nat
  OBVIOUS
<1>10. Cardinality(A) = 2^n /\ Cardinality(A \cup B) = 2^(n + 1)
  BY <1>2, <1>7, <1>9
<1>11. 2^n \in Nat
  BY PowerPositive
<1> HIDE DEF A, B
<1> QED BY <1>5, <1>8, <1>10, <1>11

\* The root is exact wherever it fits its bits: the largest number whose square is not
\* above x, in the fixed point, found one bit after the other (math.h:88-117).
THEOREM SqrtExact ==
  ASSUME NEW x \in Nat, x * One < 2^RootBits * 2^RootBits
  PROVE  /\ Sqrt(x) \in Nat /\ Sqrt(x) * Sqrt(x) <= x * One
         /\ x * One < (Sqrt(x) + 1) * (Sqrt(x) + 1)
<1> DEFINE N == x * One
           Exact(r) == r * r <= N /\ N < (r + 1) * (r + 1)
           Fits(root, bit) == root * root <= N /\ N < (root + 2^bit) * (root + 2^bit)
<1>0. RootBits \in Nat \ {0} /\ x \in Int /\ N \in Nat
  BY RootAssumption, OneAssumption
<1>1. PICK up : Rounds(x, up) /\ Sqrt(x) = up[RootBits][0]
  BY <1>0, SqrtRounds
<1>2. /\ up \in [0..RootBits -> [Nat -> Nat]]
      /\ \A root \in Nat : up[0][root] = root
      /\ \A bit \in 1..RootBits, root \in Nat : up[bit][root] = up[bit - 1][Better(x, root, bit)]
  BY <1>1 DEF Rounds
<1> HIDE DEF N
<1> DEFINE Ends(bit) == \A root \in Nat : Fits(root, bit) => Exact(up[bit][root])
           good == {bit \in 0..RootBits : Ends(bit)}
<1>3. 0 \in good
  <2>1. ASSUME NEW root \in Nat, Fits(root, 0) PROVE Exact(up[0][root])
    <3>1. 2^0 = 1 /\ up[0][root] = root
      BY <1>2, PowerPositive
    <3> QED BY <2>1, <3>1
  <2>2. Ends(0)
    <3> HIDE DEF Fits, Exact
    <3> QED BY <2>1
  <2> HIDE DEF Ends
  <2> QED BY <1>0, <2>2
<1>4. ASSUME NEW bit \in 1..RootBits, bit - 1 \in good PROVE bit \in good
  <2>1. bit \in 0..RootBits /\ bit - 1 \in Nat
    BY <1>0
  <2>2. Ends(bit - 1)
    <3> HIDE DEF Ends
    <3> QED BY <1>4
  <2> DEFINE half == 2^(bit - 1)
  <2>3. half \in Nat /\ 2^bit = 2 * half
    <3>1. 2^((bit - 1) + 1) = 2 * 2^(bit - 1)
      BY <2>1, PowerDoubles
    <3>2. (bit - 1) + 1 = bit
      BY <2>1
    <3> QED BY <2>1, <3>1, <3>2, PowerPositive
  <2>4. ASSUME NEW root \in Nat, Fits(root, bit) PROVE Exact(up[bit][root])
    <3> DEFINE more == root + half
               better == Better(x, root, bit)
    <3>1. up[bit][root] = up[bit - 1][better]
      BY <1>2
    <3>2. better \in Nat
      BY <1>0, BetterAbove
    <3>3. better = IF more * more <= N THEN more ELSE root
      BY DEF Better, N
    <3>4. root * root <= N /\ N < (root + 2 * half) * (root + 2 * half)
      <4> HIDE DEF half
      <4> QED BY <2>3, <2>4
    <3> HIDE DEF half, better
    <3>5. more + half = root + 2 * half /\ more \in Nat
      BY <2>3
    <3>6. better * better <= N /\ N < (better + half) * (better + half)
      <4>1. CASE more * more <= N
        <5>1. better = more
          BY <3>3, <4>1
        <5> HIDE DEF more
        <5> QED BY <3>4, <3>5, <4>1, <5>1
      <4>2. CASE ~(more * more <= N)
        <5>1. better = root
          BY <3>3, <4>2
        <5>2. N < more * more
          <6>1. more * more \in Int
            BY <3>5
          <6> HIDE DEF more
          <6> QED BY <1>0, <4>2, <6>1
        <5> QED BY <3>4, <5>1, <5>2
      <4> QED BY <4>1, <4>2
    <3>7. Fits(better, bit - 1)
      BY <3>6 DEF half
    <3> HIDE DEF Fits, Exact
    <3> QED BY <2>2, <3>1, <3>2, <3>7
  <2>5. Ends(bit)
    <3> HIDE DEF Fits, Exact
    <3> QED BY <2>4
  <2> HIDE DEF Ends
  <2> QED BY <2>1, <2>5
<1>5. Ends(RootBits)
  <2>1. \A bit \in 1..RootBits : bit - 1 \in good => bit \in good
    BY <1>4
  <2> HIDE DEF good
  <2>2. 0..RootBits \subseteq good
    BY <1>0, <1>3, <2>1, Counting
  <2>3. RootBits \in good
    BY <1>0, <2>2
  <2> HIDE DEF Ends
  <2> QED BY <2>3 DEF good
<1>6. Fits(0, RootBits)
  <2>1. 2^RootBits \in Nat
    BY <1>0, PowerPositive
  <2>2. N < 2^RootBits * 2^RootBits
    BY DEF N
  <2>3. 0 + 2^RootBits = 2^RootBits
    BY <2>1
  <2>4. 0 * 0 <= N
    BY <1>0
  <2> QED BY <2>2, <2>3, <2>4
<1>7. Exact(up[RootBits][0])
  <2> HIDE DEF Fits, Exact
  <2> QED BY <1>5, <1>6
<1>8. Exact(Sqrt(x))
  <2> HIDE DEF Exact
  <2> QED BY <1>1, <1>7
<1> QED BY <1>0, <1>8, SqrtNat DEF N

-----------------------------------------------------------------------------
(* What tune.c computes of a device: whole numbers, and limits in order    *)

\* Some core of a group has the most, and some the least, of what a node says.
LEMMA NodeTop ==
  ASSUME NEW n \in Nat, NEW K \in SUBSET (1..n), K # {}, NEW node, \A i \in K : node[i] \in Int
  PROVE  \E m \in K : \A j \in K : node[j] <= node[m]
<1> DEFINE good == {i \in 0..n : K \cap (1..i) # {} =>
                                   \E m \in K \cap (1..i) : \A j \in K \cap (1..i) : node[j] <= node[m]}
<1>1. 0 \in good
  <2>1. 1..0 = {} /\ 0 \in 0..n
    OBVIOUS
  <2> QED BY <2>1
<1>2. ASSUME NEW i \in 1..n, i - 1 \in good PROVE i \in good
  <2> DEFINE before == K \cap (1..(i - 1))
             now == K \cap (1..i)
  <2>1. now = IF i \in K THEN before \cup {i} ELSE before
    OBVIOUS
  <2>2. before # {} => \E m \in before : \A j \in before : node[j] <= node[m]
    BY <1>2
  <2>3. before \subseteq K /\ i \in 0..n
    OBVIOUS
  <2> HIDE DEF before
  <2>4. ASSUME now # {} PROVE \E m \in now : \A j \in now : node[j] <= node[m]
    <3>1. CASE i \notin K
      BY <2>1, <2>2, <2>4, <3>1
    <3>2. CASE i \in K /\ before = {}
      BY <2>1, <3>2
    <3>3. CASE i \in K /\ before # {}
      <4>1. PICK m \in before : \A j \in before : node[j] <= node[m]
        BY <2>2, <3>3
      <4>2. node[i] \in Int /\ node[m] \in Int /\ \A j \in before : node[j] \in Int
        BY <2>3, <3>3, <4>1
      <4>3. CASE node[i] <= node[m]
        BY <2>1, <3>3, <4>1, <4>3
      <4>4. CASE node[m] <= node[i]
        <5>1. \A j \in now : node[j] <= node[i]
          BY <2>1, <4>1, <4>2, <4>4
        <5> QED BY <2>1, <3>3, <5>1
      <4> QED BY <4>2, <4>3, <4>4
    <3> QED BY <3>1, <3>2, <3>3
  <2> HIDE DEF now
  <2>5. now # {} => \E m \in now : \A j \in now : node[j] <= node[m]
    BY <2>4
  <2> QED BY <2>3, <2>5 DEF now
<1>3. n \in good
  <2>1. \A i \in 1..n : i - 1 \in good => i \in good
    BY <1>2
  <2> HIDE DEF good
  <2>2. 0..n \subseteq good
    BY <1>1, <2>1, Counting
  <2> QED BY <2>2
<1>4. K \cap (1..n) = K
  OBVIOUS
<1> QED BY <1>3, <1>4

LEMMA NodeEnds ==
  ASSUME NEW n \in Nat, NEW K \in SUBSET (1..n), K # {}, NEW node, \A i \in K : node[i] \in Int
  PROVE  /\ Max({node[i] : i \in K}) \in {node[i] : i \in K}
         /\ Min({node[i] : i \in K}) \in {node[i] : i \in K}
<1> DEFINE V == {node[i] : i \in K}
           minus == [i \in K |-> -node[i]]
<1>1. \E x \in V : \A y \in V : x >= y
  <2>1. PICK m \in K : \A j \in K : node[j] <= node[m]
    BY NodeTop
  <2>2. \A j \in K : node[m] >= node[j]
    BY <2>1
  <2> QED BY <2>2
<1>2. \E x \in V : \A y \in V : x <= y
  <2>1. \A i \in K : minus[i] = -node[i] /\ minus[i] \in Int
    OBVIOUS
  <2> HIDE DEF minus
  <2>2. PICK m \in K : \A j \in K : minus[j] <= minus[m]
    BY <2>1, NodeTop
  <2>3. \A j \in K : node[m] <= node[j]
    BY <2>1, <2>2
  <2> QED BY <2>3
<1>3. Max(V) \in V
  <2> HIDE DEF V
  <2> QED BY <1>1 DEF Max
<1>4. Min(V) \in V
  <2> HIDE DEF V
  <2> QED BY <1>2 DEF Min
<1> QED BY <1>3, <1>4

LEMMA MaxFreqNat ==
  ASSUME NEW dev \in Devices
  PROVE  MaxFreq(dev) \in Nat
<1> DEFINE known == Readable(dev.freq, Cores(dev))
           V == {0} \cup {dev.freq[i] : i \in known}
<1>1. dev.cores \in Nat /\ known \in SUBSET (1..dev.cores)
      /\ \A i \in known : dev.freq[i] \in Int /\ dev.freq[i] > 0
  BY DeviceAssumption DEF Readable, Cores
<1> HIDE DEF known
<1>2. \E x \in V : \A y \in V : x >= y
  <2>1. CASE known = {}
    BY <2>1
  <2>2. CASE known # {}
    <3>1. PICK m \in known : \A j \in known : dev.freq[j] <= dev.freq[m]
      BY <1>1, <2>2, NodeTop
    <3>2. dev.freq[m] \in V
      OBVIOUS
    <3>3. \A y \in V : dev.freq[m] >= y
      BY <1>1, <3>1
    <3> QED BY <3>2, <3>3
  <2> QED BY <2>1, <2>2
<1>3. V \subseteq Nat
  BY <1>1
<1>4. Max(V) \in V
  <2> HIDE DEF V
  <2> QED BY <1>2 DEF Max
<1>5. MaxFreq(dev) = Max(V)
  BY DEF MaxFreq, known
<1> HIDE DEF V
<1> QED BY <1>3, <1>4, <1>5

LEMMA CapacityInt ==
  ASSUME NEW dev \in Devices
  PROVE  /\ Capacity(dev).total \in Int
         /\ Capacity(dev).ok => Capacity(dev).least \in Int /\ Capacity(dev).most \in Nat \ {0}
<1> DEFINE known == Readable(dev.capacity, Cores(dev))
           caps == {dev.capacity[i] : i \in known}
           share(i) == IF i \in known THEN dev.capacity[i] ELSE 0
           total[i \in 0..dev.cores] == IF i = 0 THEN 0 ELSE total[i - 1] + share(i)
           step == [i \in 1..dev.cores |-> [sum \in Int |-> sum + share(i)]]
<1>1. dev.cores \in Nat /\ known \in SUBSET (1..dev.cores)
      /\ \A i \in known : dev.capacity[i] \in Int /\ dev.capacity[i] > 0
  BY DeviceAssumption DEF Readable, Cores
<1>2. /\ Capacity(dev).total = total[dev.cores]
      /\ Capacity(dev).ok = (known # {})
      /\ Capacity(dev).least = IF known = {} THEN 0 ELSE Min(caps)
      /\ Capacity(dev).most = IF known = {} THEN 0 ELSE Max(caps)
  <2> HIDE DEF caps
  <2> QED BY DEF Capacity, caps
<1>3. \A i \in 1..dev.cores : share(i) \in Int
  <2> HIDE DEF known
  <2> QED BY <1>1
<1>4. step \in [1..dev.cores -> [Int -> Int]]
  <2> HIDE DEF share
  <2> QED BY <1>3
<1>5. PICK f : Course(f, dev.cores, Int, 0, step)
  <2>1. 0 \in Int /\ dev.cores \in Nat
    BY <1>1
  <2> HIDE DEF step
  <2> QED BY <1>4, <2>1, LoopExists
<1>6. f = [i \in 0..dev.cores |-> IF i = 0 THEN 0 ELSE f[i - 1] + share(i)]
  <2>1. f \in [0..dev.cores -> Int] /\ f[0] = 0 /\ \A i \in 1..dev.cores : f[i] = step[i][f[i - 1]]
    BY <1>5 DEF Course
  <2>2. ASSUME NEW i \in 1..dev.cores PROVE f[i] = f[i - 1] + share(i)
    <3>1. f[i - 1] \in Int
      <4>1. i - 1 \in 0..dev.cores
        BY <1>1
      <4> QED BY <2>1, <4>1
    <3>2. f[i] = step[i][f[i - 1]]
      BY <2>1
    <3> HIDE DEF share
    <3> QED BY <3>1, <3>2
  <2>3. \A i \in 0..dev.cores : i # 0 => i \in 1..dev.cores
    BY <1>1
  <2> HIDE DEF share, step
  <2>4. ASSUME NEW i \in 0..dev.cores PROVE f[i] = IF i = 0 THEN 0 ELSE f[i - 1] + share(i)
    BY <2>1, <2>2, <2>3
  <2> QED BY <2>1, <2>4
<1>7. total = [i \in 0..dev.cores |-> IF i = 0 THEN 0 ELSE total[i - 1] + share(i)]
  <2> HIDE DEF share
  <2> QED BY <1>6
<1> HIDE DEF total
<1> DEFINE good == {i \in 0..dev.cores : total[i] \in Int}
<1>8. 0 \in good
  <2>1. 0 \in 0..dev.cores
    BY <1>1
  <2>2. total[0] = 0
    <3> HIDE DEF share
    <3> QED BY <1>7, <2>1
  <2> QED BY <2>1, <2>2
<1>9. ASSUME NEW i \in 1..dev.cores, i - 1 \in good PROVE i \in good
  <2>1. i \in 0..dev.cores /\ i # 0
    BY <1>1
  <2> HIDE DEF share
  <2>2. total[i] = total[i - 1] + share(i)
    BY <1>7, <2>1
  <2>3. total[i - 1] \in Int /\ share(i) \in Int
    BY <1>3, <1>9
  <2> QED BY <2>1, <2>2, <2>3
<1>10. total[dev.cores] \in Int
  <2>1. \A i \in 1..dev.cores : i - 1 \in good => i \in good
    BY <1>9
  <2> HIDE DEF good
  <2>2. 0..dev.cores \subseteq good
    BY <1>1, <1>8, <2>1, Counting
  <2>3. dev.cores \in good
    BY <1>1, <2>2
  <2> QED BY <2>3 DEF good
<1>11. ASSUME known # {} PROVE Min(caps) \in caps /\ Max(caps) \in caps
  <2> HIDE DEF known
  <2> QED BY <1>1, <1>11, NodeEnds
<1>12. caps \subseteq Nat \ {0}
  <2> HIDE DEF known
  <2> QED BY <1>1
<1> HIDE DEF known, caps, total
<1>13. ASSUME known # {} PROVE Capacity(dev).least \in Int /\ Capacity(dev).most \in Nat \ {0}
  <2>1. Min(caps) \in Nat \ {0} /\ Max(caps) \in Nat \ {0}
    BY <1>11, <1>12, <1>13
  <2>2. Capacity(dev).least = Min(caps) /\ Capacity(dev).most = Max(caps)
    BY <1>2, <1>13
  <2> QED BY <2>1, <2>2
<1> QED BY <1>2, <1>10, <1>13

LEMMA MetricsRange ==
  ASSUME NEW dev \in Devices
  PROVE  /\ HeuristicCap(dev.cores, MaxFreq(dev)) \in 0..One
         /\ Metrics(dev).rel \in 0..One /\ Metrics(dev).rat \in 0..One
<1> DEFINE cap == Capacity(dev)
           eas == cap.ok /\ cap.most > 0 /\ MaxFreq(dev) > 0
<1>1. ASSUME NEW core \in Int, NEW mhz \in Int PROVE HeuristicCap(core, mhz) \in 0..One
  <2> DEFINE v == Or(core, 8) * One
             w == Or(mhz, 2000) * One
             share == Clamp(Div(v, 8 * One), 0, One)
             speed == Clamp(Div(w, 3500 * One), 0, One)
             low == Milli(400)
             high == Milli(600)
             a == Mul(share, low)
             b == Mul(speed, high)
  <2>1. HeuristicCap(core, mhz) = Clamp(a + b, 0, One)
    BY DEF HeuristicCap
  <2>2. v \in Int
    BY OneAssumption DEF Or
  <2>3. w \in Int
    BY OneAssumption DEF Or
  <2>4. low \in Int
    BY MilliNat
  <2>5. high \in Int
    BY MilliNat
  <2> HIDE DEF v, w, low, high
  <2>6. share \in Int
    <3>1. share \in 0..One
      BY <2>2, ShareOfUnits
    <3> HIDE DEF share
    <3> QED BY <3>1
  <2>7. speed \in Int
    <3>1. 3500 \in Nat \ {0}
      OBVIOUS
    <3>2. speed \in 0..One
      BY ONLY <2>3, <3>1, ShareOfUnits
    <3> HIDE DEF speed
    <3> QED BY <3>2
  <2> HIDE DEF share, speed
  <2>8. a \in Int
    BY <2>4, <2>6, MulInt
  <2>9. b \in Int
    BY <2>5, <2>7, MulInt
  <2> HIDE DEF a, b
  <2>10. a + b \in Int
    BY <2>8, <2>9
  <2> QED BY <2>1, <2>10, ShareRange
<1>2. dev.cores \in Nat /\ MaxFreq(dev) \in Nat /\ Or(MaxFreq(dev), 2000) \in Int
  BY DeviceAssumption, MaxFreqNat DEF Or
<1>3. cap.total \in Int /\ (cap.ok => cap.least \in Int /\ cap.most \in Nat \ {0})
  BY CapacityInt
<1> HIDE DEF cap
<1>4. Metrics(dev).rel = IF eas THEN Clamp(Div(cap.total * One, 8192 * One), 0, One)
                         ELSE HeuristicCap(dev.cores, Or(MaxFreq(dev), 2000))
  BY DEF Metrics, cap
<1>5. Metrics(dev).rat = IF eas THEN Clamp(Div(cap.least * One, cap.most * One), 0, One)
                         ELSE IF dev.cores > 4 THEN Milli(500) ELSE One
  BY DEF Metrics, cap
<1>6. Clamp(Div(cap.total * One, 8192 * One), 0, One) \in 0..One
  <2> DEFINE capacity == cap.total * One
  <2>1. capacity \in Int
    BY <1>3, OneAssumption
  <2>2. 8192 \in Nat \ {0}
    OBVIOUS
  <2> HIDE DEF capacity
  <2>3. Clamp(Div(capacity, 8192 * One), 0, One) \in 0..One
    BY ONLY <2>1, <2>2, ShareOfUnits
  <2> QED BY <2>3 DEF capacity
<1>7. ASSUME cap.ok PROVE Clamp(Div(cap.least * One, cap.most * One), 0, One) \in 0..One
  <2>1. cap.least * One \in Int /\ cap.most * One \in Nat \ {0}
    BY <1>3, <1>7, OneAssumption
  <2> QED BY <2>1, FracInt, ShareRange
<1>8. Milli(500) \in 0..One /\ One \in 0..One
  <2>1. 500 * One \in Nat /\ 500 * One <= 1000 * One
    BY OneAssumption
  <2>2. Milli(500) \in Nat
    BY MilliNat
  <2>3. 1000 * ((500 * One) \div 1000) <= 500 * One
    BY <2>1, DivWithin
  <2> QED BY <2>1, <2>2, <2>3, OneAssumption DEF Milli
<1>9. Metrics(dev).rel \in 0..One
  <2> DEFINE mhz == Or(MaxFreq(dev), 2000)
  <2>1. dev.cores \in Int /\ mhz \in Int
    BY <1>2
  <2> HIDE DEF mhz, eas
  <2>2. HeuristicCap(dev.cores, mhz) \in 0..One
    BY <1>1, <2>1
  <2>3. Metrics(dev).rel = IF eas THEN Clamp(Div(cap.total * One, 8192 * One), 0, One)
                           ELSE HeuristicCap(dev.cores, mhz)
    BY <1>4 DEF mhz
  <2> QED BY <1>6, <2>2, <2>3
<1>10. Metrics(dev).rat \in 0..One
  BY <1>5, <1>7, <1>8
<1>11. HeuristicCap(dev.cores, MaxFreq(dev)) \in 0..One
  <2>1. dev.cores \in Int /\ MaxFreq(dev) \in Int
    BY <1>2
  <2> QED BY <1>1, <2>1
<1> QED BY <1>9, <1>10, <1>11

LEMMA TunedBetween ==
  ASSUME NEW from \in Nat, NEW to \in Nat, NEW c \in Int
  PROVE  /\ Tuned(from, to, c) \in Nat
         /\ from <= to => Milli(from) <= Tuned(from, to, c) /\ Tuned(from, to, c) <= Milli(to)
         /\ to <= from => Milli(to) <= Tuned(from, to, c) /\ Tuned(from, to, c) <= Milli(from)
<1> DEFINE a == Milli(from)
           b == Milli(to)
           at == Lerp(a, b, c)
<1>1. a \in Nat /\ b \in Nat
  BY MilliNat
<1>2. (from <= to => a <= b) /\ (to <= from => b <= a)
  <2>1. from * One \in Int /\ to * One \in Int
    BY OneAssumption
  <2>2. (from <= to => from * One <= to * One) /\ (to <= from => to * One <= from * One)
    BY Scaled, OneAssumption
  <2> QED BY <2>1, <2>2, DivMonotone DEF Milli
<1>3. at \in Int
  <2>1. b - a \in Int
    BY <1>1
  <2>2. Mul(b - a, c) \in Int
    BY <2>1, MulInt
  <2> HIDE DEF a, b
  <2> QED BY <1>1, <2>2 DEF Lerp
<1>4. Tuned(from, to, c) = Clamp(at, IF a < b THEN a ELSE b, IF a < b THEN b ELSE a)
  BY DEF Tuned
<1> HIDE DEF a, b, at
<1>5. CASE a < b
  BY <1>1, <1>2, <1>3, <1>4, <1>5 DEF Clamp, a, b
<1>6. CASE ~(a < b)
  BY <1>1, <1>2, <1>3, <1>4, <1>6 DEF Clamp, a, b
<1> QED BY <1>5, <1>6

\* A field whose ends lie a whole number e of units apart falls by e times the index.
LEMMA TunedFalls ==
  ASSUME NEW from \in Nat, NEW to \in Nat, NEW e \in Nat, from = to + 1000 * e, NEW c \in 0..One
  PROVE  Tuned(from, to, c) = Milli(from) - e * c
<1> DEFINE a == Milli(from)
           b == Milli(to)
<1>1. a = b + e * One
  <2>1. b \in Nat /\ to * One \in Int /\ e * One \in Int /\ c \in Int
    BY MilliNat, OneAssumption
  <2>2. 1000 * b <= to * One /\ to * One < 1000 * b + 1000
    BY <2>1, DivWithin DEF Milli
  <2>3. from * One = to * One + 1000 * (e * One)
    <3>1. from * One = (to + 1000 * e) * One
      OBVIOUS
    <3>2. (to + 1000 * e) * One = to * One + 1000 * (e * One)
      BY OneAssumption
    <3> QED BY <3>1, <3>2
  <2>4. from * One \in Int /\ 1000 \in Nat \ {0}
    BY <2>1, <2>3
  <2> HIDE DEF b
  <2>5. b + e * One \in Int
    BY <2>1
  <2>6. 1000 * (b + e * One) <= from * One /\ from * One < 1000 * (b + e * One) + 1000
    <3>1. 1000 * (b + e * One) = 1000 * b + 1000 * (e * One)
      BY <2>1
    <3> QED BY <2>1, <2>2, <2>3, <2>4, <3>1
  <2> QED BY <2>4, <2>5, <2>6, DivUnique DEF Milli
<1>2. a \in Nat /\ b \in Nat
  BY MilliNat
<1> HIDE DEF a, b
<1>3. e * c \in Nat /\ e * c <= e * One /\ e * One \in Nat
  <2>1. c \in Nat /\ One \in Nat /\ c <= One
    BY OneAssumption
  <2> QED BY <2>1, Scaled
<1>4. Mul(b - a, c) = -(e * c)
  <2>1. b - a = -(e * One)
    BY <1>1, <1>2, <1>3
  <2>2. (b - a) * c = One * (-(e * c))
    <3>1. (-(e * One)) * c = One * (-(e * c))
      BY OneAssumption
    <3> QED BY <2>1, <3>1
  <2>3. (b - a) * c \in Int /\ -(e * c) \in Int
    BY <1>2, <1>3
  <2>4. One * (-(e * c)) < One * (-(e * c)) + One /\ One * (-(e * c)) \in Int
    BY <2>3, OneAssumption
  <2> QED BY <2>2, <2>3, <2>4, DivUnique, OneAssumption DEF Mul
<1>5. Lerp(a, b, c) = a - e * c
  BY <1>2, <1>3, <1>4 DEF Lerp
<1>6. Tuned(from, to, c) = Clamp(a - e * c, IF a < b THEN a ELSE b, IF a < b THEN b ELSE a)
  BY <1>5 DEF Tuned, a, b
<1>7. b <= a - e * c /\ a - e * c <= a /\ b <= a
  BY <1>1, <1>2, <1>3
<1>8. Tuned(from, to, c) = a - e * c
  BY <1>2, <1>3, <1>6, <1>7 DEF Clamp
<1> QED BY <1>8 DEF a

\* What the requests rely on: each range the right way round, no granularity forced above
\* the latency, and the initial task load in whole percent
Ordered(l) ==
  /\ l \in Limits
  /\ l.minLat <= l.maxLat /\ l.minGran <= l.maxGran /\ l.minWake <= l.maxWake
  /\ l.minMig <= l.maxMig /\ l.minWalt <= l.maxWalt /\ l.minUcl <= l.maxUcl
  /\ l.minGran <= l.minLat
  /\ l.minWalt % One = 0 /\ l.maxWalt % One = 0

LEMMA MilliWhole ==
  ASSUME NEW n \in Nat
  PROVE  Milli(1000 * n) = n * One
<1>1. (1000 * n) * One = 1000 * (n * One) /\ n * One \in Int
  BY OneAssumption
<1>2. (1000 * n) * One \in Int /\ 1000 * (n * One) < 1000 * (n * One) + 1000
  BY <1>1
<1> QED BY <1>1, <1>2, DivUnique DEF Milli

LEMMA MilliMonotone ==
  ASSUME NEW m \in Nat, NEW n \in Nat, m <= n
  PROVE  Milli(m) <= Milli(n)
<1>1. m * One \in Int /\ n * One \in Int /\ m * One <= n * One
  BY Scaled, OneAssumption
<1> QED BY <1>1, DivMonotone DEF Milli

\* The fields of tune.c:42-72
LEMMA FieldsNat ==
  ASSUME NEW c \in Int
  PROVE  /\ Tuned(20000, 4000, c) \in Nat
         /\ Tuned(25000, 12000, c) \in Nat
         /\ Tuned(6500, 1500, c) \in Nat
         /\ Tuned(10000, 4000, c) \in Nat
         /\ Tuned(3000, 1000, c) \in Nat
         /\ Tuned(8000, 4000, c) \in Nat
         /\ Tuned(600, 200, c) \in Nat
         /\ Tuned(1200, 600, c) \in Nat
         /\ Tuned(384000, 1024000, c) \in Nat
<1>1. Tuned(20000, 4000, c) \in Nat
  BY TunedBetween, SMT
<1>2. Tuned(25000, 12000, c) \in Nat
  BY TunedBetween, SMT
<1>3. Tuned(6500, 1500, c) \in Nat
  BY TunedBetween, SMT
<1>4. Tuned(10000, 4000, c) \in Nat
  BY TunedBetween, SMT
<1>5. Tuned(3000, 1000, c) \in Nat
  BY TunedBetween, SMT
<1>6. Tuned(8000, 4000, c) \in Nat
  BY TunedBetween, SMT
<1>7. Tuned(600, 200, c) \in Nat
  BY TunedBetween, SMT
<1>8. Tuned(1200, 600, c) \in Nat
  BY TunedBetween, SMT
<1>9. Tuned(384000, 1024000, c) \in Nat
  BY TunedBetween, SMT
<1> QED BY <1>1, <1>2, <1>3, <1>4, <1>5, <1>6, <1>7, <1>8, <1>9

LEMMA FieldsFall ==
  ASSUME NEW c \in 0..One
  PROVE  /\ Tuned(20000, 4000, c) = Milli(20000) - 16 * c
         /\ Tuned(25000, 12000, c) = Milli(25000) - 13 * c
         /\ Tuned(6500, 1500, c) = Milli(6500) - 5 * c
         /\ Tuned(10000, 4000, c) = Milli(10000) - 6 * c
<1>1. Tuned(20000, 4000, c) = Milli(20000) - 16 * c
  BY TunedFalls, SMT
<1>2. Tuned(25000, 12000, c) = Milli(25000) - 13 * c
  BY TunedFalls, SMT
<1>3. Tuned(6500, 1500, c) = Milli(6500) - 5 * c
  BY TunedFalls, SMT
<1>4. Tuned(10000, 4000, c) = Milli(10000) - 6 * c
  BY TunedFalls, SMT
<1> QED BY <1>1, <1>2, <1>3, <1>4

LEMMA FieldsApart ==
  ASSUME NEW c \in Int
  PROVE  /\ Tuned(3000, 1000, c) <= Milli(3000)
         /\ Milli(4000) <= Tuned(8000, 4000, c)
         /\ Tuned(600, 200, c) <= Milli(600)
         /\ Milli(600) <= Tuned(1200, 600, c)
         /\ Milli(384000) <= Tuned(384000, 1024000, c)
<1>1. Tuned(3000, 1000, c) <= Milli(3000)
  BY TunedBetween, SMT
<1>2. Milli(4000) <= Tuned(8000, 4000, c)
  BY TunedBetween, SMT
<1>3. Tuned(600, 200, c) <= Milli(600)
  BY TunedBetween, SMT
<1>4. Milli(600) <= Tuned(1200, 600, c)
  BY TunedBetween, SMT
<1>5. Milli(384000) <= Tuned(384000, 1024000, c)
  BY TunedBetween, SMT
<1> QED BY <1>1, <1>2, <1>3, <1>4, <1>5

\* The calibration keeps the limits in order on every device: the ends of a range that
\* overlap, and the granularity and the latency, move together (tune.c:42-72).
LEMMA TunedOrdered ==
  ASSUME NEW dev \in Devices
  PROVE  Ordered(TuneLimits(dev, BaseLim))
<1> DEFINE c == HeuristicCap(dev.cores, MaxFreq(dev))
           l == TuneLimits(dev, BaseLim)
<1>1. Ordered(BaseLim)
  BY LimitAssumption, SMT DEF Ordered
<1>2. CASE dev.cores <= 0 \/ MaxFreq(dev) <= 0
  BY <1>1, <1>2, SMT DEF TuneLimits
<1>3. CASE ~(dev.cores <= 0 \/ MaxFreq(dev) <= 0)
  <2>1. c \in 0..One /\ c \in Int /\ One \in Nat
    <3>1. c \in 0..One
      BY MetricsRange, SMT
    <3> HIDE DEF c
    <3> QED BY <3>1, OneAssumption, SMT
  <2>2. l = [minLat |-> Tuned(20000, 4000, c), maxLat |-> Tuned(25000, 12000, c),
            minGran |-> Tuned(6500, 1500, c), maxGran |-> Tuned(10000, 4000, c),
            minWake |-> Tuned(3000, 1000, c), maxWake |-> Tuned(8000, 4000, c),
            minMig |-> Tuned(600, 200, c), maxMig |-> Tuned(1200, 600, c),
            minWalt |-> BaseLim.minWalt, maxWalt |-> BaseLim.maxWalt,
            minUcl |-> BaseLim.minUcl, maxUcl |-> Tuned(384000, 1024000, c)]
    BY <1>3, SMT DEF TuneLimits
  <2> HIDE DEF c, l
  <2>3. /\ Tuned(20000, 4000, c) \in Nat
        /\ Tuned(25000, 12000, c) \in Nat
        /\ Tuned(6500, 1500, c) \in Nat
        /\ Tuned(10000, 4000, c) \in Nat
        /\ Tuned(3000, 1000, c) \in Nat
        /\ Tuned(8000, 4000, c) \in Nat
        /\ Tuned(600, 200, c) \in Nat
        /\ Tuned(1200, 600, c) \in Nat
        /\ Tuned(384000, 1024000, c) \in Nat
    BY <2>1, FieldsNat, SMT
  <2>4. /\ Tuned(20000, 4000, c) = Milli(20000) - 16 * c
        /\ Tuned(25000, 12000, c) = Milli(25000) - 13 * c
        /\ Tuned(6500, 1500, c) = Milli(6500) - 5 * c
        /\ Tuned(10000, 4000, c) = Milli(10000) - 6 * c
    BY <2>1, FieldsFall, SMT
  <2>8. Milli(20000) = 20 * One /\ Milli(25000) = 25 * One /\ Milli(10000) = 10 * One
        /\ Milli(7000) = 7 * One
    <3>1. Milli(1000 * 20) = 20 * One
      BY MilliWhole, SMT
    <3>2. Milli(1000 * 25) = 25 * One
      BY MilliWhole, SMT
    <3>3. Milli(1000 * 10) = 10 * One
      BY MilliWhole, SMT
    <3>4. Milli(1000 * 7) = 7 * One
      BY MilliWhole, SMT
    <3>5. 1000 * 20 = 20000 /\ 1000 * 25 = 25000 /\ 1000 * 10 = 10000 /\ 1000 * 7 = 7000
      BY SMT
    <3> QED BY <3>1, <3>2, <3>3, <3>4, <3>5, SMT
  <2>9. Milli(6500) <= Milli(7000) /\ Milli(6500) \in Nat
    BY MilliNat, MilliMonotone, SMT
  <2>10. /\ Tuned(3000, 1000, c) <= Milli(3000)
         /\ Milli(4000) <= Tuned(8000, 4000, c)
         /\ Tuned(600, 200, c) <= Milli(600)
         /\ Milli(600) <= Tuned(1200, 600, c)
         /\ Milli(384000) <= Tuned(384000, 1024000, c)
    BY <2>1, FieldsApart, SMT
  <2>11. Milli(3000) <= Milli(4000) /\ Milli(3000) \in Nat /\ Milli(4000) \in Nat
         /\ Milli(600) \in Nat /\ Milli(384000) \in Nat
    BY MilliNat, MilliMonotone, SMT
  <2>12. l \in Limits
    BY <1>1, <2>2, <2>3, SMT DEF Ordered, Limits
  <2>13. l.minLat <= l.maxLat /\ l.minGran <= l.maxGran /\ l.minGran <= l.minLat
    <3>1. c >= 0 /\ c <= One
      BY <2>1, SMT
    <3>2. /\ l.minLat = 20 * One - 16 * c /\ l.maxLat = 25 * One - 13 * c
          /\ l.minGran = Milli(6500) - 5 * c /\ l.maxGran = 10 * One - 6 * c
      BY <2>2, <2>4, <2>8, SMT
    <3>3. Milli(6500) <= 7 * One
      BY <2>8, <2>9, SMT
    <3> QED BY <2>1, <2>9, <3>1, <3>2, <3>3, SMT
  <2>14. l.minWake <= l.maxWake /\ l.minMig <= l.maxMig
    BY <2>2, <2>3, <2>10, <2>11, SMT
  <2>15. l.minWalt <= l.maxWalt /\ l.minWalt % One = 0 /\ l.maxWalt % One = 0
    BY <1>1, <2>2, SMT DEF Ordered
  <2>16. l.minUcl <= l.maxUcl
    <3>1. BaseLim.minUcl <= BaseLim.maxUcl /\ BaseLim.maxUcl <= Milli(384000)
          /\ BaseLim.minUcl \in Nat /\ BaseLim.maxUcl \in Nat
      BY LimitAssumption, SMT DEF Limits
    <3> QED BY <2>2, <2>3, <2>10, <2>11, <3>1, SMT
  <2>17. Ordered(l)
    BY <2>12, <2>13, <2>14, <2>15, <2>16, SMT DEF Ordered
  <2> QED BY <2>17, SMT DEF l
<1> QED BY <1>2, <1>3, SMT

-----------------------------------------------------------------------------
(* The curves of cpu.c: whole numbers, whatever goes into them             *)

LEMMA SigmoidInt ==
  ASSUME NEW v \in Int, NEW k \in Int, NEW mid \in Int
  PROVE  Sigmoid(v, k, mid) \in Int
<1> DEFINE x == Mul(k, v - mid)
<1>1. x \in Int
  <2>1. v - mid \in Int
    OBVIOUS
  <2> QED BY <2>1, MulInt
<1> HIDE DEF x
<1>2. One + Abs(x) \in Nat \ {0}
  BY <1>1, OneAssumption DEF Abs
<1>3. Div(x, One + Abs(x)) \in Int
  BY <1>1, <1>2, FracInt
<1>4. Sigmoid(v, k, mid) = (Div(x, One + Abs(x)) + One) \div 2
  BY DEF Sigmoid, x
<1>5. Div(x, One + Abs(x)) + One \in Int
  BY <1>3, OneAssumption
<1> QED BY <1>4, <1>5, DivInt

LEMMA DecayInt ==
  ASSUME NEW v \in Int, NEW coeff \in Int
  PROVE  Decay(v, coeff) \in Int
<1> DEFINE x == Mul(coeff, v)
           below == One + x + Mul(x, x) \div 2
<1>1. x \in Int
  BY MulInt
<1>2. Decay(v, coeff) = IF x < 0 THEN One ELSE IF x >= 180 * One THEN 0 ELSE Div(One, below)
  BY DEF Decay
<1> HIDE DEF x
<1>3. Mul(x, x) \in Nat
  BY <1>1, SquareNat
<1>4. Mul(x, x) \div 2 \in Nat
  BY <1>3
<1>5. ASSUME x >= 0 PROVE Div(One, below) \in Int
  <2>1. below \in Nat \ {0}
    BY <1>1, <1>4, <1>5, OneAssumption
  <2> HIDE DEF below
  <2> QED BY <2>1, FracInt, OneAssumption
<1> HIDE DEF below
<1>6. CASE x < 0
  BY <1>2, <1>6, OneAssumption
<1>7. CASE x >= 0
  BY <1>1, <1>2, <1>5, <1>7
<1> QED BY <1>1, <1>6, <1>7

LEMMA AlgSigInt ==
  ASSUME NEW x \in Int
  PROVE  AlgSig(x) \in Int
<1> DEFINE root == Sqrt(One + Mul(x, x))
<1>1. One + Mul(x, x) \in Nat \ {0}
  BY SquareNat, OneAssumption
<1>2. root \in Nat \ {0}
  BY <1>1, SqrtPositive
<1>3. AlgSig(x) = IF x >= 180 * One THEN One ELSE Div(x, root)
  BY DEF AlgSig
<1> HIDE DEF root
<1>4. Div(x, root) \in Int
  BY <1>2, FracInt
<1> QED BY <1>3, <1>4, OneAssumption

\* What the governor maps, and the terms the curves take from it
Inputs == [demand : Nat, vel : Int, scale : Nat, bat : Int, base : Int]

LEMMA EffInt ==
  ASSUME NEW in \in Inputs
  PROVE  /\ Eff(in).amp \in Int /\ Eff(in).decay \in Int
         /\ Eff(in).sigMid \in Int /\ Eff(in).uclMid \in Int
<1> DEFINE charge == Charge(in.bat)
           health == Mul(charge, in.scale)
<1>1. in.bat \in Int /\ in.scale \in Int /\ in.base \in Int
  BY DEF Inputs
<1>2. charge \in Int
  <2>1. Clamp(in.bat, 0, 100 * One) \in Int /\ 100 * One \in Nat \ {0}
    BY <1>1, OneAssumption DEF Clamp
  <2>2. charge = Div(Clamp(in.bat, 0, 100 * One), 100 * One)
    BY DEF Charge
  <2> HIDE DEF charge
  <2> QED BY <2>1, <2>2, FracInt
<1> HIDE DEF charge
<1>3. health \in Int
  BY <1>1, <1>2, MulInt
<1>4. /\ Eff(in).amp = Mul(Milli(115), health) /\ Eff(in).decay = Mul(Milli(19), in.scale)
      /\ Eff(in).sigMid = Milli(6800) + Mul(Milli(500), in.base)
      /\ Eff(in).uclMid = Milli(9500) + Mul(Milli(500), in.base)
  BY SMT DEF Eff, charge
<1> HIDE DEF health
<1>5. /\ Milli(115) \in Int /\ Milli(19) \in Int /\ Milli(6800) \in Int
      /\ Milli(500) \in Int /\ Milli(9500) \in Int
  <2>1. \A n \in Nat : Milli(n) \in Int
    BY MilliNat, SMT
  <2> QED BY <2>1, SMT
<1>6. Mul(Milli(115), health) \in Int
  BY <1>3, <1>5, MulInt, SMT
<1> DEFINE gain == Milli(19)
           lift == Milli(500)
<1>7. Mul(gain, in.scale) \in Int /\ Mul(lift, in.base) \in Int
  <2>1. gain \in Int /\ lift \in Int
    BY <1>5
  <2> HIDE DEF gain, lift
  <2> QED BY <1>1, <2>1, MulInt
<1> QED BY <1>4, <1>5, <1>6, <1>7, SMT

LEMMA EffPressInt ==
  ASSUME NEW in \in Inputs
  PROVE  EffPress(in.demand, in.vel, Eff(in)) \in Int
<1> DEFINE trend == Trend(in.vel)
           amp == Eff(in).amp
<1>1. in.vel \in Int /\ in.demand \in Int /\ amp \in Int
  BY EffInt DEF Inputs
<1>2. trend \in Int
  BY <1>1, AlgSigInt DEF Trend
<1>3. EffPress(in.demand, in.vel, Eff(in)) = Mul(in.demand, One + Mul(trend, amp))
  BY DEF EffPress
<1> HIDE DEF trend, amp
<1>4. Mul(trend, amp) \in Int
  BY <1>1, <1>2, MulInt
<1>5. One + Mul(trend, amp) \in Int
  BY <1>4, OneAssumption
<1> QED BY <1>1, <1>3, <1>5, MulInt

LEMMA TuneCpuNat ==
  ASSUME NEW dev \in Devices
  PROVE  /\ TuneCpu(Metrics(dev)).latGranRat \in Nat /\ TuneCpu(Metrics(dev)).uclampK \in Nat
         /\ TuneCpu(Metrics(dev)).sigmoidK \in Nat
<1> DEFINE rel == Metrics(dev).rel
           rat == Metrics(dev).rat
<1>1. rel \in Int /\ rat \in Int
  <2>1. rel \in 0..One /\ rat \in 0..One
    BY MetricsRange
  <2> HIDE DEF rel, rat
  <2> QED BY <2>1, OneAssumption
<1>2. /\ TuneCpu(Metrics(dev)).latGranRat = Tuned(500, 200, rel)
      /\ TuneCpu(Metrics(dev)).uclampK = Tuned(120, 250, rat)
      /\ TuneCpu(Metrics(dev)).sigmoidK = Tuned(40, 120, rat)
  BY SMT DEF TuneCpu
<1> HIDE DEF rel, rat
<1>3. Tuned(500, 200, rel) \in Nat
  BY <1>1, TunedBetween, SMT
<1>4. Tuned(120, 250, rat) \in Nat
  BY <1>1, TunedBetween, SMT
<1>5. Tuned(40, 120, rat) \in Nat
  BY <1>1, TunedBetween, SMT
<1> QED BY <1>2, <1>3, <1>4, <1>5, SMT

-----------------------------------------------------------------------------
(* Each request stays within its two limits                                *)

\* The limits and the coefficients that boot leaves
Calibrated == Ordered(lim) /\ cfg.latGranRat \in Nat /\ cfg.uclampK \in Nat /\ cfg.sigmoidK \in Nat

LEMMA RampInt ==
  ASSUME NEW lo \in Int, NEW hi \in Int, NEW share \in Int
  PROVE  lo + Mul(hi - lo, share) \in Int
<1>1. hi - lo \in Int
  OBVIOUS
<1>2. Mul(hi - lo, share) \in Int
  BY <1>1, MulInt
<1> QED BY <1>2

LEMMA LatWithin ==
  ASSUME Calibrated, NEW in \in Inputs, NEW press \in Int, NEW eff, eff.sigMid \in Int
  PROVE  Lat(in, press, eff) \in Int
         /\ lim.minLat <= Lat(in, press, eff) /\ Lat(in, press, eff) <= lim.maxLat
<1> DEFINE range == lim.maxLat - lim.minLat
           shaped == lim.minLat + Mul(range, One - Sigmoid(press, cfg.sigmoidK, eff.sigMid))
           ceiling == lim.maxLat - Mul(Share(in.demand), range)
           sooner == IF shaped < ceiling THEN shaped ELSE ceiling
           floor == ThermLat(in.scale)
           at == IF sooner > floor THEN sooner ELSE floor
<1>1. lim.minLat \in Int /\ lim.maxLat \in Int /\ lim.minLat <= lim.maxLat /\ cfg.sigmoidK \in Int
  BY DEF Calibrated, Ordered, Limits
<1>2. in.demand \in Int /\ in.scale \in Int
  BY DEF Inputs
<1>3. Lat(in, press, eff) = Clamp(at, lim.minLat, lim.maxLat)
  BY DEF Lat
<1>4. shaped \in Int
  <2>1. Sigmoid(press, cfg.sigmoidK, eff.sigMid) \in Int
    BY <1>1, SigmoidInt
  <2>2. One - Sigmoid(press, cfg.sigmoidK, eff.sigMid) \in Int
    BY <2>1, OneAssumption
  <2> QED BY <1>1, <2>2, RampInt
<1>5. ceiling \in Int
  <2>1. 100 * One \in Nat \ {0}
    BY OneAssumption
  <2>2. Div(in.demand, 100 * One) \in Int
    BY <1>2, <2>1, FracInt
  <2>3. Share(in.demand) \in Int
    BY <2>2, ShareRange DEF Share
  <2>4. range \in Int
    BY <1>1
  <2>5. Mul(Share(in.demand), range) \in Int
    BY <2>3, <2>4, MulInt
  <2> HIDE DEF range
  <2> QED BY <1>1, <2>5
<1>6. floor \in Int
  <2>1. One - in.scale \in Int
    BY <1>2, OneAssumption
  <2>2. Clamp(One - in.scale, 0, One) \in Int
    BY <2>1, ShareRange
  <2> QED BY <1>1, <2>2, RampInt DEF ThermLat
<1> HIDE DEF shaped, ceiling, floor, range
<1>7. at \in Int
  BY <1>4, <1>5, <1>6
<1> HIDE DEF at
<1> QED BY <1>1, <1>3, <1>7, ClampBetween

LEMMA GranWithin ==
  ASSUME Calibrated, NEW lat \in Int, lim.minLat <= lat
  PROVE  /\ Gran(lat) \in Int /\ Gran(lat) <= lat
         /\ lim.minGran <= Gran(lat) /\ Gran(lat) <= lim.maxGran
<1> DEFINE share == Clamp(Mul(lat, cfg.latGranRat), lim.minGran, lim.maxGran)
<1>1. /\ lim.minGran \in Int /\ lim.maxGran \in Int /\ lim.minLat \in Int
      /\ lim.minGran <= lim.maxGran /\ lim.minGran <= lim.minLat /\ cfg.latGranRat \in Int
  BY DEF Calibrated, Ordered, Limits
<1>2. Mul(lat, cfg.latGranRat) \in Int
  BY <1>1, MulInt
<1>3. share \in Int /\ lim.minGran <= share /\ share <= lim.maxGran
  BY <1>1, <1>2, ClampBetween
<1>4. Gran(lat) = IF share < lat THEN share ELSE lat
  BY DEF Gran
<1> HIDE DEF share
<1> QED BY <1>1, <1>3, <1>4

LEMMA WakeupWithin ==
  ASSUME Calibrated, NEW press \in Int, NEW eff, eff.decay \in Int
  PROVE  /\ Wakeup(press, eff) \in Int
         /\ lim.minWake <= Wakeup(press, eff) /\ Wakeup(press, eff) <= lim.maxWake
<1>1. lim.minWake \in Int /\ lim.maxWake \in Int /\ lim.minWake <= lim.maxWake
  BY DEF Calibrated, Ordered, Limits
<1>2. Decay(press, eff.decay) \in Int
  BY DecayInt
<1>3. lim.minWake + Mul(lim.maxWake - lim.minWake, Decay(press, eff.decay)) \in Int
  BY <1>1, <1>2, RampInt
<1> QED BY <1>1, <1>3, ClampBetween DEF Wakeup

LEMMA MigrationWithin ==
  ASSUME Calibrated, NEW vel \in Int, NEW press \in Int
  PROVE  /\ Migration(vel, press) \in Int
         /\ lim.minMig <= Migration(vel, press) /\ Migration(vel, press) <= lim.maxMig
<1> DEFINE rest == One - Share(press)
           ramp == lim.minMig + Mul(lim.maxMig - lim.minMig, Mul(rest, rest))
           slope == Clamp(Div(Abs(vel), 25 * One), 0, One)
           halved == One - Mul(slope, One \div 2)
<1>1. lim.minMig \in Int /\ lim.maxMig \in Int /\ lim.minMig <= lim.maxMig
  BY DEF Calibrated, Ordered, Limits
<1>2. Migration(vel, press) = Clamp(Mul(ramp, halved), lim.minMig, lim.maxMig)
  BY DEF Migration
<1>3. 100 * One \in Nat \ {0} /\ 25 * One \in Nat \ {0} /\ Abs(vel) \in Int
      /\ One \div 2 \in Int
  BY OneAssumption DEF Abs
<1>4. rest \in Int
  <2>1. Div(press, 100 * One) \in Int
    BY <1>3, FracInt
  <2>2. Share(press) \in Int
    BY <2>1, ShareRange DEF Share
  <2> QED BY <2>2, OneAssumption
<1> HIDE DEF rest
<1>5. ramp \in Int
  <2>1. Mul(rest, rest) \in Int
    BY <1>4, MulInt
  <2> QED BY <1>1, <2>1, RampInt
<1>6. slope \in Int
  <2>1. Div(Abs(vel), 25 * One) \in Int
    BY <1>3, FracInt
  <2> QED BY <2>1, ShareRange
<1> HIDE DEF ramp, slope
<1>7. halved \in Int
  <2>1. Mul(slope, One \div 2) \in Int
    BY <1>3, <1>6, MulInt
  <2> QED BY <2>1, OneAssumption
<1> HIDE DEF halved
<1>8. Mul(ramp, halved) \in Int
  BY <1>5, <1>7, MulInt
<1> QED BY <1>1, <1>2, <1>8, ClampBetween

LEMMA WaltWithin ==
  ASSUME Calibrated, NEW press \in Int
  PROVE  Walt(press) \in Int /\ lim.minWalt <= Walt(press) /\ Walt(press) <= lim.maxWalt
<1>1. lim.minWalt \in Int /\ lim.maxWalt \in Int /\ lim.minWalt <= lim.maxWalt
  BY DEF Calibrated, Ordered, Limits
<1>2. Share(press) \in Int
  <2>1. 100 * One \in Nat \ {0}
    BY OneAssumption
  <2>2. Div(press, 100 * One) \in Int
    BY <2>1, FracInt
  <2> QED BY <2>2, ShareRange DEF Share
<1>3. Mul(Share(press), Share(press)) \in Int
  BY <1>2, MulInt
<1>4. lim.minWalt + Mul(lim.maxWalt - lim.minWalt, Mul(Share(press), Share(press))) \in Int
  BY <1>1, <1>3, RampInt
<1> QED BY <1>1, <1>4, ClampBetween DEF Walt

LEMMA UclampWithin ==
  ASSUME Calibrated, NEW press \in Int, NEW scale \in Int, NEW eff, eff.uclMid \in Int
  PROVE  /\ Uclamp(press, scale, eff) \in Int
         /\ lim.minUcl <= Uclamp(press, scale, eff) /\ Uclamp(press, scale, eff) <= lim.maxUcl
<1> DEFINE raw == lim.minUcl + Mul(lim.maxUcl - lim.minUcl, Sigmoid(press, cfg.uclampK, eff.uclMid))
<1>1. lim.minUcl \in Int /\ lim.maxUcl \in Int /\ lim.minUcl <= lim.maxUcl /\ cfg.uclampK \in Int
  BY DEF Calibrated, Ordered, Limits
<1>2. Sigmoid(press, cfg.uclampK, eff.uclMid) \in Int
  BY <1>1, SigmoidInt
<1>3. raw \in Int
  BY <1>1, <1>2, RampInt
<1>4. Uclamp(press, scale, eff) = Clamp(Mul(raw, scale), lim.minUcl, lim.maxUcl)
  BY DEF Uclamp
<1> HIDE DEF raw
<1> DEFINE scaled == Mul(raw, scale)
<1>5. scaled \in Int
  BY <1>3, MulInt
<1>6. Uclamp(press, scale, eff) = Clamp(scaled, lim.minUcl, lim.maxUcl)
  BY <1>4
<1> HIDE DEF scaled
<1>7. /\ Clamp(scaled, lim.minUcl, lim.maxUcl) \in Int
      /\ lim.minUcl <= Clamp(scaled, lim.minUcl, lim.maxUcl)
      /\ Clamp(scaled, lim.minUcl, lim.maxUcl) <= lim.maxUcl
  BY <1>1, <1>5, ClampBetween
<1> QED BY <1>6, <1>7

-----------------------------------------------------------------------------
(* What rounding does to a request (math.h:124-150)                        *)

LEMMA QuantNear ==
  ASSUME NEW w \in Nat, NEW lo \in Nat, NEW hi \in Nat, lo <= w, w <= hi, NEW fallback \in Int
  PROVE  LET v == SanQuant(w, fallback)
         IN  v \in Int /\ Near(v, lo, hi)
<1> DEFINE ns == (w * Units) \div One
           half == Quant \div 2
           steps == (ns + half) \div Quant
           v == steps * Quant
<1>1. One \in Nat \ {0} /\ Units \in Nat \ {0} /\ Quant \in Nat \ {0}
  BY OneAssumption, ScaleAssumption
<1>2. SanQuant(w, fallback) = v
  BY DEF SanQuant
<1>3. w * Units \in Int /\ lo * Units \in Int /\ hi * Units \in Int
      /\ lo * Units <= w * Units /\ w * Units <= hi * Units
  BY <1>1, Scaled
<1>4. ns \in Int /\ One * ns <= w * Units /\ w * Units < One * ns + One
  BY <1>1, <1>3, DivInt, DivWithin
<1>5. half \in Int /\ 2 * half <= Quant /\ Quant < 2 * half + 2
  BY <1>1
<1> HIDE DEF ns, half
<1>6. steps \in Int /\ Quant * steps <= ns + half /\ ns + half < Quant * steps + Quant
  <2>1. ns + half \in Int
    BY <1>4, <1>5
  <2> HIDE DEF steps
  <2> QED BY <1>1, <2>1, DivInt, DivWithin DEF steps
<1> HIDE DEF steps
<1>7. v \in Int /\ v = Quant * steps
  BY <1>1, <1>6
<1> HIDE DEF v
<1>8. v <= ns + half /\ ns - half <= v
  BY <1>1, <1>4, <1>5, <1>6, <1>7
<1>9. v * One <= (ns + half) * One /\ (ns - half) * One <= v * One
  <2>1. ns + half \in Int /\ ns - half \in Int
    BY <1>4, <1>5
  <2> QED BY <1>1, <1>7, <1>8, <2>1, Scaled
<1>10. (ns + half) * One = One * ns + half * One /\ (ns - half) * One = One * ns - half * One
       /\ (half + 1) * One = half * One + One
       /\ One * ns \in Int /\ half * One \in Int /\ v * One \in Int
  BY <1>1, <1>4, <1>5, <1>7
<1>11. v * One <= hi * Units + half * One
  BY <1>3, <1>4, <1>9, <1>10
<1>12. v * One >= lo * Units - (half + 1) * One
  BY <1>1, <1>3, <1>4, <1>9, <1>10
<1> QED BY <1>2, <1>7, <1>11, <1>12 DEF half, Near

\* Rounding keeps the order of two requests.
LEMMA QuantMonotone ==
  ASSUME NEW a \in Nat, NEW b \in Nat, a <= b, NEW fa, NEW fb
  PROVE  SanQuant(a, fa) <= SanQuant(b, fb)
<1> DEFINE na == (a * Units) \div One
           nb == (b * Units) \div One
           half == Quant \div 2
           sa == (na + half) \div Quant
           sb == (nb + half) \div Quant
<1>1. One \in Nat \ {0} /\ Units \in Nat \ {0} /\ Quant \in Nat \ {0} /\ half \in Int
  BY OneAssumption, ScaleAssumption
<1>2. SanQuant(a, fa) = sa * Quant /\ SanQuant(b, fb) = sb * Quant
  BY DEF SanQuant
<1> HIDE DEF half
<1>3. a * Units \in Int /\ b * Units \in Int /\ a * Units <= b * Units
  BY <1>1, Scaled
<1>4. na \in Int /\ nb \in Int /\ na <= nb
  BY <1>1, <1>3, DivInt, DivMonotone
<1> HIDE DEF na, nb
<1>5. na + half \in Int /\ nb + half \in Int /\ na + half <= nb + half
  BY <1>1, <1>4
<1>6. sa \in Int /\ sb \in Int /\ sa <= sb
  BY <1>1, <1>5, DivInt, DivMonotone
<1> HIDE DEF sa, sb
<1>7. sa * Quant <= sb * Quant
  BY <1>1, <1>6, Scaled
<1> QED BY <1>2, <1>7

LEMMA RoundedNear ==
  ASSUME NEW w \in Nat
  PROVE  /\ Rounded(w) \in Int
         /\ 2 * (One * Rounded(w)) <= 2 * w + One /\ 2 * w - One <= 2 * (One * Rounded(w))
<1> DEFINE half == One \div 2
           r == (w + half) \div One
<1>1. One \in Nat \ {0} /\ half \in Int /\ 2 * half <= One /\ One < 2 * half + 2
  BY OneAssumption
<1>2. Rounded(w) = r
  BY DEF Rounded
<1> HIDE DEF half
<1>3. r \in Int /\ One * r <= w + half /\ w + half < One * r + One
  <2>1. w + half \in Int
    BY <1>1
  <2> QED BY <1>1, <2>1, DivInt, DivWithin
<1> HIDE DEF r
<1>4. One * r \in Int
  BY <1>1, <1>3
<1>5. 2 * (One * r) <= 2 * w + One /\ 2 * w - One <= 2 * (One * r)
  BY <1>1, <1>3, <1>4
<1> QED BY <1>2, <1>3, <1>5

\* Between two whole numbers the rounding stays between them.
LEMMA RoundedWhole ==
  ASSUME NEW w \in Nat, NEW lo \in Nat, NEW hi \in Nat, lo <= w, w <= hi,
         lo % One = 0, hi % One = 0
  PROVE  lo <= One * Rounded(w) /\ One * Rounded(w) <= hi
<1> DEFINE r == Rounded(w)
           m == lo \div One
           n == hi \div One
<1>1. One \in Nat \ {0}
  BY OneAssumption
<1>2. m \in Int /\ n \in Int /\ lo = One * m /\ hi = One * n
  BY <1>1
<1>3. r \in Int /\ 2 * (One * r) <= 2 * w + One /\ 2 * w - One <= 2 * (One * r)
  BY RoundedNear
<1> HIDE DEF r, m, n
<1>4. One * r \in Int /\ One * m \in Int /\ One * n \in Int
  BY <1>1, <1>2, <1>3
<1>5. ~(r + 1 <= m)
  <2> SUFFICES ASSUME r + 1 <= m PROVE FALSE
    OBVIOUS
  <2>1. One * (r + 1) <= One * m
    BY <1>1, <1>2, <1>3, Scaled
  <2>2. One * (r + 1) = One * r + One
    BY <1>1, <1>3
  <2> QED BY <1>1, <1>2, <1>3, <1>4, <2>1, <2>2
<1>6. ~(n + 1 <= r)
  <2> SUFFICES ASSUME n + 1 <= r PROVE FALSE
    OBVIOUS
  <2>1. One * (n + 1) <= One * r
    BY <1>1, <1>2, <1>3, Scaled
  <2>2. One * (n + 1) = One * n + One
    BY <1>1, <1>2
  <2> QED BY <1>1, <1>2, <1>3, <1>4, <2>1, <2>2
<1>7. One * m <= One * r /\ One * r <= One * n
  <2>1. m <= r /\ r <= n
    BY <1>2, <1>3, <1>5, <1>6
  <2> QED BY <1>1, <1>2, <1>3, <2>1, Scaled
<1> QED BY <1>2, <1>7 DEF r

\* apply_mapping() asks for values within the limits (gov.c:270-300).
LEMMA MappedWithin ==
  ASSUME Calibrated, NEW in \in Inputs, NEW v, v = Mapped(in)
  PROVE  Within(v)
<1> DEFINE eff == Eff(in)
           press == EffPress(in.demand, in.vel, eff)
           lat == Lat(in, press, eff)
           gran == Gran(lat)
           soon == Wakeup(press, eff)
           mig == Migration(in.vel, press)
           walt == Walt(press)
           ucl == Uclamp(press, in.scale, eff)
<1>1. /\ lim.minLat \in Nat /\ lim.maxLat \in Nat /\ lim.minGran \in Nat /\ lim.maxGran \in Nat
      /\ lim.minWake \in Nat /\ lim.maxWake \in Nat /\ lim.minMig \in Nat /\ lim.maxMig \in Nat
      /\ lim.minWalt \in Nat /\ lim.maxWalt \in Nat /\ lim.minUcl \in Nat /\ lim.maxUcl \in Nat
      /\ lim.minWalt % One = 0 /\ lim.maxWalt % One = 0
  BY DEF Calibrated, Ordered, Limits
<1>2. /\ v.lat = SanQuant(lat, lim.maxLat) /\ v.gran = SanQuant(gran, lim.maxGran)
      /\ v.wake = SanQuant(soon, lim.maxWake) /\ v.mig = SanQuant(mig, lim.minMig)
      /\ v.walt = San(walt, lim.minWalt \div One)
      /\ v.ucl = San(ucl, lim.minUcl \div One)
  BY DEF Mapped
<1>3. eff.sigMid \in Int /\ eff.uclMid \in Int /\ eff.decay \in Int
  BY EffInt
<1>4. press \in Int
  BY EffPressInt
<1>5. in.vel \in Int /\ in.scale \in Int
  BY DEF Inputs
<1> HIDE DEF eff, press
<1>6. lat \in Int /\ lim.minLat <= lat /\ lat <= lim.maxLat
  BY <1>3, <1>4, LatWithin
<1> HIDE DEF lat
<1>7. gran \in Int /\ gran <= lat /\ lim.minGran <= gran /\ gran <= lim.maxGran
  BY <1>6, GranWithin
<1>8. soon \in Int /\ lim.minWake <= soon /\ soon <= lim.maxWake
  BY <1>3, <1>4, WakeupWithin
<1>9. mig \in Int /\ lim.minMig <= mig /\ mig <= lim.maxMig
  BY <1>4, <1>5, MigrationWithin
<1>10. walt \in Int /\ lim.minWalt <= walt /\ walt <= lim.maxWalt
  BY <1>4, WaltWithin
<1>11. ucl \in Int /\ lim.minUcl <= ucl /\ ucl <= lim.maxUcl
  BY <1>3, <1>4, <1>5, UclampWithin
<1> HIDE DEF gran, soon, mig, walt, ucl
<1>12. lat \in Nat /\ gran \in Nat /\ soon \in Nat /\ mig \in Nat /\ walt \in Nat /\ ucl \in Nat
  BY <1>1, <1>6, <1>7, <1>8, <1>9, <1>10, <1>11
<1>13. \A w, lo, hi \in Nat : lo <= w /\ w <= hi =>
                              \A fallback \in Nat : Near(SanQuant(w, fallback), lo, hi)
  BY QuantNear
<1>14. Near(v.lat, lim.minLat, lim.maxLat)
  BY <1>1, <1>2, <1>6, <1>12, <1>13
<1>15. Near(v.gran, lim.minGran, lim.maxGran)
  BY <1>1, <1>2, <1>7, <1>12, <1>13
<1>16. Near(v.wake, lim.minWake, lim.maxWake)
  BY <1>1, <1>2, <1>8, <1>12, <1>13
<1>21. Near(v.mig, lim.minMig, lim.maxMig)
  BY <1>1, <1>2, <1>9, <1>12, <1>13
<1>17. v.gran <= v.lat
  BY <1>2, <1>7, <1>12, QuantMonotone
<1>18. v.walt = Rounded(walt) /\ v.ucl = Rounded(ucl)
  BY <1>2, <1>12 DEF San
<1>19. v.walt * One \in lim.minWalt..lim.maxWalt
  <2>1. v.walt \in Int
    BY <1>12, <1>18, RoundedNear
  <2>2. lim.minWalt <= One * v.walt /\ One * v.walt <= lim.maxWalt
    BY <1>1, <1>10, <1>12, <1>18, RoundedWhole
  <2>3. v.walt * One = One * v.walt /\ One * v.walt \in Int
    BY <2>1, OneAssumption
  <2> QED BY <1>1, <2>2, <2>3
<1>20. 2 * v.ucl * One \in (2 * lim.minUcl - One)..(2 * lim.maxUcl + One)
  <2>1. /\ v.ucl \in Int
        /\ 2 * (One * v.ucl) <= 2 * ucl + One /\ 2 * ucl - One <= 2 * (One * v.ucl)
    BY <1>12, <1>18, RoundedNear
  <2>2. 2 * v.ucl * One = 2 * (One * v.ucl) /\ 2 * (One * v.ucl) \in Int
    BY <2>1, OneAssumption
  <2> QED BY <1>1, <1>11, <2>1, <2>2, OneAssumption
<1> QED BY <1>14, <1>15, <1>16, <1>17, <1>19, <1>20, <1>21 DEF Within

\* What the governor asks for stays within the limits calibrated for the device, on every
\* device and for every demand, velocity, temperature and battery (tune.c:24-72,
\* gov.c:270-300).  The limits are Ordered since boot, and every request is clamped.
THEOREM InLimitsHolds == MappingSpec => []InLimits
<1> DEFINE Inv == Calibrated /\ input \in Inputs /\ InLimits
<1>1. MappingInit => Inv
  <2> SUFFICES ASSUME MappingInit PROVE Inv
    OBVIOUS
  <2>1. device \in Devices /\ lim = TuneLimits(device, BaseLim) /\ cfg = TuneCpu(Metrics(device))
        /\ values = Mapped(input)
    BY DEF MappingInit
  <2>2. Calibrated
    BY <2>1, TunedOrdered, TuneCpuNat DEF Calibrated
  <2>3. input \in Inputs
    BY InputAssumption DEF MappingInit, Inputs
  <2> QED BY <2>1, <2>2, <2>3, MappedWithin DEF InLimits
<1>2. Inv /\ [MappingNext]_mappingVars => Inv'
  <2> SUFFICES ASSUME Inv, [MappingNext]_mappingVars PROVE Inv'
    OBVIOUS
  <2>1. lim' = lim /\ cfg' = cfg
    BY DEF MappingNext, NewPressure, NewScale, NewLevel, Maps, bootVars, mappingVars
  <2>2. Calibrated'
    BY <2>1 DEF Calibrated, Ordered
  <2>4. ASSUME NEW in \in Inputs, Maps(in) PROVE input' \in Inputs /\ InLimits'
    <3>1. values' = Mapped(in) /\ input' = in
      BY <2>4 DEF Maps
    <3>2. Within(values')
      BY <3>1, MappedWithin
    <3>3. InLimits'
      BY <2>1, <3>2 DEF InLimits, Within
    <3> QED BY <3>1, <3>3
  <2>5. CASE UNCHANGED mappingVars
    <3>1. input' = input /\ values' = values
      BY <2>5 DEF mappingVars
    <3>2. InLimits'
      BY <2>1, <3>1 DEF InLimits, Within
    <3> QED BY <2>2, <3>1, <3>2
  <2>6. ASSUME NEW d \in Demands, NEW u \in Velocities, NEW b \in Baselines, NewPressure(d, u, b)
        PROVE  Inv'
    <3>1. [input EXCEPT !.demand = d, !.vel = u, !.base = b] \in Inputs
      BY InputAssumption DEF Inputs
    <3> QED BY <2>2, <2>4, <2>6, <3>1 DEF NewPressure
  <2>7. ASSUME NEW s \in Scales, NewScale(s) PROVE Inv'
    <3>1. [input EXCEPT !.scale = s] \in Inputs
      BY InputAssumption DEF Inputs
    <3> QED BY <2>2, <2>4, <2>7, <3>1 DEF NewScale
  <2>8. ASSUME NEW l \in Levels, NewLevel(l) PROVE Inv'
    <3>1. [input EXCEPT !.bat = l] \in Inputs
      BY InputAssumption DEF Inputs
    <3> QED BY <2>2, <2>4, <2>8, <3>1 DEF NewLevel
  <2> QED BY <2>5, <2>6, <2>7, <2>8 DEF MappingNext
<1> QED BY <1>1, <1>2, PTL DEF MappingSpec

-----------------------------------------------------------------------------
(* The fixed point keeps an order                                          *)

LEMMA DivGreatest ==
  ASSUME NEW a \in Int, NEW k \in Nat \ {0}, NEW q \in Int, k * q <= a
  PROVE  q <= a \div k
<1> DEFINE p == a \div k
<1>1. p \in Int /\ a < k * p + k
  BY DivInt, DivWithin
<1> HIDE DEF p
<1>2. ~(p + 1 <= q)
  <2> SUFFICES ASSUME p + 1 <= q PROVE FALSE
    OBVIOUS
  <2>1. k * (p + 1) <= k * q
    BY <1>1, Scaled
  <2>2. k * (p + 1) = k * p + k /\ k * p \in Int /\ k * q \in Int
    BY <1>1
  <2> QED BY <1>1, <2>1, <2>2
<1> QED BY <1>1, <1>2 DEF p

LEMMA MulNat ==
  ASSUME NEW a \in Nat, NEW b \in Nat
  PROVE  Mul(a, b) \in Nat
<1>1. a * b \in Int /\ a * b >= 0
  OBVIOUS
<1> QED BY <1>1, DivInt, OneAssumption DEF Mul

LEMMA MulMonotone ==
  ASSUME NEW a \in Int, NEW b \in Int, NEW c \in Nat, a <= b
  PROVE  /\ Mul(a, c) \in Int /\ Mul(b, c) \in Int /\ Mul(a, c) <= Mul(b, c)
         /\ a >= 0 => Mul(a, c) \in Nat /\ Mul(b, c) \in Nat
<1>1. a * c <= b * c
  BY Scaled
<1>2. a * c \in Int /\ b * c \in Int
  OBVIOUS
<1>3. Mul(a, c) <= Mul(b, c)
  BY <1>1, <1>2, DivMonotone, OneAssumption DEF Mul
<1>5. Mul(a, c) \in Int
  BY MulInt
<1>6. Mul(b, c) \in Int
  BY MulInt
<1>7. ASSUME a >= 0 PROVE Mul(a, c) \in Nat /\ Mul(b, c) \in Nat
  <2>1. a \in Nat /\ b \in Nat
    BY <1>7
  <2> QED BY <2>1, MulNat
<1> QED BY <1>3, <1>5, <1>6, <1>7

LEMMA GainMonotone ==
  ASSUME NEW c \in Nat, NEW a \in Int, NEW b \in Int, a <= b
  PROVE  /\ Mul(c, a) \in Int /\ Mul(c, b) \in Int /\ Mul(c, a) <= Mul(c, b)
         /\ a >= 0 => Mul(c, a) \in Nat /\ Mul(c, b) \in Nat
<1>1. a * c = c * a /\ b * c = c * b
  OBVIOUS
<1>2. Mul(c, a) = Mul(a, c) /\ Mul(c, b) = Mul(b, c)
  BY <1>1 DEF Mul
<1> QED BY <1>2, MulMonotone

LEMMA MulBoth ==
  ASSUME NEW a \in Nat, NEW b \in Nat, NEW c \in Nat, NEW d \in Nat, a <= b, c <= d
  PROVE  Mul(a, c) \in Nat /\ Mul(b, d) \in Nat /\ Mul(a, c) <= Mul(b, d)
<1>1. Mul(a, c) <= Mul(b, c)
  BY MulMonotone
<1>2. Mul(b, c) <= Mul(b, d)
  BY GainMonotone
<1>3. Mul(a, c) \in Nat /\ Mul(b, c) \in Nat /\ Mul(b, d) \in Nat
  BY MulNat
<1> QED BY <1>1, <1>2, <1>3

LEMMA FracMonotone ==
  ASSUME NEW a \in Int, NEW b \in Int, NEW k \in Nat \ {0}, a <= b
  PROVE  Div(a, k) <= Div(b, k) /\ (a >= 0 => Div(a, k) \in Nat)
<1>0. One \in Nat \ {0}
  BY OneAssumption
<1>1. ASSUME NEW x \in Nat PROVE (x * One) \div k \in Nat
  <2>1. x * One \in Int /\ x * One >= 0
    BY <1>0
  <2> QED BY <2>1, DivInt
<1>2. ASSUME NEW x \in Nat, NEW y \in Nat, x <= y PROVE (x * One) \div k <= (y * One) \div k
  <2>1. x * One \in Int /\ y * One \in Int /\ x * One <= y * One
    BY <1>0, <1>2, Scaled
  <2> QED BY <2>1, DivMonotone
<1>3. CASE a >= 0
  BY <1>1, <1>2, <1>3 DEF Div
<1>4. CASE a < 0 /\ b >= 0
  <2>1. Div(b, k) \in Nat
    BY <1>1, <1>4 DEF Div
  <2>2. -a \in Nat /\ (-a * One) \div k \in Nat
    <3>1. -a \in Nat /\ -a * One = (-a) * One
      BY <1>0, <1>4
    <3> QED BY <1>1, <3>1
  <2>3. Div(a, k) = -((-a * One) \div k)
    BY <1>4 DEF Div
  <2> QED BY <1>4, <2>1, <2>2, <2>3
<1>5. CASE b < 0
  <2>1. -a \in Nat /\ -b \in Nat /\ -b <= -a /\ ~(a >= 0) /\ ~(b >= 0)
    BY <1>5
  <2>2. Div(a, k) = -((-a * One) \div k) /\ Div(b, k) = -((-b * One) \div k)
    BY <2>1 DEF Div
  <2>3. -a * One = (-a) * One /\ -b * One = (-b) * One
    BY <1>0
  <2> DEFINE p == ((-a) * One) \div k
             q == ((-b) * One) \div k
  <2>4. q <= p /\ p \in Nat /\ q \in Nat
    BY <1>1, <1>2, <2>1
  <2>5. Div(a, k) = -p /\ Div(b, k) = -q
    BY <2>2, <2>3
  <2> HIDE DEF p, q
  <2> QED BY <2>1, <2>4, <2>5
<1> QED BY <1>3, <1>4, <1>5

\* A larger divisor gives no more.
LEMMA FracFalls ==
  ASSUME NEW a \in Nat, NEW k \in Nat \ {0}, NEW m \in Nat \ {0}, k <= m
  PROVE  Div(a, m) <= Div(a, k) /\ Div(a, m) \in Nat
<1> DEFINE n == a * One
           q == n \div m
<1>1. n \in Nat
  BY OneAssumption
<1>2. Div(a, m) = n \div m /\ Div(a, k) = n \div k
  BY DEF Div
<1> HIDE DEF n
<1>3. q \in Nat /\ m * q <= n
  BY <1>1, DivInt, DivWithin
<1> HIDE DEF q
<1>4. k * q <= m * q /\ k * q \in Int /\ m * q \in Int
  BY <1>3, Scaled
<1>5. k * q <= n
  BY <1>1, <1>3, <1>4
<1>6. q <= n \div k
  BY <1>1, <1>3, <1>5, DivGreatest
<1> QED BY <1>2, <1>3, <1>6 DEF q

LEMMA ClampMonotone ==
  ASSUME NEW v \in Int, NEW w \in Int, NEW lo \in Int, NEW hi \in Int, v <= w, lo <= hi
  PROVE  Clamp(v, lo, hi) <= Clamp(w, lo, hi)
  BY DEF Clamp

-----------------------------------------------------------------------------
(* The curves pull one way                                                 *)

\* x / (1 + x) of a positive x rises and stays below one.
LEMMA BendRises ==
  ASSUME NEW x \in Nat, NEW y \in Nat, x <= y
  PROVE  /\ Div(x, One + x) \in Nat /\ Div(x, One + x) <= One
         /\ Div(x, One + x) <= Div(y, One + y)
<1>0. One \in Nat \ {0}
  BY OneAssumption
<1> DEFINE q == (x * One) \div (One + x)
<1>1. x * One \in Nat /\ y * One \in Nat /\ One + x \in Nat \ {0} /\ One + y \in Nat \ {0}
  BY <1>0
<1>2. q \in Nat /\ (One + x) * q <= x * One
  BY <1>1, DivInt, DivWithin
<1>3. Div(x, One + x) = q /\ Div(y, One + y) = (y * One) \div (One + y)
  BY DEF Div
<1> HIDE DEF q
<1>4. q <= One
  <2> SUFFICES ASSUME One + 1 <= q PROVE FALSE
    BY <1>0, <1>2
  <2>1. (One + x) * (One + 1) <= (One + x) * q
    BY <1>0, <1>1, <1>2, Scaled
  <2>2. (One + x) * (One + 1) = (One + x) * One + (One + x)
        /\ (One + x) * One = One * One + x * One /\ One * One \in Nat
    BY <1>0
  <2>3. (One + x) * q \in Int /\ (One + x) * One \in Int
    BY <1>0, <1>2
  <2> QED BY <1>0, <1>1, <1>2, <2>1, <2>2, <2>3
<1>5. (One + y) * q <= y * One
  <2>1. One - q \in Nat
    BY <1>0, <1>2, <1>4
  <2>2. x * (One - q) <= y * (One - q)
    BY <2>1, Scaled
  <2>3. x * (One - q) = x * One - x * q /\ y * (One - q) = y * One - y * q
    BY <1>0, <1>2
  <2>4. (One + x) * q = One * q + x * q /\ (One + y) * q = One * q + y * q
    BY <1>0, <1>2
  <2>5. x * q \in Int /\ y * q \in Int /\ One * q \in Int
    BY <1>0, <1>2
  <2> QED BY <1>1, <1>2, <2>2, <2>3, <2>4, <2>5
<1>6. q <= (y * One) \div (One + y)
  BY <1>1, <1>2, <1>5, DivGreatest
<1> QED BY <1>2, <1>3, <1>4, <1>6

\* The sigmoid rises with its argument, for any slope that is not negative, and its
\* middle pulls the other way (math.h:119-127).
LEMMA SigmoidRises ==
  ASSUME NEW v \in Int, NEW w \in Int, NEW k \in Nat, NEW mid \in Int, NEW low \in Int,
         v <= w, low <= mid
  PROVE  Sigmoid(v, k, mid) <= Sigmoid(w, k, low) /\ Sigmoid(v, k, mid) \in Nat
<1> DEFINE bend(z) == Div(z, One + Abs(z))
<1>0. One \in Nat \ {0}
  BY OneAssumption
<1>1. ASSUME NEW x \in Nat PROVE bend(-x) = -Div(x, One + x) /\ bend(x) = Div(x, One + x)
  <2>1. Abs(x) = x /\ Abs(-x) = x
    BY DEF Abs
  <2>2. bend(x) = Div(x, One + x)
    BY <2>1
  <2>3. CASE x <= 0
    <3> DEFINE d == Div(x, One + x)
    <3>1. -x = x
      BY <2>3
    <3>2. x * One = 0 /\ 0 \in Int /\ One * 0 <= 0 /\ 0 < One * 0 + One /\ One + x = One
      BY <1>0, <2>3
    <3>3. 0 \div One = 0
      BY <1>0, <3>2, DivUnique
    <3>4. d \in Nat /\ d <= 0
      BY <3>2, <3>3 DEF Div
    <3> HIDE DEF d
    <3>5. -d = d
      BY <3>4
    <3>6. bend(-x) = d
      BY <2>2, <3>1 DEF d
    <3> QED BY <2>2, <3>5, <3>6 DEF d
  <2>4. CASE x > 0
    <3>1. ~(-x >= 0) /\ -((-x) * One) = x * One
      BY <2>4, <1>0
    <3>2. Div(-x, One + x) = -((x * One) \div (One + x))
      BY <3>1 DEF Div
    <3>3. Div(x, One + x) = (x * One) \div (One + x)
      BY DEF Div
    <3> QED BY <2>1, <2>2, <3>2, <3>3
  <2>5. x <= 0 \/ x > 0
    OBVIOUS
  <2> QED BY <2>3, <2>4, <2>5
<1>2. ASSUME NEW x \in Int, NEW y \in Int, x <= y
      PROVE  bend(x) \in Int /\ bend(y) \in Int /\ bend(x) <= bend(y) /\ -One <= bend(x)
  <2>1. \A z \in Nat : /\ bend(z) = Div(z, One + z) /\ bend(-z) = -Div(z, One + z)
                       /\ Div(z, One + z) \in Nat /\ Div(z, One + z) <= One
    BY <1>1, BendRises
  <2>2. \A z, u \in Nat : z <= u => Div(z, One + z) <= Div(u, One + u)
    BY BendRises
  <2> HIDE DEF bend
  <2>3. CASE x >= 0
    BY <1>0, <1>2, <2>1, <2>2, <2>3
  <2>4. CASE y < 0
    <3>1. -x \in Nat /\ -y \in Nat /\ -y <= -x /\ -(-x) = x /\ -(-y) = y
      BY <1>2, <2>4
    <3>2. bend(x) = -Div(-x, One + -x) /\ bend(y) = -Div(-y, One + -y)
      BY <2>1, <3>1
    <3>3. Div(-y, One + -y) <= Div(-x, One + -x) /\ Div(-x, One + -x) <= One
          /\ Div(-x, One + -x) \in Nat /\ Div(-y, One + -y) \in Nat
      BY <2>1, <2>2, <3>1
    <3> QED BY <1>0, <3>2, <3>3
  <2>5. CASE x < 0 /\ y >= 0
    <3>1. -x \in Nat /\ -(-x) = x /\ y \in Nat
      BY <2>5
    <3>2. bend(x) = -Div(-x, One + -x) /\ bend(y) = Div(y, One + y)
      BY <2>1, <3>1
    <3>3. Div(-x, One + -x) <= One /\ Div(-x, One + -x) \in Nat /\ Div(y, One + y) \in Nat
      BY <2>1, <3>1
    <3> QED BY <1>0, <3>2, <3>3
  <2> QED BY <2>3, <2>4, <2>5
<1> DEFINE a == Mul(k, v - mid)
           b == Mul(k, w - low)
<1>3. a \in Int /\ b \in Int /\ a <= b
  <2> DEFINE x == v - mid
             y == w - low
  <2>1. x \in Int /\ y \in Int /\ x <= y /\ k \in Int
    OBVIOUS
  <2> HIDE DEF x, y
  <2>2. Mul(k, x) \in Int /\ Mul(k, y) \in Int
    BY <2>1, MulInt
  <2>3. Mul(k, x) <= Mul(k, y)
    BY <2>1, GainMonotone
  <2> QED BY <2>2, <2>3 DEF x, y
<1>4. Sigmoid(v, k, mid) = (bend(a) + One) \div 2 /\ Sigmoid(w, k, low) = (bend(b) + One) \div 2
  BY DEF Sigmoid
<1> HIDE DEF a, b, bend
<1>5. bend(a) + One \in Nat /\ bend(b) + One \in Int /\ bend(a) + One <= bend(b) + One
  BY <1>0, <1>2, <1>3
<1>6. (bend(a) + One) \div 2 <= (bend(b) + One) \div 2 /\ (bend(a) + One) \div 2 \in Nat
  BY <1>5, DivMonotone
<1> QED BY <1>4, <1>6

\* The decay falls as its argument or its coefficient rises (math.h:129-142).
LEMMA DecayFalls ==
  ASSUME NEW v \in Nat, NEW w \in Nat, NEW c \in Nat, NEW d \in Nat, v <= w, c <= d
  PROVE  Decay(w, d) <= Decay(v, c)
<1> DEFINE below(x) == One + x + Mul(x, x) \div 2
           at(x) == IF x >= 180 * One THEN 0 ELSE Div(One, below(x))
           a == Mul(c, v)
           b == Mul(d, w)
<1>0. One \in Nat \ {0}
  BY OneAssumption
<1>1. a \in Nat /\ b \in Nat /\ a <= b
  BY MulNat, MulBoth
<1>2. Decay(v, c) = at(a) /\ Decay(w, d) = at(b)
  <2>1. ~(a < 0) /\ ~(b < 0)
    <3> HIDE DEF a, b
    <3> QED BY <1>1
  <2> QED BY <2>1 DEF Decay
<1> HIDE DEF a, b
<1>3. below(a) \in Nat \ {0} /\ below(b) \in Nat \ {0} /\ below(a) <= below(b)
  <2>1. Mul(a, a) \in Nat /\ Mul(b, b) \in Nat /\ Mul(a, a) <= Mul(b, b)
    BY <1>1, MulNat, MulBoth
  <2>2. Mul(a, a) \div 2 \in Nat /\ Mul(b, b) \div 2 \in Nat /\ Mul(a, a) \div 2 <= Mul(b, b) \div 2
    BY <2>1, DivMonotone
  <2> QED BY <1>0, <1>1, <2>2
<1> HIDE DEF below
<1>4. Div(One, below(b)) <= Div(One, below(a)) /\ Div(One, below(b)) \in Nat
  BY <1>0, <1>3, FracFalls
<1>5. Div(One, below(a)) \in Nat
  BY <1>0, <1>3, FracFalls
<1>6. at(b) <= at(a)
  BY <1>0, <1>1, <1>4, <1>5
<1> QED BY <1>2, <1>6

LEMMA TrendNat ==
  ASSUME NEW vel \in Int
  PROVE  Trend(vel) \in Nat
<1>1. CASE vel > 0
  <2> DEFINE root == Sqrt(One + Mul(vel, vel))
  <2>1. One + Mul(vel, vel) \in Nat \ {0}
    BY SquareNat, OneAssumption
  <2>2. root \in Nat \ {0}
    BY <2>1, SqrtPositive
  <2>3. AlgSig(vel) = IF vel >= 180 * One THEN One ELSE Div(vel, root)
    BY DEF AlgSig
  <2> HIDE DEF root
  <2>4. vel >= 0 /\ vel \in Int /\ vel <= vel
    BY <1>1
  <2>5. Div(vel, root) \in Nat
    BY <2>2, <2>4, FracMonotone
  <2> QED BY <1>1, <2>3, <2>5, OneAssumption DEF Trend
<1>2. CASE ~(vel > 0)
  BY <1>2 DEF Trend
<1> QED BY <1>1, <1>2

LEMMA ChargeRises ==
  ASSUME NEW v \in Int, NEW w \in Int, v <= w
  PROVE  Charge(v) \in Nat /\ Charge(w) \in Nat /\ Charge(v) <= Charge(w)
<1> DEFINE a == Clamp(v, 0, 100 * One)
           b == Clamp(w, 0, 100 * One)
<1>1. 100 * One \in Nat \ {0}
  BY OneAssumption
<1>2. a \in Nat /\ b \in Nat /\ a <= b
  <2>1. 0 <= 100 * One /\ 0 \in Int /\ 100 * One \in Int
    BY <1>1
  <2> DEFINE top == 100 * One
  <2> HIDE DEF top
  <2>2. Clamp(v, 0, top) \in Int /\ 0 <= Clamp(v, 0, top)
    BY <2>1, ClampBetween DEF top
  <2>3. Clamp(w, 0, top) \in Int /\ 0 <= Clamp(w, 0, top)
    BY <2>1, ClampBetween DEF top
  <2>4. Clamp(v, 0, top) <= Clamp(w, 0, top)
    BY <2>1, ClampMonotone DEF top
  <2> QED BY <2>2, <2>3, <2>4 DEF top
<1>3. Charge(v) = Div(a, 100 * One) /\ Charge(w) = Div(b, 100 * One)
  BY DEF Charge
<1> HIDE DEF a, b
<1> QED BY <1>1, <1>2, <1>3, FracMonotone

\* Less headroom or battery and a higher baseline weaken every term (cpu.c:92-120).
LEMMA EffCalmer ==
  ASSUME NEW a \in Inputs, NEW b \in Inputs, Calmer(a, b)
  PROVE  /\ Eff(a).amp \in Nat /\ Eff(b).amp \in Nat /\ Eff(b).amp <= Eff(a).amp
         /\ Eff(a).decay \in Nat /\ Eff(b).decay \in Nat /\ Eff(b).decay <= Eff(a).decay
         /\ Eff(a).sigMid \in Int /\ Eff(b).sigMid \in Int /\ Eff(a).sigMid <= Eff(b).sigMid
         /\ Eff(a).uclMid \in Int /\ Eff(b).uclMid \in Int /\ Eff(a).uclMid <= Eff(b).uclMid
<1> DEFINE ha == Mul(Charge(a.bat), a.scale)
           hb == Mul(Charge(b.bat), b.scale)
<1>1. /\ a.bat \in Int /\ b.bat \in Int /\ b.bat <= a.bat
      /\ a.scale \in Nat /\ b.scale \in Nat /\ b.scale <= a.scale
      /\ a.base \in Int /\ b.base \in Int /\ a.base <= b.base
  BY DEF Inputs, Calmer
<1>2. Charge(a.bat) \in Nat /\ Charge(b.bat) \in Nat /\ Charge(b.bat) <= Charge(a.bat)
  BY <1>1, ChargeRises
<1>3. ha \in Nat /\ hb \in Nat /\ hb <= ha
  BY <1>1, <1>2, MulBoth
<1>4. /\ Eff(a).amp = Mul(Milli(115), ha) /\ Eff(a).decay = Mul(Milli(19), a.scale)
      /\ Eff(a).sigMid = Milli(6800) + Mul(Milli(500), a.base)
      /\ Eff(a).uclMid = Milli(9500) + Mul(Milli(500), a.base)
  BY SMT DEF Eff
<1>5. /\ Eff(b).amp = Mul(Milli(115), hb) /\ Eff(b).decay = Mul(Milli(19), b.scale)
      /\ Eff(b).sigMid = Milli(6800) + Mul(Milli(500), b.base)
      /\ Eff(b).uclMid = Milli(9500) + Mul(Milli(500), b.base)
  BY SMT DEF Eff
<1> HIDE DEF ha, hb
<1> DEFINE gain == Milli(115)
           slow == Milli(19)
           lift == Milli(500)
           sig == Milli(6800)
           ucl == Milli(9500)
<1>6. gain \in Nat /\ slow \in Nat /\ lift \in Nat /\ sig \in Nat /\ ucl \in Nat
  <2>1. \A n \in Nat : Milli(n) \in Nat
    BY MilliNat
  <2> QED BY <2>1, SMT
<1>7. /\ Eff(a).amp = Mul(gain, ha) /\ Eff(a).decay = Mul(slow, a.scale)
      /\ Eff(a).sigMid = sig + Mul(lift, a.base) /\ Eff(a).uclMid = ucl + Mul(lift, a.base)
      /\ Eff(b).amp = Mul(gain, hb) /\ Eff(b).decay = Mul(slow, b.scale)
      /\ Eff(b).sigMid = sig + Mul(lift, b.base) /\ Eff(b).uclMid = ucl + Mul(lift, b.base)
  BY <1>4, <1>5, SMT
<1> HIDE DEF gain, slow, lift, sig, ucl
<1>8. Mul(gain, ha) \in Nat /\ Mul(gain, hb) \in Nat /\ Mul(gain, hb) <= Mul(gain, ha)
  BY <1>3, <1>6, GainMonotone
<1>9. Mul(slow, a.scale) \in Nat /\ Mul(slow, b.scale) \in Nat
      /\ Mul(slow, b.scale) <= Mul(slow, a.scale)
  BY <1>1, <1>6, GainMonotone
<1>10. Mul(lift, a.base) \in Int /\ Mul(lift, b.base) \in Int
       /\ Mul(lift, a.base) <= Mul(lift, b.base)
  BY <1>1, <1>6, GainMonotone
<1>11. Eff(a).sigMid <= Eff(b).sigMid /\ Eff(a).uclMid <= Eff(b).uclMid
       /\ Eff(a).sigMid \in Int /\ Eff(b).sigMid \in Int /\ Eff(a).uclMid \in Int /\ Eff(b).uclMid \in Int
  BY <1>6, <1>7, <1>10
<1> QED BY <1>7, <1>8, <1>9, <1>11

LEMMA PressCalmer ==
  ASSUME NEW a \in Inputs, NEW b \in Inputs, Calmer(a, b), Trend(b.vel) <= Trend(a.vel)
  PROVE  /\ EffPress(a.demand, a.vel, Eff(a)) \in Nat /\ EffPress(b.demand, b.vel, Eff(b)) \in Nat
         /\ EffPress(b.demand, b.vel, Eff(b)) <= EffPress(a.demand, a.vel, Eff(a))
<1> DEFINE ta == Trend(a.vel)
           tb == Trend(b.vel)
           pa == Eff(a).amp
           pb == Eff(b).amp
           fa == One + Mul(ta, pa)
           fb == One + Mul(tb, pb)
<1>1. a.demand \in Nat /\ b.demand \in Nat /\ b.demand <= a.demand /\ a.vel \in Int /\ b.vel \in Int
  BY DEF Inputs, Calmer
<1>2. ta \in Nat /\ tb \in Nat /\ tb <= ta
  BY <1>1, TrendNat
<1>3. pa \in Nat /\ pb \in Nat /\ pb <= pa
  BY EffCalmer
<1>4. EffPress(a.demand, a.vel, Eff(a)) = Mul(a.demand, fa)
      /\ EffPress(b.demand, b.vel, Eff(b)) = Mul(b.demand, fb)
  BY DEF EffPress
<1> HIDE DEF ta, tb, pa, pb
<1>5. Mul(ta, pa) \in Nat /\ Mul(tb, pb) \in Nat /\ Mul(tb, pb) <= Mul(ta, pa)
  BY <1>2, <1>3, MulBoth
<1>6. fa \in Nat /\ fb \in Nat /\ fb <= fa
  BY <1>5, OneAssumption
<1> HIDE DEF fa, fb
<1>7. Mul(a.demand, fa) \in Nat /\ Mul(b.demand, fb) \in Nat
       /\ Mul(b.demand, fb) <= Mul(a.demand, fa)
  BY <1>1, <1>6, MulBoth
<1> QED BY <1>4, <1>7

-----------------------------------------------------------------------------
(* Each request moves the way its curve does                               *)

LEMMA RampRises ==
  ASSUME NEW lo \in Nat, NEW hi \in Nat, lo <= hi, NEW v \in Int, NEW w \in Int, v <= w
  PROVE  /\ lo + Mul(hi - lo, v) <= lo + Mul(hi - lo, w)
         /\ lo + Mul(hi - lo, v) \in Int /\ lo + Mul(hi - lo, w) \in Int
         /\ v >= 0 => lo + Mul(hi - lo, v) \in Nat
<1> DEFINE range == hi - lo
<1>1. range \in Nat
  OBVIOUS
<1> HIDE DEF range
<1>2. Mul(range, v) \in Int /\ Mul(range, w) \in Int /\ Mul(range, v) <= Mul(range, w)
  BY <1>1, GainMonotone
<1>3. v >= 0 => Mul(range, v) \in Nat
  BY <1>1, MulNat
<1>4. /\ lo + Mul(range, v) <= lo + Mul(range, w)
      /\ lo + Mul(range, v) \in Int /\ lo + Mul(range, w) \in Int
      /\ v >= 0 => lo + Mul(range, v) \in Nat
  BY <1>2, <1>3
<1> QED BY <1>4 DEF range

LEMMA ShareRises ==
  ASSUME NEW v \in Int, NEW w \in Int, v <= w
  PROVE  Share(v) \in 0..One /\ Share(w) \in 0..One /\ Share(v) <= Share(w)
<1>1. 100 * One \in Nat \ {0} /\ 0 \in Int /\ One \in Int /\ 0 <= One
  BY OneAssumption
<1> DEFINE a == Div(v, 100 * One)
           b == Div(w, 100 * One)
<1>2. a \in Int /\ b \in Int /\ a <= b
  BY <1>1, FracInt, FracMonotone
<1>3. Share(v) = Clamp(a, 0, One) /\ Share(w) = Clamp(b, 0, One)
  BY DEF Share
<1> HIDE DEF a, b
<1> QED BY <1>1, <1>2, <1>3, ShareRange, ClampMonotone

LEMMA ThermLatFalls ==
  ASSUME Calibrated, NEW s \in Int, NEW t \in Int, t <= s
  PROVE  ThermLat(s) \in Int /\ ThermLat(t) \in Int /\ ThermLat(s) <= ThermLat(t)
<1> DEFINE a == Clamp(One - s, 0, One)
           b == Clamp(One - t, 0, One)
<1>1. lim.minLat \in Nat /\ lim.maxLat \in Nat /\ lim.minLat <= lim.maxLat
  BY DEF Calibrated, Ordered, Limits
<1>2. One - s \in Int /\ One - t \in Int /\ One - s <= One - t /\ 0 \in Int /\ One \in Int /\ 0 <= One
  BY OneAssumption
<1>3. a \in Int /\ b \in Int /\ a <= b
  BY <1>2, ClampBetween, ClampMonotone
<1>4. ThermLat(s) = lim.minLat + Mul(lim.maxLat - lim.minLat, a)
      /\ ThermLat(t) = lim.minLat + Mul(lim.maxLat - lim.minLat, b)
  BY DEF ThermLat
<1> HIDE DEF a, b
<1> DEFINE lo == lim.minLat
           hi == lim.maxLat
<1>5. /\ lo + Mul(hi - lo, a) <= lo + Mul(hi - lo, b)
      /\ lo + Mul(hi - lo, a) \in Int /\ lo + Mul(hi - lo, b) \in Int
  <2> HIDE DEF lo, hi
  <2>1. lo \in Nat /\ hi \in Nat /\ lo <= hi
    BY <1>1 DEF lo, hi
  <2> QED BY <2>1, <1>3, RampRises
<1> QED BY <1>4, <1>5

LEMMA LatRelaxes ==
  ASSUME Calibrated, NEW a \in Inputs, NEW b \in Inputs, Calmer(a, b),
         NEW p \in Int, NEW q \in Int, q <= p,
         NEW e, NEW f, e.sigMid \in Int, f.sigMid \in Int, e.sigMid <= f.sigMid
  PROVE  Lat(a, p, e) <= Lat(b, q, f)
<1> DEFINE range == lim.maxLat - lim.minLat
           sp == Sigmoid(p, cfg.sigmoidK, e.sigMid)
           sq == Sigmoid(q, cfg.sigmoidK, f.sigMid)
           shp == lim.minLat + Mul(range, One - sp)
           shq == lim.minLat + Mul(range, One - sq)
           cp == lim.maxLat - Mul(Share(a.demand), range)
           cq == lim.maxLat - Mul(Share(b.demand), range)
           sop == IF shp < cp THEN shp ELSE cp
           soq == IF shq < cq THEN shq ELSE cq
           fp == ThermLat(a.scale)
           fq == ThermLat(b.scale)
           atp == IF sop > fp THEN sop ELSE fp
           atq == IF soq > fq THEN soq ELSE fq
<1>1. /\ lim.minLat \in Nat /\ lim.maxLat \in Nat /\ lim.minLat <= lim.maxLat
      /\ cfg.sigmoidK \in Nat
  BY DEF Calibrated, Ordered, Limits
<1>2. /\ a.demand \in Int /\ b.demand \in Int /\ b.demand <= a.demand
      /\ a.scale \in Int /\ b.scale \in Int /\ b.scale <= a.scale
  BY DEF Inputs, Calmer
<1>3. Lat(a, p, e) = Clamp(atp, lim.minLat, lim.maxLat)
      /\ Lat(b, q, f) = Clamp(atq, lim.minLat, lim.maxLat)
  BY DEF Lat
<1>4. sp \in Int /\ sq \in Int /\ sq <= sp
  <2>1. Sigmoid(q, cfg.sigmoidK, f.sigMid) <= Sigmoid(p, cfg.sigmoidK, e.sigMid)
    BY <1>1, SigmoidRises
  <2>2. cfg.sigmoidK \in Int /\ e.sigMid \in Int /\ f.sigMid \in Int
    BY <1>1
  <2>3. Sigmoid(p, cfg.sigmoidK, e.sigMid) \in Int
    BY <2>2, SigmoidInt
  <2>4. Sigmoid(q, cfg.sigmoidK, f.sigMid) \in Int
    BY <2>2, SigmoidInt
  <2> QED BY <2>1, <2>3, <2>4
<1> HIDE DEF sp, sq
<1>5. shp \in Int /\ shq \in Int /\ shp <= shq
  <2>1. One - sp \in Int /\ One - sq \in Int /\ One - sp <= One - sq
    BY <1>4, OneAssumption
  <2> QED BY <1>1, <2>1, RampRises
<1>6. cp \in Int /\ cq \in Int /\ cp <= cq
  <2> DEFINE x == Share(a.demand)
             y == Share(b.demand)
  <2>1. x \in 0..One /\ y \in 0..One /\ y <= x
    BY <1>2, ShareRises
  <2>2. range \in Nat
    BY <1>1
  <2>3. x \in Int /\ y \in Int
    <3> HIDE DEF x, y
    <3> QED BY <2>1, OneAssumption
  <2> HIDE DEF range, x, y
  <2>4. Mul(x, range) \in Int /\ Mul(y, range) \in Int /\ Mul(y, range) <= Mul(x, range)
    BY <2>1, <2>2, <2>3, MulMonotone
  <2>5. lim.maxLat - Mul(x, range) \in Int /\ lim.maxLat - Mul(y, range) \in Int
        /\ lim.maxLat - Mul(x, range) <= lim.maxLat - Mul(y, range)
    BY <1>1, <2>4
  <2> QED BY <2>5 DEF x, y
<1>7. fp \in Int /\ fq \in Int /\ fp <= fq
  BY <1>2, ThermLatFalls
<1> HIDE DEF shp, shq, cp, cq, fp, fq
<1>8. sop \in Int /\ soq \in Int /\ sop <= soq
  BY <1>5, <1>6
<1> HIDE DEF sop, soq
<1>9. atp \in Int /\ atq \in Int /\ atp <= atq
  BY <1>7, <1>8
<1> HIDE DEF atp, atq
<1> QED BY <1>1, <1>3, <1>9, ClampMonotone

LEMMA GranRelaxes ==
  ASSUME Calibrated, NEW u \in Nat, NEW t \in Nat, u <= t
  PROVE  Gran(u) <= Gran(t)
<1> DEFINE su == Clamp(Mul(u, cfg.latGranRat), lim.minGran, lim.maxGran)
           st == Clamp(Mul(t, cfg.latGranRat), lim.minGran, lim.maxGran)
<1>1. lim.minGran \in Nat /\ lim.maxGran \in Nat /\ lim.minGran <= lim.maxGran
      /\ cfg.latGranRat \in Nat
  BY DEF Calibrated, Ordered, Limits
<1>2. /\ Mul(u, cfg.latGranRat) \in Int /\ Mul(t, cfg.latGranRat) \in Int
      /\ Mul(u, cfg.latGranRat) <= Mul(t, cfg.latGranRat)
  <2>1. u \in Int /\ t \in Int /\ u <= t /\ cfg.latGranRat \in Nat
    BY <1>1
  <2> QED BY <2>1, MulMonotone
<1>3. su <= st /\ su \in Int /\ st \in Int
  <2> DEFINE mu == Mul(u, cfg.latGranRat)
             mt == Mul(t, cfg.latGranRat)
             lo == lim.minGran
             hi == lim.maxGran
  <2>1. mu \in Int /\ mt \in Int /\ mu <= mt /\ lo \in Int /\ hi \in Int /\ lo <= hi
    BY <1>1, <1>2
  <2> HIDE DEF mu, mt, lo, hi
  <2>2. Clamp(mu, lo, hi) <= Clamp(mt, lo, hi)
    BY <2>1, ClampMonotone
  <2>3. Clamp(mu, lo, hi) \in Int
    BY <2>1, ClampBetween
  <2>4. Clamp(mt, lo, hi) \in Int
    BY <2>1, ClampBetween
  <2> QED BY <2>2, <2>3, <2>4 DEF mu, mt, lo, hi
<1>6. Gran(u) = (IF su < u THEN su ELSE u) /\ Gran(t) = (IF st < t THEN st ELSE t)
  BY DEF Gran
<1> HIDE DEF su, st
<1> QED BY <1>3, <1>6

LEMMA WakeupRelaxes ==
  ASSUME Calibrated, NEW p \in Nat, NEW q \in Nat, q <= p,
         NEW e, NEW f, e.decay \in Nat, f.decay \in Nat, f.decay <= e.decay
  PROVE  Wakeup(p, e) <= Wakeup(q, f)
<1> DEFINE lo == lim.minWake
           hi == lim.maxWake
           dp == Decay(p, e.decay)
           dq == Decay(q, f.decay)
<1>1. lo \in Nat /\ hi \in Nat /\ lo <= hi
  BY DEF Calibrated, Ordered, Limits
<1>2. dp <= dq
  BY DecayFalls
<1>3. p \in Int /\ q \in Int /\ e.decay \in Int /\ f.decay \in Int
  OBVIOUS
<1>4. dp \in Int /\ dq \in Int
  <2>1. Decay(p, e.decay) \in Int
    BY <1>3, DecayInt
  <2>2. Decay(q, f.decay) \in Int
    BY <1>3, DecayInt
  <2> QED BY <2>1, <2>2
<1>5. /\ Wakeup(p, e) = Clamp(lo + Mul(hi - lo, dp), lo, hi)
      /\ Wakeup(q, f) = Clamp(lo + Mul(hi - lo, dq), lo, hi)
  BY DEF Wakeup
<1> HIDE DEF lo, hi, dp, dq
<1>6. /\ lo + Mul(hi - lo, dp) <= lo + Mul(hi - lo, dq)
      /\ lo + Mul(hi - lo, dp) \in Int /\ lo + Mul(hi - lo, dq) \in Int
  BY <1>1, <1>2, <1>4, RampRises
<1>7. Clamp(lo + Mul(hi - lo, dp), lo, hi) <= Clamp(lo + Mul(hi - lo, dq), lo, hi)
  BY <1>1, <1>6, ClampMonotone
<1> QED BY <1>5, <1>7

\* Half of the ramp at most is taken off, so that a larger slope leaves less of it.
LEMMA HalvedFalls ==
  ASSUME NEW s \in 0..One, NEW t \in 0..One, t <= s
  PROVE  /\ One - Mul(s, One \div 2) \in Nat /\ One - Mul(t, One \div 2) \in Nat
         /\ One - Mul(s, One \div 2) <= One - Mul(t, One \div 2)
<1> DEFINE half == One \div 2
<1>1. One \in Nat \ {0} /\ half \in Nat /\ half <= One /\ s \in Nat /\ t \in Nat /\ s <= One
  BY OneAssumption
<1> HIDE DEF half
<1>2. Mul(t, half) \in Int /\ Mul(s, half) \in Int /\ Mul(t, half) <= Mul(s, half)
  BY <1>1, MulMonotone
<1>3. Mul(s, half) <= Mul(One, half)
  BY <1>1, MulMonotone
<1>4. Mul(One, half) = half
  <2>1. One * half \in Int /\ One * half <= One * half /\ One * half < One * half + One
    BY <1>1
  <2> QED BY <1>1, <2>1, DivUnique DEF Mul
<1>5. /\ One - Mul(s, half) \in Nat /\ One - Mul(t, half) \in Nat
      /\ One - Mul(s, half) <= One - Mul(t, half)
  BY <1>1, <1>2, <1>3, <1>4
<1> QED BY <1>5 DEF half

LEMMA MigrationRelaxes ==
  ASSUME Calibrated, NEW vel \in Int, NEW slower \in Int, slower <= vel, slower >= 0 \/ slower = vel,
         NEW p \in Int, NEW q \in Int, q <= p
  PROVE  Migration(vel, p) <= Migration(slower, q)
<1> DEFINE lo == lim.minMig
           hi == lim.maxMig
           rp == One - Share(p)
           rq == One - Share(q)
           upp == lo + Mul(hi - lo, Mul(rp, rp))
           upq == lo + Mul(hi - lo, Mul(rq, rq))
           dp == Div(Abs(vel), 25 * One)
           dq == Div(Abs(slower), 25 * One)
           sp == Clamp(dp, 0, One)
           sq == Clamp(dq, 0, One)
           hp == One - Mul(sp, One \div 2)
           hq == One - Mul(sq, One \div 2)
<1>1. lo \in Nat /\ hi \in Nat /\ lo <= hi
  BY DEF Calibrated, Ordered, Limits
<1>2. One \in Nat \ {0} /\ 25 * One \in Nat \ {0}
  BY OneAssumption
<1>3. Migration(vel, p) = Clamp(Mul(upp, hp), lo, hi)
      /\ Migration(slower, q) = Clamp(Mul(upq, hq), lo, hi)
  BY DEF Migration
<1>4. rp \in Nat /\ rq \in Nat /\ rp <= rq
  <2> DEFINE x == Share(p)
             y == Share(q)
  <2>1. x \in 0..One /\ y \in 0..One /\ y <= x
    BY ShareRises
  <2> HIDE DEF x, y
  <2>2. One - x \in Nat /\ One - y \in Nat /\ One - x <= One - y
    BY <1>2, <2>1
  <2> QED BY <2>2 DEF x, y
<1>5. dp \in Int /\ dq \in Int /\ dq <= dp
  <2> DEFINE x == Abs(vel)
             y == Abs(slower)
             k == 25 * One
  <2>1. x \in Nat /\ y \in Nat /\ y <= x
    BY DEF Abs
  <2> HIDE DEF x, y, k
  <2>2. Div(y, k) <= Div(x, k)
    BY <1>2, <2>1, FracMonotone DEF k
  <2>3. Div(y, k) \in Int
    BY <1>2, <2>1, FracInt DEF k
  <2>4. Div(x, k) \in Int
    BY <1>2, <2>1, FracInt DEF k
  <2> QED BY <2>2, <2>3, <2>4 DEF x, y, k
<1> HIDE DEF rp, rq, dp, dq, lo, hi
<1>6. sp \in 0..One /\ sq \in 0..One /\ sq <= sp
  <2>1. sq <= sp
    BY <1>2, <1>5, ClampMonotone
  <2>2. sp \in 0..One
    BY <1>2, <1>5 DEF Clamp
  <2>3. sq \in 0..One
    BY <1>2, <1>5 DEF Clamp
  <2> QED BY <2>1, <2>2, <2>3
<1> HIDE DEF sp, sq
<1>7. hp \in Nat /\ hq \in Nat /\ hp <= hq
  BY <1>6, HalvedFalls
<1>8. Mul(rp, rp) \in Nat /\ Mul(rq, rq) \in Nat /\ Mul(rp, rp) <= Mul(rq, rq)
  BY <1>4, MulBoth
<1>9. upp \in Nat /\ upq \in Nat /\ upp <= upq
  <2> DEFINE x == Mul(rp, rp)
             y == Mul(rq, rq)
             range == hi - lo
  <2> HIDE DEF x, y
  <2>1. x \in Int /\ y \in Int /\ x <= y /\ x >= 0 /\ range \in Nat
    BY <1>1, <1>8 DEF x, y
  <2> HIDE DEF range
  <2>2. Mul(range, x) \in Nat /\ Mul(range, y) \in Nat /\ Mul(range, x) <= Mul(range, y)
    BY <2>1, GainMonotone
  <2>3. lo + Mul(range, x) \in Nat /\ lo + Mul(range, y) \in Nat
        /\ lo + Mul(range, x) <= lo + Mul(range, y)
    BY <1>1, <2>2
  <2> QED BY <2>3 DEF x, y, range
<1> HIDE DEF upp, upq, hp, hq
<1>10. Mul(upp, hp) \in Nat /\ Mul(upq, hq) \in Nat /\ Mul(upp, hp) <= Mul(upq, hq)
  BY <1>7, <1>9, MulBoth
<1>11. Clamp(Mul(upp, hp), lo, hi) <= Clamp(Mul(upq, hq), lo, hi)
  BY <1>1, <1>10, ClampMonotone
<1> QED BY <1>3, <1>11

LEMMA WaltRelaxes ==
  ASSUME Calibrated, NEW p \in Int, NEW q \in Int, q <= p
  PROVE  Walt(q) <= Walt(p)
<1> DEFINE lo == lim.minWalt
           hi == lim.maxWalt
           x == Share(p)
           y == Share(q)
           u == Mul(x, x)
           v == Mul(y, y)
<1>1. lo \in Nat /\ hi \in Nat /\ lo <= hi
  BY DEF Calibrated, Ordered, Limits
<1>2. x \in 0..One /\ y \in 0..One /\ y <= x
  BY ShareRises
<1>3. /\ Walt(p) = Clamp(lo + Mul(hi - lo, u), lo, hi)
      /\ Walt(q) = Clamp(lo + Mul(hi - lo, v), lo, hi)
  BY DEF Walt
<1> HIDE DEF x, y, lo, hi
<1>4. x \in Nat /\ y \in Nat
  BY <1>2, OneAssumption
<1>5. u \in Int /\ v \in Int /\ v <= u
  <2>1. u \in Nat /\ v \in Nat /\ v <= u
    BY <1>2, <1>4, MulBoth
  <2> HIDE DEF u, v
  <2> QED BY <2>1
<1> HIDE DEF u, v
<1>6. /\ lo + Mul(hi - lo, v) <= lo + Mul(hi - lo, u)
      /\ lo + Mul(hi - lo, v) \in Int /\ lo + Mul(hi - lo, u) \in Int
  BY <1>1, <1>5, RampRises
<1>7. Clamp(lo + Mul(hi - lo, v), lo, hi) <= Clamp(lo + Mul(hi - lo, u), lo, hi)
  BY <1>1, <1>6, ClampMonotone
<1> QED BY <1>3, <1>7

LEMMA UclampRelaxes ==
  ASSUME Calibrated, NEW p \in Int, NEW q \in Int, q <= p,
         NEW scale \in Nat, NEW hotter \in Nat, hotter <= scale,
         NEW e, NEW f, e.uclMid \in Int, f.uclMid \in Int, e.uclMid <= f.uclMid
  PROVE  Uclamp(q, hotter, f) <= Uclamp(p, scale, e)
<1> DEFINE lo == lim.minUcl
           hi == lim.maxUcl
           k == cfg.uclampK
           x == Sigmoid(p, k, e.uclMid)
           y == Sigmoid(q, k, f.uclMid)
           u == lo + Mul(hi - lo, x)
           v == lo + Mul(hi - lo, y)
<1>1. lo \in Nat /\ hi \in Nat /\ lo <= hi /\ k \in Nat
  BY DEF Calibrated, Ordered, Limits
<1>2. /\ Uclamp(p, scale, e) = Clamp(Mul(u, scale), lo, hi)
      /\ Uclamp(q, hotter, f) = Clamp(Mul(v, hotter), lo, hi)
  BY DEF Uclamp
<1> HIDE DEF lo, hi, k
<1>3. y <= x /\ y \in Nat
  BY <1>1, SigmoidRises
<1>4. x \in Int
  <2>1. k \in Int /\ e.uclMid \in Int
    BY <1>1
  <2> QED BY <2>1, SigmoidInt
<1> HIDE DEF x, y
<1>5. y \in Int /\ y >= 0
  BY <1>3
<1>6. v <= u /\ v \in Int /\ u \in Int /\ v \in Nat
  BY <1>1, <1>3, <1>4, <1>5, RampRises
<1> HIDE DEF u, v
<1>7. u \in Nat /\ v \in Nat
  BY <1>6
<1>8. Mul(v, hotter) \in Nat /\ Mul(u, scale) \in Nat /\ Mul(v, hotter) <= Mul(u, scale)
  BY <1>6, <1>7, MulBoth
<1>9. Clamp(Mul(v, hotter), lo, hi) <= Clamp(Mul(u, scale), lo, hi)
  BY <1>1, <1>8, ClampMonotone
<1> QED BY <1>2, <1>9

LEMMA RoundedMonotone ==
  ASSUME NEW a \in Nat, NEW b \in Nat, a <= b, NEW fa, NEW fb
  PROVE  San(a, fa) <= San(b, fb)
<1> DEFINE half == One \div 2
<1>1. One \in Nat \ {0} /\ half \in Nat
  BY OneAssumption
<1>2. San(a, fa) = (a + half) \div One /\ San(b, fb) = (b + half) \div One
  BY DEF San, Rounded
<1> HIDE DEF half
<1>3. a + half \in Int /\ b + half \in Int /\ a + half <= b + half
  BY <1>1
<1> QED BY <1>1, <1>2, <1>3, DivMonotone

\* Every request goes the same way (cpu.c:92-306), once the trend does.
LEMMA MappedRelaxes ==
  ASSUME Calibrated, NEW a \in Inputs, NEW b \in Inputs, Calmer(a, b),
         Trend(b.vel) <= Trend(a.vel), NEW v, NEW w, v = Mapped(a), w = Mapped(b)
  PROVE  Relaxes(v, w)
<1> DEFINE e == Eff(a)
           f == Eff(b)
           p == EffPress(a.demand, a.vel, e)
           q == EffPress(b.demand, b.vel, f)
           la == Lat(a, p, e)
           lb == Lat(b, q, f)
<1>1. /\ a.vel \in Int /\ b.vel \in Int /\ b.vel <= a.vel /\ (b.vel >= 0 \/ b.vel = a.vel)
      /\ a.scale \in Nat /\ b.scale \in Nat /\ b.scale <= a.scale
  BY DEF Inputs, Calmer
<1>2. /\ e.decay \in Nat /\ f.decay \in Nat /\ f.decay <= e.decay
      /\ e.sigMid \in Int /\ f.sigMid \in Int /\ e.sigMid <= f.sigMid
      /\ e.uclMid \in Int /\ f.uclMid \in Int /\ e.uclMid <= f.uclMid
  BY EffCalmer
<1>3. p \in Nat /\ q \in Nat /\ q <= p
  BY PressCalmer
<1>4. /\ v.lat = SanQuant(la, lim.maxLat) /\ v.gran = SanQuant(Gran(la), lim.maxGran)
      /\ v.wake = SanQuant(Wakeup(p, e), lim.maxWake)
      /\ v.mig = SanQuant(Migration(a.vel, p), lim.minMig)
      /\ v.walt = San(Walt(p), lim.minWalt \div One)
      /\ v.ucl = San(Uclamp(p, a.scale, e), lim.minUcl \div One)
  BY DEF Mapped
<1>5. /\ w.lat = SanQuant(lb, lim.maxLat) /\ w.gran = SanQuant(Gran(lb), lim.maxGran)
      /\ w.wake = SanQuant(Wakeup(q, f), lim.maxWake)
      /\ w.mig = SanQuant(Migration(b.vel, q), lim.minMig)
      /\ w.walt = San(Walt(q), lim.minWalt \div One)
      /\ w.ucl = San(Uclamp(q, b.scale, f), lim.minUcl \div One)
  BY DEF Mapped
<1> HIDE DEF e, f, p, q
<1>6. p \in Int /\ q \in Int /\ e.decay \in Int /\ f.decay \in Int
  BY <1>2, <1>3
<1>8. /\ lim.minLat \in Nat /\ lim.minGran \in Nat /\ lim.minWake \in Nat /\ lim.minMig \in Nat
      /\ lim.minWalt \in Nat /\ lim.minUcl \in Nat
  BY DEF Calibrated, Ordered, Limits
<1>9. la <= lb
  BY <1>2, <1>3, <1>6, LatRelaxes
<1>10. la \in Nat /\ lim.minLat <= la
  <2>1. la \in Int /\ lim.minLat <= la
    BY <1>1, <1>2, <1>6, LatWithin
  <2> QED BY <1>8, <2>1
<1>11. lb \in Nat /\ lim.minLat <= lb
  <2>1. lb \in Int /\ lim.minLat <= lb
    BY <1>1, <1>2, <1>6, LatWithin
  <2> QED BY <1>8, <2>1
<1> HIDE DEF la, lb
<1>12. v.lat <= w.lat
  BY <1>4, <1>5, <1>9, <1>10, <1>11, QuantMonotone
<1>13. v.gran <= w.gran
  <2>1. Gran(la) <= Gran(lb)
    BY <1>9, <1>10, <1>11, GranRelaxes
  <2>2. Gran(la) \in Int /\ lim.minGran <= Gran(la)
    BY <1>10, GranWithin
  <2>3. Gran(lb) \in Int /\ lim.minGran <= Gran(lb)
    BY <1>11, GranWithin
  <2>4. Gran(la) \in Nat /\ Gran(lb) \in Nat
    BY <1>8, <2>2, <2>3
  <2> QED BY <1>4, <1>5, <2>1, <2>4, QuantMonotone
<1>14. v.wake <= w.wake
  <2>1. Wakeup(p, e) <= Wakeup(q, f)
    BY <1>2, <1>3, WakeupRelaxes
  <2>2. Wakeup(p, e) \in Int /\ lim.minWake <= Wakeup(p, e)
    BY <1>6, WakeupWithin
  <2>3. Wakeup(q, f) \in Int /\ lim.minWake <= Wakeup(q, f)
    BY <1>6, WakeupWithin
  <2>4. Wakeup(p, e) \in Nat /\ Wakeup(q, f) \in Nat
    BY <1>8, <2>2, <2>3
  <2> QED BY <1>4, <1>5, <2>1, <2>4, QuantMonotone
<1>15. v.mig <= w.mig
  <2>1. Migration(a.vel, p) <= Migration(b.vel, q)
    BY <1>1, <1>3, <1>6, MigrationRelaxes
  <2>2. Migration(a.vel, p) \in Int /\ lim.minMig <= Migration(a.vel, p)
    BY <1>1, <1>6, MigrationWithin
  <2>3. Migration(b.vel, q) \in Int /\ lim.minMig <= Migration(b.vel, q)
    BY <1>1, <1>6, MigrationWithin
  <2>4. Migration(a.vel, p) \in Nat /\ Migration(b.vel, q) \in Nat
    BY <1>8, <2>2, <2>3
  <2> QED BY <1>4, <1>5, <2>1, <2>4, QuantMonotone
<1>16. w.walt <= v.walt
  <2>1. Walt(q) <= Walt(p)
    BY <1>3, <1>6, WaltRelaxes
  <2>2. Walt(p) \in Int /\ lim.minWalt <= Walt(p)
    BY <1>6, WaltWithin
  <2>3. Walt(q) \in Int /\ lim.minWalt <= Walt(q)
    BY <1>6, WaltWithin
  <2>4. Walt(p) \in Nat /\ Walt(q) \in Nat
    BY <1>8, <2>2, <2>3
  <2> QED BY <1>4, <1>5, <2>1, <2>4, RoundedMonotone
<1>17. w.ucl <= v.ucl
  <2>1. Uclamp(q, b.scale, f) <= Uclamp(p, a.scale, e)
    BY <1>1, <1>2, <1>3, <1>6, UclampRelaxes
  <2>0. a.scale \in Int /\ b.scale \in Int
    BY <1>1
  <2>2. Uclamp(p, a.scale, e) \in Int /\ lim.minUcl <= Uclamp(p, a.scale, e)
    BY <1>2, <1>6, <2>0, UclampWithin
  <2>3. Uclamp(q, b.scale, f) \in Int /\ lim.minUcl <= Uclamp(q, b.scale, f)
    BY <1>2, <1>6, <2>0, UclampWithin
  <2>4. Uclamp(p, a.scale, e) \in Nat /\ Uclamp(q, b.scale, f) \in Nat
    BY <1>8, <2>2, <2>3
  <2> QED BY <1>4, <1>5, <2>1, <2>4, RoundedMonotone
<1> QED BY <1>12, <1>13, <1>14, <1>15, <1>16, <1>17 DEF Relaxes

\* Whatever the run brings that calls for less, no request goes against it, as long as the
\* trend of the pressure does not grow: at the same velocity, at one that ends, and at a
\* smaller one but where the roots of AlgSig round against it (cpu.c:92-306).
\* In Q16, AlgSig(67196) is one unit below AlgSig(67195), as the root has risen by one.
FollowsTrend ==
  [][Calmer(input, input') /\ Trend(input'.vel) <= Trend(input.vel)
     => Relaxes(values, values')]_mappingVars

THEOREM FollowsTrendHolds == MappingSpec => FollowsTrend
<1> DEFINE Inv == Calibrated /\ input \in Inputs /\ values = Mapped(input)
<1>1. MappingInit => Inv
  <2> SUFFICES ASSUME MappingInit PROVE Inv
    OBVIOUS
  <2>1. device \in Devices /\ lim = TuneLimits(device, BaseLim) /\ cfg = TuneCpu(Metrics(device))
        /\ values = Mapped(input)
    BY DEF MappingInit
  <2>2. cfg.latGranRat \in Nat /\ cfg.uclampK \in Nat /\ cfg.sigmoidK \in Nat
    BY <2>1, TuneCpuNat
  <2>3. Ordered(lim)
    BY <2>1, TunedOrdered
  <2>4. Calibrated
    BY <2>2, <2>3 DEF Calibrated
  <2>5. input \in Inputs
    BY InputAssumption DEF MappingInit, Inputs
  <2> QED BY <2>1, <2>4, <2>5
<1>2. ASSUME Inv, [MappingNext]_mappingVars
      PROVE  Inv' /\ (UNCHANGED mappingVars \/ (Calmer(input, input')
                      /\ Trend(input'.vel) <= Trend(input.vel) => Relaxes(values, values')))
  <2>1. lim' = lim /\ cfg' = cfg
    BY <1>2 DEF MappingNext, NewPressure, NewScale, NewLevel, Maps, bootVars, mappingVars
  <2>2. Calibrated'
    BY <1>2, <2>1 DEF Calibrated, Ordered
  <2>3. ASSUME NEW in, input' = in PROVE Mapped(input)' = Mapped(in)
    BY <2>1, <2>3, Zenon DEF Mapped, Lat, ThermLat, Gran, Wakeup, Migration, Walt, Uclamp
  <2>4. ASSUME NEW in \in Inputs, Maps(in)
        PROVE  Inv' /\ (Calmer(input, input') /\ Trend(input'.vel) <= Trend(input.vel)
                        => Relaxes(values, values'))
    <3>1. values' = Mapped(in) /\ input' = in
      BY <2>4 DEF Maps
    <3>2. (values = Mapped(input))'
      BY <2>3, <3>1
    <3>3. Calmer(input, in) /\ Trend(in.vel) <= Trend(input.vel) => Relaxes(values, values')
      BY <1>2, <3>1, MappedRelaxes
    <3>4. input' \in Inputs
      BY <3>1
    <3> QED BY <2>2, <3>1, <3>2, <3>3, <3>4
  <2>5. CASE UNCHANGED mappingVars
    <3>1. input' = input /\ values' = values
      BY <2>5 DEF mappingVars
    <3>2. (values = Mapped(input))'
      BY <1>2, <2>3, <3>1
    <3> QED BY <1>2, <2>2, <2>5, <3>1, <3>2
  <2>6. ASSUME NEW d \in Demands, NEW u \in Velocities, NEW b \in Baselines, NewPressure(d, u, b)
        PROVE  \E in \in Inputs : Maps(in)
    <3>1. [input EXCEPT !.demand = d, !.vel = u, !.base = b] \in Inputs
      BY <1>2, InputAssumption DEF Inputs
    <3> QED BY <2>6, <3>1 DEF NewPressure
  <2>7. ASSUME NEW s \in Scales, NewScale(s) PROVE \E in \in Inputs : Maps(in)
    <3>1. [input EXCEPT !.scale = s] \in Inputs
      BY <1>2, InputAssumption DEF Inputs
    <3> QED BY <2>7, <3>1 DEF NewScale
  <2>8. ASSUME NEW l \in Levels, NewLevel(l) PROVE \E in \in Inputs : Maps(in)
    <3>1. [input EXCEPT !.bat = l] \in Inputs
      BY <1>2, InputAssumption DEF Inputs
    <3> QED BY <2>8, <3>1 DEF NewLevel
  <2> QED BY <1>2, <2>4, <2>5, <2>6, <2>7, <2>8 DEF MappingNext
<1> QED BY <1>1, <1>2, PTL DEF MappingSpec, FollowsTrend

-----------------------------------------------------------------------------
(* The demand itself (cpu.c)                                               *)

\* What a run is told, and the roots it asks for
Measures == [cur : Int, vel : Int, break : BOOLEAN, scale : 1..One, bat : Int, base : Int]

\* A quotient may be taken of the whole units and of the rest.
LEMMA QuotientSplits ==
  ASSUME NEW a \in Int, NEW b \in Int, NEW k \in Nat \ {0}
  PROVE  (a \div k) * b + ((a % k) * b) \div k = (a * b) \div k
<1> DEFINE q == a \div k
           r == a % k
           t == (r * b) \div k
<1>1. q \in Int /\ r \in Int /\ a = k * q + r
  OBVIOUS
<1> HIDE DEF q, r
<1>2. r * b \in Int /\ q * b \in Int /\ a * b \in Int
  BY <1>1
<1>3. t \in Int /\ k * t <= r * b /\ r * b < k * t + k
  BY <1>2, DivInt, DivWithin
<1> HIDE DEF t
<1>4. a * b = k * (q * b) + r * b
  BY <1>1
<1>5. k * (q * b + t) = k * (q * b) + k * t
  BY <1>2, <1>3
<1>6. k * (q * b) \in Int /\ k * t \in Int /\ q * b + t \in Int
  BY <1>2, <1>3
<1> DEFINE u == q * b + t
           v == a * b
<1>7. u \in Int /\ v \in Int /\ k * u <= v /\ v < k * u + k
  <2>1. k * u = k * (q * b) + k * t /\ v = k * (q * b) + r * b /\ u \in Int /\ v \in Int
    BY <1>2, <1>4, <1>5, <1>6
  <2> HIDE DEF u, v
  <2> QED BY <1>2, <1>3, <1>6, <2>1
<1> HIDE DEF u, v
<1>8. v \div k = u
  BY <1>7, DivUnique
<1> QED BY <1>8 DEF u, v, q, r, t

\* The product and the quotient in two parts are the product and the quotient.
LEMMA WideMulExact ==
  ASSUME NEW a \in Int, NEW b \in Int
  PROVE  WideMul(a, b) = Mul(a, b)
  BY QuotientSplits, OneAssumption DEF WideMul, Mul

LEMMA WideDivExact ==
  ASSUME NEW a \in Nat, NEW b \in Nat \ {0}
  PROVE  WideDiv(a, b) = Div(a, b)
<1>1. a >= 0 /\ a \in Int /\ One \in Int
  BY OneAssumption
<1>2. (a \div b) * One + ((a % b) * One) \div b = (a * One) \div b
  BY ONLY <1>1, QuotientSplits, b \in Nat \ {0}
<1> QED BY <1>1, <1>2 DEF WideDiv, Div

LEMMA MulWhole ==
  ASSUME NEW m \in Int
  PROVE  Mul(m, One) = m
<1>1. m * One \in Int /\ One * m = m * One /\ m * One < One * m + One
  BY OneAssumption
<1> QED BY <1>1, DivUnique, OneAssumption DEF Mul

\* A share of at most m is at most m.
LEMMA PartOf ==
  ASSUME NEW m \in Nat, NEW a \in Nat, a <= m, NEW b \in 0..One
  PROVE  Mul(a, b) \in 0..m
<1>1. One \in Nat /\ b \in Nat /\ b <= One
  BY OneAssumption
<1>2. Mul(a, b) \in Nat /\ Mul(a, b) <= Mul(m, One)
  BY <1>1, MulBoth
<1>3. Mul(m, One) = m
  BY MulWhole
<1> QED BY <1>2, <1>3

LEMMA Portion ==
  ASSUME NEW m \in Nat \ {0}, NEW a \in Nat, a <= m
  PROVE  Div(a, m) \in 0..One
<1>1. a * One \in Int /\ m * One \in Int /\ a * One <= m * One
  BY Scaled, OneAssumption
<1>2. a * One >= 0
  BY OneAssumption
<1> DEFINE part == a * One
           whole == m * One
<1>3. part \in Int /\ whole \in Int /\ part <= whole /\ part >= 0
  BY <1>1, <1>2
<1>4. whole \div m = One
  <2>1. m * One \in Int /\ m * One < m * One + m
    BY <1>1
  <2> QED BY <2>1, DivUnique, OneAssumption
<1>5. Div(a, m) = part \div m
  BY DEF Div
<1> HIDE DEF part, whole
<1>6. part \div m <= whole \div m /\ part \div m \in Nat
  BY <1>3, DivMonotone, DivInt
<1> QED BY <1>4, <1>5, <1>6, OneAssumption

\* Between its ends, whichever is the larger
LEMMA LerpBetween ==
  ASSUME NEW a \in Nat, NEW b \in Nat, NEW c \in 0..One
  PROVE  /\ Lerp(a, b, c) \in Nat
         /\ a <= b => Lerp(a, b, c) <= b
         /\ b <= a => Lerp(a, b, c) <= a
<1> DEFINE d == b - a
           part == Mul(d, c)
<1>1. d \in Int /\ c \in Nat /\ c <= One /\ One \in Nat \ {0}
  BY OneAssumption
<1>2. Lerp(a, b, c) = a + part
  BY DEF Lerp
<1>3. CASE a <= b
  <2>1. d \in Nat /\ d <= d
    BY <1>3
  <2> HIDE DEF d
  <2>2. part \in 0..d
    BY <2>1, PartOf
  <2> HIDE DEF part
  <2> QED BY <1>2, <1>3, <2>2 DEF d
<1>4. CASE ~(a <= b)
  <2>1. d < 0
    BY <1>4
  <2> HIDE DEF d
  <2> DEFINE p == d * c
  <2>2. p \in Int /\ part = p \div One
    BY <1>1 DEF Mul
  <2>3. One * d <= p
    <3>1. (-d) * c <= (-d) * One
      <4>1. -d \in Nat
        BY <1>1, <2>1
      <4> DEFINE e == -d
      <4> HIDE DEF e
      <4>2. e \in Nat
        BY <4>1 DEF e
      <4>3. e * c <= e * One
        BY <1>1, <4>2, Scaled
      <4> QED BY <4>3 DEF e
    <3>2. (-d) * c = -(d * c) /\ (-d) * One = -(d * One) /\ One * d = d * One
          /\ d * c \in Int /\ d * One \in Int
      BY <1>1
    <3> QED BY <3>1, <3>2
  <2>4. p <= 0
    BY <1>1, <2>1
  <2> HIDE DEF p
  <2>5. d <= p \div One
    BY <1>1, <2>2, <2>3, DivGreatest
  <2>6. p \div One <= 0 /\ p \div One \in Int
    <3>1. p \div One <= 0 \div One
      BY <1>1, <2>2, <2>4, DivMonotone
    <3>2. 0 \div One = 0
      BY <1>1
    <3>3. p \div One \in Int
      BY <1>1, <2>2, DivInt
    <3> QED BY <3>1, <3>2, <3>3
  <2> HIDE DEF part
  <2>7. part \in Int /\ d <= part /\ part <= 0
    BY <2>2, <2>5, <2>6
  <2>8. d = b - a
    BY DEF d
  <2> QED BY <1>2, <1>4, <2>7, <2>8
<1> QED BY <1>3, <1>4

\* The root of one and a square is no less than what is squared, if it is exact.
LEMMA RootCovers ==
  ASSUME NEW v \in Nat, (One + Mul(v, v)) * One < 2^RootBits * 2^RootBits
  PROVE  Sqrt(One + Mul(v, v)) \in Nat /\ v <= Sqrt(One + Mul(v, v))
<1> DEFINE x == One + Mul(v, v)
           root == Sqrt(x)
           sq == v * v
           q == sq \div One
<1>1. One \in Nat \ {0} /\ sq \in Nat
  BY OneAssumption
<1>2. q \in Nat /\ sq < One * q + One
  <2> HIDE DEF sq
  <2> QED BY <1>1, DivInt, DivWithin
<1>3. x = One + q
  BY DEF Mul
<1> HIDE DEF q
<1>4. x \in Nat
  BY <1>1, <1>2, <1>3
<1>5. sq < x * One
  <2>1. x * One = One * One + One * q /\ One <= One * One /\ One * One \in Int /\ One * q \in Int
    BY <1>1, <1>2, <1>3
  <2> HIDE DEF sq, x
  <2> QED BY <1>1, <1>2, <2>1
<1>6. root \in Nat /\ x * One < (root + 1) * (root + 1)
  <2> HIDE DEF x
  <2> QED BY <1>4, SqrtExact DEF x
<1> HIDE DEF root, x
<1>7. ~(root + 1 <= v)
  <2> SUFFICES ASSUME root + 1 <= v PROVE FALSE
    OBVIOUS
  <2> DEFINE up == root + 1
  <2>1. up \in Nat /\ up <= v
    BY <1>6
  <2> HIDE DEF up
  <2>2. up * up <= v * up /\ v * up <= v * v
    BY <2>1, Scaled
  <2>3. up * up \in Int /\ v * up \in Int /\ v * v \in Int
    BY <2>1
  <2>4. x * One \in Int
    BY <1>1, <1>4
  <2> QED BY <1>5, <1>6, <2>2, <2>3, <2>4 DEF up, sq
<1> QED BY <1>6, <1>7 DEF root, x

\* The trend of a velocity whose root fits its bits is a share: never more than one
\* (math.h:144-159, cpu.c:188-194).
THEOREM TrendShare ==
  ASSUME NEW vel \in Int, RootFits(vel)
  PROVE  Trend(vel) \in 0..One
<1> DEFINE root == Sqrt(One + Mul(vel, vel))
<1>1. One \in Nat \ {0}
  BY OneAssumption
<1>2. CASE vel <= 0
  BY <1>1, <1>2 DEF Trend
<1>3. CASE vel >= 180 * One
  <2>1. vel > 0
    BY <1>1, <1>3
  <2> QED BY <1>1, <1>3, <2>1 DEF Trend, AlgSig
<1>4. CASE vel > 0 /\ vel < 180 * One
  <2>1. vel \in 1..(180 * One - 1) /\ vel \in Nat
    BY <1>1, <1>4
  <2>2. (One + Mul(vel, vel)) * One < 2^RootBits * 2^RootBits
    BY <2>1 DEF RootFits
  <2>3. root \in Nat /\ vel <= root
    BY <2>1, <2>2, RootCovers
  <2>4. Trend(vel) = Div(vel, root)
    BY <1>1, <1>4 DEF Trend, AlgSig
  <2> HIDE DEF root
  <2>5. root \in Nat \ {0}
    BY <1>4, <2>3
  <2> QED BY <2>1, <2>3, <2>4, <2>5, Portion
<1> QED BY <1>1, <1>2, <1>3, <1>4

LEMMA ChargeShare ==
  ASSUME NEW bat \in Int
  PROVE  Charge(bat) \in 0..One
<1> DEFINE top == 100 * One
           level == Clamp(bat, 0, top)
<1>1. top \in Nat \ {0}
  BY OneAssumption
<1>2. Charge(bat) = Div(level, top)
  BY DEF Charge
<1> HIDE DEF top
<1>3. level \in Nat /\ level <= top
  BY <1>1 DEF Clamp
<1> HIDE DEF level
<1> QED BY <1>1, <1>2, <1>3, Portion

\* What the battery's depletion adds is bounded (cpu.c:17-46).
LEMMA DepletionRange ==
  ASSUME NEW bat \in Int
  PROVE  Depletion(bat) \in 0..(97 * One)
<1> DEFINE top == 100 * One
           down == top - Clamp(bat, 0, top)
           d == Div(down, top)
           most == 97 * One
<1>1. top \in Nat \ {0} /\ most \in Nat /\ most <= most /\ One \in Nat
  BY OneAssumption
<1>2. Depletion(bat) = Mul(most, Mul(Mul(d, d), d))
  BY DEF Depletion
<1> HIDE DEF top
<1>3. down \in Nat /\ down <= top
  BY <1>1 DEF Clamp
<1> HIDE DEF down
<1>4. d \in 0..One
  BY <1>1, <1>3, Portion
<1> HIDE DEF d
<1>5. d \in Nat /\ d <= One
  BY <1>1, <1>4
<1>6. Mul(d, d) \in 0..One
  BY <1>1, <1>4, <1>5, PartOf
<1> DEFINE sq == Mul(d, d)
<1> HIDE DEF sq
<1>7. sq \in Nat /\ sq <= One
  BY <1>1, <1>6 DEF sq
<1>8. Mul(sq, d) \in 0..One
  BY <1>1, <1>4, <1>7, PartOf
<1> DEFINE cube == Mul(sq, d)
<1> HIDE DEF cube
<1>9. cube \in 0..One
  BY <1>8 DEF cube
<1> HIDE DEF most
<1>10. Mul(most, cube) \in 0..most
  BY <1>1, <1>9, PartOf
<1> QED BY <1>2, <1>10 DEF cube, sq, most

LEMMA EffRange ==
  ASSUME NEW in \in Measures
  PROVE  /\ Eff(in).resp \in 0..(31 * One) /\ Eff(in).surge \in Int /\ Eff(in).lookahead \in Int
         /\ Eff(in).alpha \in 0..One /\ Eff(in).stab \in Nat
<1> DEFINE charge == Charge(in.bat)
           health == Mul(charge, in.scale)
           base == Mul(in.base, Milli(100))
           noise == Clamp(base, 0, One)
           most == 31 * One
           low == Milli(95)
           far == Milli(170)
           close == Milli(990)
           loose == Milli(850)
           soft == Milli(1500)
           hard == Milli(3500)
<1>1. /\ Eff(in).resp = Mul(most, health) /\ Eff(in).surge = Mul(low, health)
      /\ Eff(in).lookahead = Mul(far, in.scale)
      /\ Eff(in).alpha = Lerp(close, loose, noise) /\ Eff(in).stab = Lerp(soft, hard, noise)
  BY SMT DEF Eff
<1>2. low \in Nat /\ far \in Nat /\ close \in Nat /\ loose \in Nat /\ soft \in Nat /\ hard \in Nat
  <2>1. \A n \in Nat : Milli(n) \in Nat
    BY MilliNat
  <2> QED BY <2>1, SMT
<1>3. loose <= close /\ close <= One
  <2>1. 990 * One \in Int /\ 850 * One \in Int /\ 850 * One <= 990 * One /\ 990 * One <= 1000 * One
    BY OneAssumption
  <2>2. loose <= close
    BY <2>1, DivMonotone DEF Milli
  <2>3. 1000 * ((990 * One) \div 1000) <= 990 * One
    BY <2>1, DivWithin
  <2> QED BY <1>2, <2>1, <2>2, <2>3, OneAssumption DEF Milli
<1>4. most \in Nat /\ most <= most /\ One \in Nat /\ One <= One
  BY OneAssumption
<1>5. in.bat \in Int /\ in.base \in Int /\ in.scale \in 0..One /\ in.scale \in Int
  BY DEF Measures
<1>6. charge \in 0..One
  BY <1>5, ChargeShare
<1>7. noise \in 0..One
  <2> DEFINE tenth == Milli(100)
  <2>1. tenth \in Int
    BY MilliNat
  <2> HIDE DEF tenth
  <2>2. Mul(in.base, tenth) \in Int
    BY <1>5, <2>1, MulInt
  <2>3. Clamp(Mul(in.base, tenth), 0, One) \in 0..One
    BY <2>2, ShareRange
  <2> QED BY <2>3 DEF tenth
<1> HIDE DEF charge, noise, most, low, far, close, loose, soft, hard
<1>8. health \in 0..One
  <2>1. charge \in Nat /\ charge <= One
    BY <1>4, <1>6
  <2> QED BY <1>4, <1>5, <2>1, PartOf
<1> HIDE DEF health
<1>9. Mul(most, health) \in 0..most
  BY <1>4, <1>8, PartOf
<1>10. Mul(low, health) \in Int
  <2>1. low \in Int /\ health \in Int
    BY <1>2, <1>8
  <2> QED BY <2>1, MulInt
<1>11. Mul(far, in.scale) \in Int
  <2>1. far \in Int
    BY <1>2
  <2> QED BY <1>5, <2>1, MulInt
<1>12. Lerp(close, loose, noise) \in 0..One
  <2>1. Lerp(close, loose, noise) \in Nat /\ Lerp(close, loose, noise) <= close
    BY <1>2, <1>3, <1>7, LerpBetween
  <2> QED BY <1>2, <1>3, <1>4, <2>1
<1>13. Lerp(soft, hard, noise) \in Nat
  BY <1>2, <1>7, LerpBetween
<1>14. /\ Eff(in).resp \in 0..most /\ Eff(in).surge \in Int /\ Eff(in).lookahead \in Int
       /\ Eff(in).alpha \in 0..One /\ Eff(in).stab \in Nat
  BY <1>1, <1>9, <1>10, <1>11, <1>12, <1>13
<1> QED BY <1>14 DEF most

LEMMA HeatRange ==
  ASSUME NEW scale \in 1..One
  PROVE  Clamp(scale, Milli(100), One) \in 1..One
<1> DEFINE tenth == Milli(100)
<1>1. tenth \in Nat
  BY MilliNat
<1>2. tenth <= One
  <2>1. 100 * One \in Int /\ 100 * One <= 1000 * One
    BY OneAssumption
  <2>2. 1000 * ((100 * One) \div 1000) <= 100 * One
    BY <2>1, DivWithin
  <2> QED BY <1>1, <2>1, <2>2, OneAssumption DEF Milli
<1> HIDE DEF tenth
<1>3. Clamp(scale, tenth, One) \in 1..One
  BY <1>1, <1>2, OneAssumption DEF Clamp
<1> QED BY <1>3 DEF tenth

\* The spring is at most twice as stiff as the battery and the temperature let it be.
LEMMA StiffnessRange ==
  ASSUME NEW in \in Measures, RootFits(in.vel)
  PROVE  Stiffness(in, Eff(in)) \in 0..(62 * One)
<1> DEFINE trend == Trend(in.vel)
           resp == Eff(in).resp
           alpha == Eff(in).alpha
           th == Clamp(in.scale, Milli(100), One)
           gain == Mul(alpha, trend)
           pull == Mul(resp, One + gain)
           cool == Mul(th, th)
           most == 62 * One
<1>1. Stiffness(in, Eff(in)) = Mul(pull, cool)
  BY DEF Stiffness
<1>2. trend \in 0..One
  BY TrendShare DEF Measures
<1>3. resp \in 0..(31 * One) /\ alpha \in 0..One
  BY EffRange
<1>4. One \in Nat /\ One <= One /\ most \in Nat
  BY OneAssumption
<1>5. th \in 0..One
  <2>1. in.scale \in 1..One
    BY DEF Measures
  <2>2. th \in 1..One
    BY <2>1, HeatRange
  <2> HIDE DEF th
  <2> QED BY <2>2
<1> HIDE DEF trend, resp, alpha, th
<1>6. gain \in 0..One
  <2>1. alpha \in Nat /\ alpha <= One
    BY <1>3, <1>4
  <2> QED BY <1>2, <1>4, <2>1, PartOf
<1> HIDE DEF gain
<1>7. pull \in 0..most
  <2> DEFINE top == 31 * One
             twice == 2 * One
             sum == One + gain
  <2>1. resp \in Nat /\ top \in Nat /\ resp <= top /\ sum \in Nat /\ twice \in Nat /\ sum <= twice
    BY <1>3, <1>4, <1>6
  <2>2. Mul(top, twice) = Mul(most, One)
    <3>1. (31 * One) * (2 * One) = (62 * One) * One
      BY <1>4
    <3> QED BY <3>1 DEF Mul
  <2>3. Mul(most, One) = most
    <3>1. most \in Int
      BY <1>4
    <3> HIDE DEF most
    <3> QED BY <3>1, MulWhole
  <2> HIDE DEF top, twice, sum, most
  <2>4. Mul(resp, sum) \in Nat /\ Mul(resp, sum) <= Mul(top, twice)
    BY <2>1, MulBoth
  <2>5. Mul(resp, sum) \in 0..most
    BY <1>4, <2>2, <2>3, <2>4
  <2> QED BY <2>5 DEF sum
<1>8. cool \in 0..One
  <2>1. th \in Nat /\ th <= One
    BY <1>4, <1>5
  <2> QED BY <1>4, <1>5, <2>1, PartOf
<1> HIDE DEF pull, cool, most
<1>9. pull \in Nat /\ pull <= most
  BY <1>4, <1>7
<1>10. Mul(pull, cool) \in 0..most
  BY <1>4, <1>8, <1>9, PartOf
<1> QED BY <1>1, <1>10 DEF most

LEMMA ReadingMeasures ==
  ASSUME NEW in \in Readings \cup Steady
  PROVE  in \in Measures /\ RootFits(in.vel)
  BY ReadingAssumption DEF Measures

\* The root the damper takes of the spring is exact, whatever is read (cpu.c:61-62, 153-158).
THEOREM DamperRootExact ==
  ASSUME NEW in \in Readings \cup Steady
  PROVE  LET k == Stiffness(in, Eff(in))
         IN  /\ k \in 0..(62 * One) /\ Sqrt(k) \in Nat
             /\ Sqrt(k) * Sqrt(k) <= k * One /\ k * One < (Sqrt(k) + 1) * (Sqrt(k) + 1)
<1> DEFINE k == Stiffness(in, Eff(in))
           most == 62 * One
           bound == 2^RootBits * 2^RootBits
<1>1. k \in 0..most
  BY ReadingMeasures, StiffnessRange
<1> HIDE DEF k
<1>2. k \in Nat /\ k <= most /\ most \in Int /\ One \in Nat
  BY <1>1, OneAssumption
<1>3. most * One < bound /\ bound \in Int
  <2>1. 2^RootBits \in Nat
    BY PowerPositive, RootAssumption
  <2> QED BY <2>1, RootAssumption
<1> HIDE DEF most, bound
<1>4. k * One < bound
  <2>1. k * One <= most * One
    BY <1>2, Scaled
  <2>2. k * One \in Int /\ most * One \in Int
    BY <1>2
  <2> QED BY <1>3, <2>1, <2>2
<1>5. k * One < 2^RootBits * 2^RootBits
  BY <1>4 DEF bound
<1>6. /\ Sqrt(k) \in Nat /\ Sqrt(k) * Sqrt(k) <= k * One
      /\ k * One < (Sqrt(k) + 1) * (Sqrt(k) + 1)
  BY <1>2, <1>5, SqrtExact
<1> QED BY <1>1, <1>6 DEF k, most

\* The damper never pulls, and no quotient in it is by nothing: where the pressure stands
\* still and a thousandth rounds away, the limit is taken before the division
\* (cpu.c:56-90).
LEMMA DampingNat ==
  ASSUME NEW in \in Measures, NEW psi \in Int, NEW k \in Nat, NEW eff, eff.stab \in Nat,
         NEW depleting \in Int
  PROVE  Damping(psi, in, k, eff, depleting) \in Nat
<1> DEFINE spring == Mul(2 * One, Sqrt(k))
           base == Mul(spring, eff.stab)
           most == 4 * base
           half == Abs(depleting) \div 2
           once == WideMul(half, psi)
           num == WideMul(once, psi)
           still == Milli(1)
           denom == WideMul(in.vel, in.vel) + still
           limit == WideMul(most, denom)
           required == IF num >= limit THEN most ELSE WideDiv(num, denom)
           factor == Milli(3100)
           stable == Mul(required, factor)
           heat == Clamp(in.scale, Milli(100), One)
           cooled == Div(base, Sqrt(heat))
<1>1. Damping(psi, in, k, eff, depleting) = IF cooled > stable THEN cooled ELSE stable
  BY SMT DEF Damping
<1>2. spring \in Nat
  <2>1. Sqrt(k) \in Nat /\ 2 * One \in Nat
    BY SqrtNat, OneAssumption
  <2> QED BY <2>1, MulNat
<1> HIDE DEF spring
<1>3. base \in Nat
  BY <1>2, MulNat
<1> HIDE DEF base
<1>4. most \in Nat
  BY <1>3
<1>5. half \in Nat
  BY DEF Abs
<1> HIDE DEF most, half
<1>6. num \in Nat
  <2>1. once = Mul(half, psi) /\ once \in Int
    <3>1. half \in Int
      BY <1>5
    <3> QED BY <3>1, WideMulExact, MulInt
  <2>2. (psi >= 0 => once \in Nat) /\ (psi <= 0 => once <= 0)
    <3>1. ASSUME psi >= 0 PROVE once \in Nat
      <4>1. psi \in Nat
        BY <3>1
      <4>2. Mul(half, psi) \in Nat
        BY <1>5, <4>1, MulNat
      <4> QED BY <2>1, <4>2
    <3>2. ASSUME psi <= 0 PROVE once <= 0
      <4> DEFINE p == half * psi
      <4>1. p \in Int /\ p <= 0 /\ Mul(half, psi) = p \div One
        BY <1>5, <3>2 DEF Mul
      <4> HIDE DEF p
      <4>2. One * (p \div One) <= p /\ p \div One \in Int /\ One \in Nat \ {0}
        BY <4>1, DivWithin, DivInt, OneAssumption
      <4> DEFINE q == p \div One
      <4> HIDE DEF q
      <4>3. q \in Int /\ One * q <= 0 /\ One \in Nat \ {0}
        BY <4>1, <4>2 DEF q
      <4>4. q <= 0
        BY <4>3
      <4> QED BY <2>1, <4>1, <4>4 DEF q
    <3> QED BY <3>1, <3>2
  <2> HIDE DEF once
  <2>3. num = Mul(once, psi)
    BY <2>1, WideMulExact
  <2>4. CASE psi >= 0
    <3>1. psi \in Nat /\ once \in Nat
      BY <2>2, <2>4
    <3> QED BY <2>3, <3>1, MulNat
  <2>5. CASE psi <= 0
    <3>1. once * psi \in Int /\ once * psi >= 0
      <4>1. -once \in Nat /\ -psi \in Nat
        BY <2>1, <2>2, <2>5
      <4>2. once * psi = (-once) * (-psi)
        BY <2>1
      <4> QED BY <4>1, <4>2
    <3> QED BY <2>3, <3>1, DivInt, OneAssumption DEF Mul
  <2> QED BY <2>4, <2>5
<1> HIDE DEF num
<1>7. denom \in Nat
  <2>1. in.vel \in Int
    BY DEF Measures
  <2>2. WideMul(in.vel, in.vel) = Mul(in.vel, in.vel) /\ Mul(in.vel, in.vel) \in Nat
    BY <2>1, WideMulExact, SquareNat
  <2>3. still \in Nat
    BY MilliNat
  <2> HIDE DEF still
  <2> QED BY <2>2, <2>3
<1> HIDE DEF denom
<1>8. limit = Mul(most, denom) /\ limit \in Int
  <2>1. most \in Int /\ denom \in Int
    BY <1>4, <1>7
  <2> QED BY <2>1, WideMulExact, MulInt
<1>9. denom = 0 => limit = 0
  <2>1. ASSUME denom = 0 PROVE limit = 0
    <3>1. most * denom = 0
      BY <1>4, <2>1
    <3>2. limit = 0 \div One
      BY <1>8, <3>1 DEF Mul
    <3>3. 0 \div One = 0
      BY OneAssumption
    <3> QED BY <3>2, <3>3
  <2> QED BY <2>1
<1> HIDE DEF limit
<1>10. required \in Nat
  <2>1. CASE num >= limit
    BY <1>4, <2>1
  <2>2. CASE ~(num >= limit)
    <3>1. denom \in Nat \ {0}
      BY <1>6, <1>7, <1>9, <2>2
    <3>2. WideDiv(num, denom) = Div(num, denom)
      BY <1>6, <3>1, WideDivExact
    <3>3. num >= 0 /\ num \in Int /\ num <= num
      BY <1>6
    <3>4. Div(num, denom) \in Nat
      BY <3>1, <3>3, FracMonotone
    <3> QED BY <2>2, <3>2, <3>4
  <2> QED BY <2>1, <2>2
<1> HIDE DEF required
<1>11. stable \in Nat
  <2>1. factor \in Nat
    BY MilliNat, SMT
  <2> HIDE DEF factor
  <2> QED BY <1>10, <2>1, MulNat
<1>12. cooled \in Int
  <2>1. heat \in 1..One
    BY HeatRange DEF Measures
  <2>2. heat \in Nat \ {0}
    <3> HIDE DEF heat
    <3> QED BY <2>1
  <2> HIDE DEF heat
  <2>3. Sqrt(heat) \in Nat \ {0}
    BY <2>2, SqrtPositive
  <2>4. base \in Int
    BY <1>3
  <2> QED BY <2>3, <2>4, FracInt
<1> HIDE DEF stable, cooled
<1>13. (IF cooled > stable THEN cooled ELSE stable) \in Nat
  BY <1>11, <1>12
<1> QED BY <1>1, <1>13

\* The states of a load: a rate that is no number would come of a quotient by nothing.
LoadStates(P, R, I) == [psi : P, rate : R, integ : I, fresh : BOOLEAN]
Loads == LoadStates(0..(500 * One), Int, 0..(97 * One))

LEMMA MovedState ==
  ASSUME NEW P, NEW R, NEW I, NEW s \in LoadStates(P, R, I), NEW p \in P, NEW r \in R
  PROVE  [s EXCEPT !.psi = p, !.rate = r] \in LoadStates(P, R, I)
<1>1. [s EXCEPT !.psi = p] \in LoadStates(P, R, I)
  BY DEF LoadStates
<1>2. [[s EXCEPT !.psi = p] EXCEPT !.rate = r] \in LoadStates(P, R, I)
  BY <1>1 DEF LoadStates
<1>3. [s EXCEPT !.psi = p, !.rate = r] = [[s EXCEPT !.psi = p] EXCEPT !.rate = r]
  OBVIOUS
<1> QED BY <1>2, <1>3

LEMMA SeenState ==
  ASSUME NEW P, NEW R, NEW I, NEW s \in LoadStates(P, R, I), NEW i \in I
  PROVE  [s EXCEPT !.integ = i, !.fresh = FALSE] \in LoadStates(P, R, I)
<1>1. [s EXCEPT !.integ = i] \in LoadStates(P, R, I)
  BY DEF LoadStates
<1>2. [[s EXCEPT !.integ = i] EXCEPT !.fresh = FALSE] \in LoadStates(P, R, I)
  BY <1>1 DEF LoadStates
<1>3. [s EXCEPT !.integ = i, !.fresh = FALSE] = [[s EXCEPT !.integ = i] EXCEPT !.fresh = FALSE]
  OBVIOUS
<1> QED BY <1>2, <1>3

\* What stays of the demand's state after a push, and after a charge is noted
\* (cpu.c:162-186).
LEMMA MovedLoad ==
  ASSUME NEW s \in Loads, NEW p \in 0..(500 * One), NEW r \in Int
  PROVE  [s EXCEPT !.psi = p, !.rate = r] \in Loads
<1> DEFINE P == 0..(500 * One)
           I == 0..(97 * One)
<1>1. Loads = LoadStates(P, Int, I)
  BY DEF Loads
<1>2. p \in P
  OBVIOUS
<1> HIDE DEF P, I
<1>3. s \in LoadStates(P, Int, I)
  BY ONLY <1>1, s \in Loads
<1>4. [s EXCEPT !.psi = p, !.rate = r] \in LoadStates(P, Int, I)
  BY ONLY <1>2, <1>3, r \in Int, MovedState
<1> QED BY ONLY <1>1, <1>4

LEMMA SeenLoad ==
  ASSUME NEW s \in Loads, NEW i \in 0..(97 * One)
  PROVE  [s EXCEPT !.integ = i, !.fresh = FALSE] \in Loads
<1> DEFINE P == 0..(500 * One)
           I == 0..(97 * One)
<1>1. Loads = LoadStates(P, Int, I)
  BY DEF Loads
<1>2. i \in I
  OBVIOUS
<1> HIDE DEF P, I
<1>3. s \in LoadStates(P, Int, I)
  BY ONLY <1>1, s \in Loads
<1>4. [s EXCEPT !.integ = i, !.fresh = FALSE] \in LoadStates(P, Int, I)
  BY ONLY <1>2, <1>3, SeenState
<1> QED BY ONLY <1>1, <1>4

LEMMA PushedInts ==
  ASSUME NEW from \in Loads, NEW in \in Measures, NEW eff, eff.surge \in Int, NEW limits
  PROVE  Pushed(from, in, eff, limits).psi \in Int /\ Pushed(from, in, eff, limits).rate \in Int
<1> DEFINE States == LoadStates(Int, Int, Int)
           jump == [from EXCEPT !.psi = in.cur, !.rate = 0]
           kept == IF in.break THEN jump ELSE from
           push == Mul(in.vel, eff.surge)
           steep == Abs(in.vel) > limits.surgeThresh
<1>1. Pushed(from, in, eff, limits) = IF steep THEN [kept EXCEPT !.rate = @ + push] ELSE kept
  BY DEF Pushed
<1>2. from \in States
  <2>1. from \in [psi : 0..(500 * One), rate : Int, integ : 0..(97 * One), fresh : BOOLEAN]
    BY DEF Loads, LoadStates
  <2>2. 0..(500 * One) \subseteq Int /\ 0..(97 * One) \subseteq Int
    BY OneAssumption
  <2> QED BY <2>1, <2>2 DEF LoadStates
<1>3. in.cur \in Int /\ in.vel \in Int
  BY DEF Measures
<1>4. jump \in States
  <2>1. 0 \in Int
    OBVIOUS
  <2> QED BY ONLY <1>2, <1>3, <2>1, MovedState
<1> HIDE DEF jump
<1>5. kept \in States
  BY <1>2, <1>4
<1>6. push \in Int
  BY <1>3, MulInt
<1> HIDE DEF kept, push, steep
<1>7. [kept EXCEPT !.rate = @ + push] \in States
  BY <1>5, <1>6 DEF LoadStates
<1>8. Pushed(from, in, eff, limits) \in States
  BY <1>1, <1>5, <1>7
<1> QED BY <1>8 DEF LoadStates

\* A run keeps the demand among its states, whatever is read and however long it took.
LEMMA DemandedHeld ==
  ASSUME NEW old \in Loads, NEW in \in Measures, RootFits(in.vel), NEW elapsed \in Int, NEW limits
  PROVE  Demanded(old, in, elapsed, limits) \in Loads
<1> DEFINE eff == Eff(in)
           dt == Clamp(elapsed, 1, Milli(100))
           from == Pushed(old, in, eff, limits)
           k == Stiffness(in, eff)
           pred == in.cur + Mul(in.vel, eff.lookahead)
           pull == WideMul(k, pred - from.psi)
           weight == Load(from.psi, in, k)
           top == 32000 * One
           force == Clamp(pull - weight, -32000 * One, top)
           depleting == Depleting(old, in, elapsed)
           damping == Damping(from.psi, in, k, eff, depleting)
           start == from.rate + Mul(force, dt)
           slow == One + Mul(damping, dt)
           rate == Div(start, slow)
           psi == from.psi + Mul(rate, dt)
           most == 500 * One
           seen == [old EXCEPT !.integ = Depletion(in.bat), !.fresh = FALSE]
           ended == [seen EXCEPT !.psi = 0, !.rate = 0]
           moved == [seen EXCEPT !.psi = Clamp(psi, 0, most),
                                 !.rate = IF psi \in 0..most THEN rate ELSE 0]
<1>1. Demanded(old, in, elapsed, limits) = IF Quiet(old, in) THEN ended ELSE moved
  BY SMT DEF Demanded
<1>2. One \in Nat \ {0} /\ most \in Nat
  BY OneAssumption
<1>3. in.cur \in Int /\ in.vel \in Int /\ in.bat \in Int
  BY DEF Measures
<1>4. eff.surge \in Int /\ eff.lookahead \in Int /\ eff.stab \in Nat
  BY EffRange
<1>5. k \in Nat
  <2>1. k \in 0..(62 * One)
    BY StiffnessRange
  <2> HIDE DEF k
  <2> QED BY <2>1
<1> HIDE DEF eff, k
<1>6. from.psi \in Int /\ from.rate \in Int
  BY <1>4, PushedInts
<1> HIDE DEF from
<1>7. pred \in Int
  <2>1. Mul(in.vel, eff.lookahead) \in Int
    BY <1>3, <1>4, MulInt
  <2> QED BY <1>3, <2>1
<1> HIDE DEF pred
<1>8. pull \in Int
  <2>1. pred - from.psi \in Int /\ k \in Int
    BY <1>5, <1>6, <1>7
  <2> QED BY <2>1, WideMulExact, MulInt
<1>9. Depletion(in.bat) \in 0..(97 * One)
  BY <1>3, DepletionRange
<1>10. weight \in Int
  <2> DEFINE depth == Depletion(in.bat)
             drag == WideMul(depth, from.psi)
  <2>1. depth \in Int
    <3> HIDE DEF depth
    <3> QED BY <1>9 DEF depth
  <2> HIDE DEF depth
  <2>2. drag \in Int
    BY <1>6, <2>1, WideMulExact, MulInt
  <2>3. weight = IF drag > 150 * k THEN 150 * k ELSE drag
    BY DEF Load, depth
  <2> HIDE DEF drag, weight
  <2> QED BY <1>5, <2>2, <2>3
<1> HIDE DEF pull, weight
<1>11. force \in Int
  <2>1. pull - weight \in Int
    BY <1>8, <1>10
  <2> DEFINE net == pull - weight
             bottom == -32000 * One
  <2>2. top \in Int /\ bottom \in Int /\ net \in Int
    BY <1>2, <2>1
  <2> HIDE DEF top, bottom, net
  <2>3. Clamp(net, bottom, top) \in Int
    BY <2>2 DEF Clamp
  <2> QED BY <2>3 DEF net, bottom
<1> HIDE DEF force
<1>12. dt \in Nat
  <2> DEFINE tenth == Milli(100)
  <2>1. tenth \in Nat
    BY MilliNat
  <2> HIDE DEF tenth
  <2>2. Clamp(elapsed, 1, tenth) \in Nat
    BY <2>1 DEF Clamp
  <2> QED BY <2>2 DEF tenth
<1> HIDE DEF dt
<1>13. depleting \in Int
  <2> DEFINE deeper == Depletion(in.bat) - old.integ
             period == 5 * One
  <2>1. depleting = IF old.fresh \/ elapsed = 0 THEN 0 ELSE Div(deeper, period)
    BY DEF Depleting
  <2>2. old.integ \in Int
    <3>1. old.integ \in 0..(97 * One)
      BY DEF Loads, LoadStates
    <3> QED BY <3>1
  <2>3. deeper \in Int
    <3> DEFINE depth == Depletion(in.bat)
    <3>1. depth \in Int
      <4> HIDE DEF depth
      <4> QED BY <1>9 DEF depth
    <3> HIDE DEF depth
    <3>2. depth - old.integ \in Int
      BY <2>2, <3>1
    <3> QED BY <3>2 DEF depth
  <2>4. period \in Nat \ {0}
    BY <1>2
  <2> HIDE DEF deeper, period, depleting
  <2>5. Div(deeper, period) \in Int
    BY <2>3, <2>4, FracInt
  <2> QED BY <2>1, <2>5
<1> HIDE DEF depleting
<1>14. damping \in Nat
  BY <1>4, <1>5, <1>6, <1>13, DampingNat
<1> HIDE DEF damping
<1>15. rate \in Int
  <2>1. start \in Int
    <3>1. Mul(force, dt) \in Int
      <4>1. dt \in Int
        BY <1>12
      <4> QED BY <1>11, <4>1, MulInt
    <3> QED BY <1>6, <3>1
  <2>2. slow \in Nat \ {0}
    <3>1. Mul(damping, dt) \in Nat
      BY <1>12, <1>14, MulNat
    <3> QED BY <1>2, <3>1
  <2> HIDE DEF start, slow
  <2> QED BY <2>1, <2>2, FracInt
<1> HIDE DEF rate
<1>16. psi \in Int
  <2>1. Mul(rate, dt) \in Int
    <3>1. dt \in Int
      BY <1>12
    <3> QED BY <1>15, <3>1, MulInt
  <2> QED BY <1>6, <2>1
<1> HIDE DEF psi
<1>17. seen \in Loads
  <2> DEFINE depth == Depletion(in.bat)
  <2> HIDE DEF depth
  <2>1. depth \in 0..(97 * One)
    BY <1>9 DEF depth
  <2>2. [old EXCEPT !.integ = depth, !.fresh = FALSE] \in Loads
    BY ONLY old \in Loads, <2>1, SeenLoad
  <2> QED BY <2>2 DEF depth
<1>18. ended \in Loads
  <2>1. 0 \in 0..(500 * One) /\ 0 \in Int
    BY <1>2
  <2> HIDE DEF seen
  <2>2. [seen EXCEPT !.psi = 0, !.rate = 0] \in Loads
    BY ONLY <1>17, <2>1, MovedLoad
  <2> QED BY <2>2
<1>19. moved \in Loads
  <2> DEFINE value == Clamp(psi, 0, most)
             speed == IF psi \in 0..most THEN rate ELSE 0
  <2>1. value \in 0..most
    BY <1>2, <1>16 DEF Clamp
  <2>2. speed \in Int
    BY <1>15
  <2> HIDE DEF seen, value, speed
  <2>3. value \in 0..(500 * One)
    BY <2>1
  <2>4. [seen EXCEPT !.psi = value, !.rate = speed] \in Loads
    BY ONLY <1>17, <2>2, <2>3, MovedLoad
  <2> QED BY <2>4 DEF value, speed
<1> HIDE DEF ended, moved
<1> QED BY <1>1, <1>18, <1>19

\* The demand stays between nothing and 500 with a rate that is a number, what was added
\* to it within what an empty battery adds, and the governor never sleeps longer than the
\* maximum: whatever is read, and however late the runs are (cpu.c:17-186, gov.c:178-241).
DemandHeld ==
  load \in Loads /\ ref \in 0..(500 * One) /\ wake \in Nat /\ wake <= MaxPoll

LEMMA RunHeld ==
  ASSUME TypeOK, DemandHeld, NEW in \in Readings \cup Steady, NEW elapsed \in Nat,
         NEW remap \in BOOLEAN, Run(in, elapsed, remap)
  PROVE  TypeOK' /\ DemandHeld'
<1>1. TypeOK' /\ wake' \in Nat
  BY RunTicks, TypeStep
<1>2. load' \in Loads
  <2>1. load' = Demanded(load, in, (elapsed * One) \div 1000, Cfg)
    BY DEF Run
  <2>2. (elapsed * One) \div 1000 \in Int
    BY OneAssumption
  <2>3. load \in Loads /\ in \in Measures /\ RootFits(in.vel)
    BY ReadingMeasures DEF DemandHeld
  <2> QED BY <2>1, <2>2, <2>3, DemandedHeld
<1>3. ref' \in 0..(500 * One)
  <2>1. ref' = load'.psi \/ ref' = ref
    BY DEF Run, Reference
  <2>2. load'.psi \in 0..(500 * One)
    BY <1>2 DEF Loads, LoadStates
  <2> QED BY <2>1, <2>2 DEF DemandHeld
<1>4. wake' <= MaxPoll
  <2>1. last_wait' \in Nat /\ last_wait' <= MaxPoll /\ TransPoll \in Nat /\ MaxPoll \in Nat
    BY <1>1, Positive, WakeAssumption DEF TypeOK
  <2>2. wake' = IF Moves(load', ref, Cfg) /\ last_wait' > TransPoll THEN TransPoll ELSE last_wait'
    BY DEF Run, Wake
  <2> HIDE DEF TypeOK
  <2> QED BY <2>1, <2>2
<1> QED BY <1>1, <1>2, <1>3, <1>4 DEF DemandHeld

THEOREM DemandHeldHolds == PacingSpec => []DemandHeld
<1> DEFINE Inv == TypeOK /\ DemandHeld /\ settled \subseteq Readings \cup Steady
<1>1. PacingInit => Inv
  <2> SUFFICES ASSUME PacingInit PROVE Inv
    OBVIOUS
  <2>1. TypeOK
    <3>1. cur_ivl \in MinPoll..MaxPoll /\ last_wait \in MinPoll..MaxPoll /\ over \in Int
      BY Positive DEF PacingInit, Init
    <3>2. calm \in BOOLEAN
      BY DEF PacingInit, Init
    <3> QED BY <3>1, <3>2 DEF TypeOK
  <2>2. load \in Loads
    <3>1. 0 \in 0..(500 * One) /\ 0 \in 0..(97 * One)
      BY OneAssumption
    <3> QED BY <3>1 DEF PacingInit, Empty, Loads, LoadStates
  <2>3. ref \in 0..(500 * One)
    BY OneAssumption DEF PacingInit
  <2>4. wake \in Nat /\ wake <= MaxPoll
    BY Positive DEF PacingInit
  <2> QED BY <2>1, <2>2, <2>3, <2>4 DEF DemandHeld, PacingInit
<1>2. Inv /\ [PacingNext]_pacingVars => Inv'
  <2> SUFFICES ASSUME Inv, [PacingNext]_pacingVars PROVE Inv'
    OBVIOUS
  <2>1. ASSUME NEW reading \in Readings, AnyRun(reading) PROVE Inv'
    <3>1. PICK elapsed \in {0} \cup {wake + late : late \in Lateness}, remap \in BOOLEAN :
            Run(reading, elapsed, remap)
      BY <2>1 DEF AnyRun
    <3>2. elapsed \in Nat
      BY <3>1, WakeAssumption DEF DemandHeld
    <3>3. TypeOK' /\ DemandHeld'
      BY <3>1, <3>2, RunHeld
    <3>4. settled' = settled
      BY <2>1 DEF AnyRun
    <3> QED BY <3>3, <3>4
  <2>2. ASSUME NEW reading \in Steady, Settle(reading) PROVE Inv'
    <3>1. UNCHANGED <<load, ref, wake>> /\ settled' = {reading}
      BY <2>2 DEF Settle
    <3>2. TypeOK'
      BY <2>2 DEF Settle, vars, TypeOK
    <3>3. DemandHeld'
      BY <3>1 DEF DemandHeld
    <3> QED BY <3>1, <3>2, <3>3
  <2>3. CASE SteadyRun
    <3>1. PICK reading \in settled, remap \in BOOLEAN : Run(reading, wake, remap)
      BY <2>3 DEF SteadyRun
    <3>2. reading \in Readings \cup Steady /\ wake \in Nat
      BY <3>1 DEF DemandHeld
    <3>3. TypeOK' /\ DemandHeld'
      BY <3>1, <3>2, RunHeld
    <3>4. settled' = settled
      BY <2>3 DEF SteadyRun
    <3> QED BY <3>3, <3>4
  <2>4. CASE UNCHANGED pacingVars
    <3>1. UNCHANGED vars /\ UNCHANGED <<load, ref, wake, settled>>
      BY <2>4 DEF pacingVars
    <3>2. TypeOK'
      BY <3>1 DEF vars, TypeOK
    <3>3. DemandHeld'
      BY <3>1 DEF DemandHeld
    <3> QED BY <3>1, <3>2, <3>3
  <2> QED BY <2>1, <2>2, <2>3, <2>4 DEF PacingNext
<1> QED BY <1>1, <1>2, PTL DEF PacingSpec
=============================================================================
