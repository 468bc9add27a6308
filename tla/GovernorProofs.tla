---------------------------- MODULE GovernorProofs ----------------------------
(***************************************************************************)
(* First what pg_epoll_run() guarantees for every handler, every set of    *)
(* trigger descriptors, every wake-up and every number of EINTRs.  Then    *)
(* that the governor is such a handler, and what it adds: for all          *)
(* thresholds, delays and run times.                                       *)
(***************************************************************************)
EXTENDS Governor, FiniteSetTheorems, TLAPS

Running == {"head", "wait", "dispatch", "run"}
Reports(e) == \E i \in 1..Len(batch) : batch[i] = e

\* Before epoll_setup() nothing has been waited for and nothing is registered.
Fresh ==
  phase = "setup" => ~shutdown /\ asleep = 0 /\ nextWake = planned

\* The loop condition and the guard of handle_trigger_event().
NotStopping == phase \in {"wait", "run"} => ~shutdown

\* A reported signal is still there to be read, and reported once.
SignalUnread ==
  /\ Reports(SigFd) => signal
  /\ \A i, j \in 1..Len(batch) : batch[i] = SigFd /\ batch[j] = SigFd => i = j

\* A batch that has not run the handler yet holds an event that will stop the
\* reactor or run it: no epoll_wait() returns to the next one for nothing.
BatchUseful ==
  phase = "dispatch" /\ ~shutdown =>
    \/ Reports(SigFd)
    \/ trg # NoFd /\ Reports(trg)
    \/ asleep = 0 /\ nextWake = planned

ReactorInv ==
  /\ TypeOK
  /\ Fresh
  /\ NotStopping
  /\ SignalUnread
  /\ BatchUseful
  /\ DeadlineKept
  /\ TriggerWatched

-----------------------------------------------------------------------------
(* The time epoll_error() and pg_gov_process() measure *)

LEMMA DivType ==
  ASSUME NEW a \in Int, NEW k \in Nat \ {0}
  PROVE  a \div k \in Int /\ (a >= 0 => a \div k \in Nat)
OBVIOUS

LEMMA DivBounds ==
  ASSUME NEW a \in Int, NEW k \in Nat \ {0}
  PROVE  k * (a \div k) <= a /\ a < k * (a \div k) + k
OBVIOUS

\* Products keep an order.
LEMMA TimesOrder ==
  ASSUME NEW a \in Int, NEW b \in Int, NEW k \in Nat, a <= b
  PROVE  a * k <= b * k /\ a * k \in Int /\ b * k \in Int
<1>1. (b - a) * k >= 0
  OBVIOUS
<1>2. (b - a) * k = b * k - a * k /\ a * k \in Int /\ b * k \in Int
  OBVIOUS
<1> QED BY <1>1, <1>2

\* A whole number that k times over stays below a is no greater than the quotient.
LEMMA QuotientGreatest ==
  ASSUME NEW a \in Int, NEW k \in Nat \ {0}, NEW q \in Int, q * k <= a
  PROVE  q <= a \div k
<1> DEFINE p == a \div k
<1>1. p \in Int /\ a < k * p + k
  BY DivType, DivBounds
<1> HIDE DEF p
<1>2. ASSUME p + 1 <= q PROVE FALSE
  <2>1. (p + 1) * k <= q * k
    BY <1>1, <1>2, TimesOrder
  <2>2. (p + 1) * k = k * p + k /\ k * p \in Int /\ q * k \in Int
    BY <1>1
  <2> QED BY <1>1, <2>1, <2>2
<1> QED BY <1>1, <1>2 DEF p

\* Rounding t steps to a number q of w-ths of h milliseconds of s steps, up or down,
\* and q down to m milliseconds.
LEMMA TwiceRounded ==
  ASSUME NEW s \in Nat \ {0}, NEW h \in Nat \ {0}, NEW w \in Nat \ {0},
         NEW t \in Nat, NEW q \in Int, NEW m \in Int,
         (h * s) * q <= t * w + h * s - 1, t * w < (h * s) * q + h * s,
         w * m <= q * h, q * h < w * m + w
  PROVE  /\ m * s - t <= (h * s - 1) \div w
         /\ t - m * s <= ((w - 1) * s + h * s - 1) \div w
<1> DEFINE hs == h * s
           tw == t * w
           ms == m * s
           qh == q * h
           wm == w * m
<1>1. hs \in Nat \ {0} /\ tw \in Int /\ ms \in Int /\ qh \in Int /\ wm \in Int /\ (w - 1) * s \in Int
  OBVIOUS
<1>2. qh * s = hs * q /\ wm * s = ms * w /\ (wm + w - 1) * s = ms * w + (w - 1) * s
  OBVIOUS
<1>3. (ms - t) * w = ms * w - tw /\ (t - ms) * w = tw - ms * w /\ ms * w \in Int /\ hs * q \in Int
  OBVIOUS
<1>4. hs * q <= tw + hs - 1 /\ tw < hs * q + hs /\ wm <= qh /\ qh <= wm + w - 1
  <2>1. qh < wm + w
    OBVIOUS
  <2> QED BY <1>1, <2>1
<1> HIDE DEF hs, tw, ms, qh, wm
<1>5. ms * w <= hs * q
  BY <1>1, <1>2, <1>4, TimesOrder
<1>6. hs * q <= ms * w + (w - 1) * s
  <2>1. wm + w - 1 \in Int
    BY <1>1
  <2>2. qh * s <= (wm + w - 1) * s
    BY <1>1, <1>4, <2>1, TimesOrder
  <2> QED BY <1>2, <2>2
<1>7. (ms - t) * w <= hs - 1
  BY <1>1, <1>3, <1>4, <1>5
<1>8. (t - ms) * w <= (w - 1) * s + hs - 1
  BY <1>1, <1>3, <1>4, <1>6
<1>9. ms - t <= (hs - 1) \div w
  BY <1>1, <1>7, QuotientGreatest
<1>10. t - ms <= ((w - 1) * s + hs - 1) \div w
  BY <1>1, <1>8, QuotientGreatest
<1> QED BY <1>9, <1>10 DEF hs, ms

\* A measured time is off by what MaxMissed and MaxAdded say, either way.
LEMMA MeasuredWithin ==
  ASSUME NEW t \in Nat, NEW m \in Measured(t)
  PROVE  m \in Nat /\ Steps(m) - t <= MaxAdded /\ t - Steps(m) <= MaxMissed
<1> DEFINE w == 65536
           h == 1000
           s == StepsPerMs
           up == (t * w + h * s - 1) \div (h * s)
           down == (t * w) \div (h * s)
<1>1. s \in Nat \ {0} /\ w \in Nat \ {0} /\ h \in Nat \ {0}
  BY WakeAssumption
<1>2. \E q \in {down, up} : m = (q * h) \div w
  BY DEF Measured, WholeMs, Second, Steps
<1>3. MaxAdded = (h * s - 1) \div w /\ MaxMissed = ((w - 1) * s + h * s - 1) \div w
  BY DEF MaxAdded, MaxMissed, Second, Steps
<1>4. Steps(m) = m * s
  BY DEF Steps
<1> HIDE DEF w, h, s
<1>5. h * s \in Nat \ {0} /\ t * w \in Nat
  BY <1>1
<1>6. ASSUME NEW q \in {down, up}
      PROVE  q \in Nat /\ (h * s) * q <= t * w + h * s - 1 /\ t * w < (h * s) * q + h * s
  <2> DEFINE hs == h * s
             tw == t * w
  <2>1. hs \in Nat \ {0} /\ tw \in Nat
    BY <1>5
  <2>2. q \in {tw \div hs, (tw + hs - 1) \div hs}
    BY <1>6
  <2> HIDE DEF hs, tw
  <2>3. tw + hs - 1 \in Nat
    BY <2>1
  <2>4. CASE q = tw \div hs
    <3>1. q \in Nat /\ hs * q <= tw /\ tw < hs * q + hs
      BY <2>1, <2>4, DivType, DivBounds
    <3> QED BY <2>1, <3>1 DEF hs, tw
  <2>5. CASE q = (tw + hs - 1) \div hs
    <3>1. q \in Nat /\ hs * q <= tw + hs - 1 /\ tw + hs - 1 < hs * q + hs
      BY <2>1, <2>3, <2>5, DivType, DivBounds
    <3>2. hs * q \in Int
      BY <2>1, <3>1
    <3>3. tw < hs * q + hs
      BY <2>1, <3>1, <3>2
    <3> QED BY <3>1, <3>3 DEF hs, tw
  <2> QED BY <2>2, <2>4, <2>5
<1>7. PICK q \in {down, up} : m = (q * h) \div w
  BY <1>2
<1>8. q \in Nat /\ (h * s) * q <= t * w + h * s - 1 /\ t * w < (h * s) * q + h * s
  BY <1>6
<1>9. q * h \in Nat
  BY <1>1, <1>8
<1>10. m \in Nat /\ w * m <= q * h /\ q * h < w * m + w
  BY <1>1, <1>7, <1>9, DivType, DivBounds
<1> HIDE DEF up, down
<1>11. /\ m * s - t <= (h * s - 1) \div w
       /\ t - m * s <= ((w - 1) * s + h * s - 1) \div w
  BY <1>1, <1>8, <1>10, TwiceRounded
<1> QED BY <1>3, <1>4, <1>10, <1>11

LEMMA RoundingType ==
  /\ MaxAdded \in Nat /\ MaxMissed \in Nat
  /\ StepsPerMs \in Nat \ {0} /\ StepsPerMs <= MaxMissed
<1> DEFINE w == 65536
           s == StepsPerMs
           d == 1000 * s
<1>1. s \in Nat \ {0} /\ w \in Nat \ {0}
  BY WakeAssumption
<1>2. d \in Nat /\ d >= s + 1
  BY <1>1
<1>3. MaxAdded = (d - 1) \div w /\ MaxMissed = ((w - 1) * s + d - 1) \div w
  BY DEF MaxAdded, MaxMissed, Second, Steps
<1> HIDE DEF w, s, d
<1>4. (w - 1) * s = w * s - s /\ w * s \in Nat /\ w * s >= s /\ s * w = w * s
  BY <1>1
<1>5. d - 1 \in Nat /\ (w - 1) * s + d - 1 \in Nat /\ s * w <= (w - 1) * s + d - 1
  BY <1>1, <1>2, <1>4
<1>6. (d - 1) \div w \in Nat /\ ((w - 1) * s + d - 1) \div w \in Nat
  BY <1>1, <1>5, DivType
<1>7. s <= ((w - 1) * s + d - 1) \div w
  BY <1>1, <1>5, QuotientGreatest
<1> QED BY <1>1, <1>3, <1>6, <1>7 DEF s

\* Steps of milliseconds add up.
LEMMA StepsLinear ==
  ASSUME NEW a \in Int, NEW b \in Int
  PROVE  /\ Steps(a) \in Int /\ Steps(b) \in Int
         /\ Steps(a - b) = Steps(a) - Steps(b)
         /\ Steps(1) = StepsPerMs
         /\ a <= b => Steps(a) <= Steps(b)
<1>1. StepsPerMs \in Nat
  BY WakeAssumption
<1>2. (a - b) * StepsPerMs = a * StepsPerMs - b * StepsPerMs
      /\ a * StepsPerMs \in Int /\ b * StepsPerMs \in Int /\ 1 * StepsPerMs = StepsPerMs
  BY <1>1
<1>3. a <= b => a * StepsPerMs <= b * StepsPerMs
  BY <1>1, TimesOrder
<1> QED BY <1>2, <1>3 DEF Steps

\* A whole number of roundings.
LEMMA RoundingsType ==
  ASSUME NEW n \in Nat
  PROVE  /\ n * MaxAdded \in Nat /\ (n + 1) * MaxAdded = n * MaxAdded + MaxAdded
         /\ n * MaxMissed \in Nat /\ (n + 1) * MaxMissed = n * MaxMissed + MaxMissed
<1>1. MaxAdded \in Nat /\ MaxMissed \in Nat
  BY RoundingType
<1> QED BY <1>1

-----------------------------------------------------------------------------
\* What epoll_error() leaves of next_wake is again a wake-up.
LEMMA RemainingType ==
  ASSUME NEW w \in Wakes, NEW s \in Nat
  PROVE  /\ Remaining(w, s) \in Wakes
         /\ Remaining(w, s) = Forever <=> w = Forever
         /\ w # Forever =>
              \/ Remaining(w, s) = w - s
              \/ Remaining(w, s) = 1 /\ s >= w
BY WakeAssumption DEF Remaining, Wakes, Forever

\* Before any EINTR the timeout is due when the handler asked for it.
LEMMA DueFresh ==
  ASSUME NEW plan \in Int, NEW n \in Nat
  PROVE  /\ 0 + Steps(plan) >= Steps(plan) - n * MaxAdded
         /\ 0 + Steps(plan) <= Steps(plan) + n * MaxMissed
<1>1. n * MaxAdded \in Nat /\ n * MaxMissed \in Nat
  BY RoundingsType
<1>2. Steps(plan) \in Int
  BY StepsLinear
<1> QED BY <1>1, <1>2

\* What an EINTR after t more steps does to the time at which the timeout is due.
LEMMA DueInterrupted ==
  ASSUME NEW before \in Int, NEW wake \in Nat \ {0}, NEW plan \in Int, NEW n \in Nat,
         NEW t \in Nat, NEW e \in Measured(t), NEW left, left = Remaining(wake, e),
         before + Steps(wake) >= Steps(plan) - n * MaxAdded,
         \/ before + Steps(wake) <= Steps(plan) + n * MaxMissed
         \/ wake = 1 /\ before >= Steps(plan) - n * MaxAdded
  PROVE  /\ before + t + Steps(left) >= Steps(plan) - (n + 1) * MaxAdded
         /\ \/ before + t + Steps(left) <= Steps(plan) + (n + 1) * MaxMissed
            \/ left = 1 /\ before + t >= Steps(plan) - (n + 1) * MaxAdded
<1>1. e \in Nat /\ Steps(e) - t <= MaxAdded /\ t - Steps(e) <= MaxMissed
  BY MeasuredWithin
<1>2. /\ MaxAdded \in Nat /\ MaxMissed \in Nat
      /\ Steps(wake) \in Int /\ Steps(e) \in Int /\ Steps(plan) \in Int
      /\ Steps(wake - e) = Steps(wake) - Steps(e)
      /\ wake <= e => Steps(wake) <= Steps(e)
      /\ Steps(1) \in Nat
  <2>1. wake \in Int /\ e \in Int
    BY <1>1
  <2>2. /\ Steps(wake) \in Int /\ Steps(e) \in Int /\ Steps(wake - e) = Steps(wake) - Steps(e)
        /\ wake <= e => Steps(wake) <= Steps(e)
    BY <2>1, StepsLinear
  <2>3. Steps(plan) \in Int /\ Steps(1) = StepsPerMs
    BY StepsLinear
  <2> QED BY <2>2, <2>3, RoundingType
<1> DEFINE a == n * MaxAdded
           l == n * MaxMissed
<1>3. /\ a \in Nat /\ (n + 1) * MaxAdded = a + MaxAdded
      /\ l \in Nat /\ (n + 1) * MaxMissed = l + MaxMissed
  BY RoundingsType
<1> HIDE DEF a, l
<1>4. /\ before + Steps(wake) >= Steps(plan) - a
      /\ \/ before + Steps(wake) <= Steps(plan) + l
         \/ wake = 1 /\ before >= Steps(plan) - a
  BY DEF a, l
<1>5. CASE wake - e < 1
  <2>1. left = 1 /\ wake <= e
    BY <1>1, <1>5 DEF Remaining, Forever
  <2>2. before + t >= Steps(plan) - (a + MaxAdded)
    BY <1>1, <1>2, <1>3, <1>4, <2>1
  <2> QED BY <1>2, <1>3, <2>1, <2>2
<1>6. CASE ~(wake - e < 1)
  <2>1. left = wake - e /\ Steps(left) = Steps(wake) - Steps(e)
    BY <1>1, <1>2, <1>6 DEF Remaining, Forever
  <2>2. before + t + Steps(left) >= Steps(plan) - (a + MaxAdded)
    BY <1>1, <1>2, <1>3, <1>4, <2>1
  <2>3. CASE before + Steps(wake) <= Steps(plan) + l
    <3>1. before + t + Steps(left) <= Steps(plan) + (l + MaxMissed)
      BY <1>1, <1>2, <1>3, <2>1, <2>3
    <3> QED BY <1>3, <2>2, <3>1
  <2>4. CASE wake = 1 /\ before >= Steps(plan) - a
    <3>1. left = 1
      BY <1>1, <1>6, <2>1, <2>4
    <3>2. before + t >= Steps(plan) - (a + MaxAdded)
      BY <1>2, <1>3, <2>4
    <3> QED BY <1>3, <2>2, <3>1, <3>2
  <2> QED BY <1>4, <2>3, <2>4
<1> QED BY <1>5, <1>6

\* Nor does it move the timeout past a limit by more than it fails to measure.
LEMMA LateInterrupted ==
  ASSUME NEW before \in Int, NEW wake \in Nat \ {0}, NEW limit \in Int,
         NEW t \in Nat, NEW e \in Measured(t), NEW left, left = Remaining(wake, e),
         before + Steps(wake) <= limit, before + t <= limit
  PROVE  before + t + Steps(left) <= limit + MaxMissed
<1>1. e \in Nat /\ t - Steps(e) <= MaxMissed
  BY MeasuredWithin
<1>2. /\ MaxMissed \in Nat /\ Steps(wake) \in Int /\ Steps(e) \in Int
      /\ Steps(wake - e) = Steps(wake) - Steps(e)
      /\ Steps(1) \in Nat /\ Steps(1) <= MaxMissed
  <2>1. wake \in Int /\ e \in Int
    BY <1>1
  <2>2. /\ Steps(wake) \in Int /\ Steps(e) \in Int /\ Steps(wake - e) = Steps(wake) - Steps(e)
        /\ Steps(1) = StepsPerMs
    BY <2>1, StepsLinear
  <2> QED BY <2>2, RoundingType
<1>3. left = wake - e \/ left = 1
  BY <1>1 DEF Remaining, Forever
<1> QED BY <1>1, <1>2, <1>3

\* What epoll_wait() may report: each ready descriptor, once.
LEMMA OrdersType ==
  ASSUME NEW S \in SUBSET (Fds \cup {SigFd}), NEW b \in Orders(S)
  PROVE  /\ b \in Seq(Fds \cup {SigFd})
         /\ \A i \in 1..Len(b) : b[i] \in S
         /\ \A i, j \in 1..Len(b) : b[i] = b[j] => i = j
         /\ \A e \in S : \E i \in 1..Len(b) : b[i] = e
<1>1. IsFiniteSet(Fds \cup {SigFd})
  BY FdAssumption, FS_Singleton, FS_Union
<1>2. Cardinality(S) \in Nat
  BY <1>1, FS_Subset, FS_CardinalityType
<1> DEFINE n == Cardinality(S)
<1>3. /\ b \in [1..n -> S]
      /\ \A i, j \in 1..n : b[i] = b[j] => i = j
      /\ \A e \in S : \E i \in 1..n : b[i] = e
  BY DEF Orders
<1> HIDE DEF n
<1>4. n \in Nat
  BY <1>2 DEF n
<1>5. b \in Seq(S) /\ Len(b) = n
  BY <1>3, <1>4
<1>6. b \in Seq(Fds \cup {SigFd})
  BY <1>3, <1>4
<1> QED BY <1>3, <1>5, <1>6

\* Taking the head off a batch loses no other event.
LEMMA TailReports ==
  ASSUME NEW b \in Seq(Fds \cup {SigFd}), b # <<>>
  PROVE  /\ Tail(b) \in Seq(Fds \cup {SigFd})
         /\ Head(b) \in Fds \cup {SigFd} /\ Head(b) = b[1]
         /\ Len(Tail(b)) = Len(b) - 1 /\ Len(b) \in Nat \ {0}
         /\ \A i \in 1..Len(Tail(b)) : Tail(b)[i] = b[i + 1]
OBVIOUS

LEMMA ReactorInvInit == Init => ReactorInv
<1> SUFFICES ASSUME Init PROVE ReactorInv
  OBVIOUS
<1>1. FirstWake \in Wakes
  BY WakeAssumption DEF Wakes
<1>2. batch \in Seq(Fds \cup {SigFd}) /\ Len(batch) = 0
  BY DEF Init
<1>3. TypeOK
  <2>1. opened \in SUBSET Fds
    BY FdAssumption DEF Init
  <2>2. intr \in 0..MaxIntr /\ slept \in Nat /\ asleep \in Nat
    BY WakeAssumption DEF Init
  <2>3. signal \in BOOLEAN /\ shutdown \in BOOLEAN
    BY DEF Init
  <2> QED
    BY <1>1, <1>2, <2>1, <2>2, <2>3 DEF Init, TypeOK
<1> QED
  BY <1>2, <1>3
     DEF Init, ReactorInv, Fresh, NotStopping, SignalUnread, Reports, BatchUseful,
         DeadlineKept, TriggerWatched

-----------------------------------------------------------------------------
(* Each group of actions keeps the invariant. *)

LEMMA SetupStep == ReactorInv /\ (SetupFails \/ SetupOk) => ReactorInv'
<1> SUFFICES ASSUME ReactorInv, SetupFails \/ SetupOk PROVE ReactorInv'
  OBVIOUS
<1> USE DEF ReactorInv
<1>1. TypeOK'
  BY DEF SetupFails, SetupOk, TypeOK, triggerVars, waitVars
<1>2. SignalUnread' /\ Fresh' /\ NotStopping' /\ BatchUseful'
  BY DEF SetupFails, SetupOk, triggerVars, waitVars, Fresh, NotStopping,
         SignalUnread, Reports, BatchUseful
<1>3. TriggerWatched'
  BY DEF SetupFails, SetupOk, triggerVars, TriggerWatched
<1>4. DeadlineKept'
  <2>1. phase = "setup" /\ asleep \in Nat /\ planned \in Int
        /\ UNCHANGED <<nextWake, planned, asleep, shutdown, slept>>
        /\ phase' \in {"failed", "head"}
    BY DEF SetupFails, SetupOk, triggerVars, waitVars, TypeOK, Wakes, Forever
  <2>2. intr \in Nat /\ intr' = intr /\ asleep = 0 /\ nextWake = planned
    BY <2>1, WakeAssumption DEF SetupFails, SetupOk, waitVars, TypeOK, Fresh
  <2> QED BY <2>1, <2>2, DueFresh DEF DeadlineKept
<1> QED BY <1>1, <1>2, <1>3, <1>4

LEMMA WaitStep ==
  ReactorInv /\ (EnterWait \/ Exit \/ Timeout \/ WaitError \/ BatchDone \/ Elapse)
    => ReactorInv'
<1> SUFFICES ASSUME ReactorInv,
                    EnterWait \/ Exit \/ Timeout \/ WaitError \/ BatchDone \/ Elapse
             PROVE ReactorInv'
  OBVIOUS
<1> USE DEF ReactorInv
<1>1. CASE EnterWait \/ Exit \/ Timeout \/ WaitError
  <2>1. TypeOK'
    <3>1. slept' \in Nat
      BY <1>1 DEF EnterWait, Exit, Timeout, WaitError, TypeOK, waitVars
    <3>2. registered' \in SUBSET Fds
      BY <1>1 DEF EnterWait, Exit, Timeout, WaitError, TypeOK, triggerVars
    <3>3. shutdown' \in BOOLEAN
      BY <1>1 DEF EnterWait, Exit, Timeout, WaitError, TypeOK
    <3>4. phase' \in {"wait", "done", "run", "head"}
      BY <1>1 DEF EnterWait, Exit, Timeout, WaitError
    <3>5. UNCHANGED <<batch, nextWake, trg, opened, fired, signal, planned, asleep, intr>>
      BY <1>1 DEF EnterWait, Exit, Timeout, WaitError, triggerVars, waitVars
    <3> QED BY <3>1, <3>2, <3>3, <3>4, <3>5 DEF TypeOK
  <2>2. SignalUnread' /\ Fresh' /\ BatchUseful' /\ NotStopping'
    BY <1>1 DEF EnterWait, Exit, Timeout, WaitError, triggerVars, waitVars, Fresh,
                NotStopping, SignalUnread, Reports, BatchUseful
  <2>3. TriggerWatched'
    BY <1>1 DEF EnterWait, Exit, Timeout, WaitError, triggerVars, TriggerWatched
  <2>4. DeadlineKept'
    BY <1>1 DEF EnterWait, Exit, Timeout, WaitError, triggerVars, waitVars, DeadlineKept,
                TypeOK
  <2> QED BY <2>1, <2>2, <2>3, <2>4
<1>2. CASE BatchDone
  <2>1. TypeOK' /\ SignalUnread' /\ Fresh' /\ NotStopping' /\ TriggerWatched'
    BY <1>2 DEF BatchDone, TypeOK, triggerVars, waitVars, Fresh, NotStopping,
                SignalUnread, Reports, TriggerWatched
  <2>2. shutdown \/ (asleep = 0 /\ nextWake = planned)
    BY <1>2 DEF BatchDone, BatchUseful, Reports
  <2> QED
    <3>1. DeadlineKept'
      <4>1. /\ UNCHANGED <<shutdown, nextWake, slept, planned, asleep, intr>> /\ phase' = "head"
            /\ planned \in Int /\ intr \in Nat
        BY <1>2, WakeAssumption DEF BatchDone, triggerVars, waitVars, TypeOK, Wakes, Forever
      <4> QED BY <2>2, <4>1, DueFresh DEF DeadlineKept
    <3>2. BatchUseful'
      BY <1>2 DEF BatchDone, BatchUseful
    <3> QED BY <2>1, <3>1, <3>2
<1>3. CASE Elapse
  <2>1. TypeOK' /\ SignalUnread' /\ Fresh' /\ NotStopping' /\ TriggerWatched' /\ BatchUseful'
    BY <1>3 DEF Elapse, TypeOK, triggerVars, Fresh, NotStopping,
                SignalUnread, Reports, TriggerWatched, BatchUseful
  <2> QED
    <3>1. /\ phase = "wait" /\ phase' = "wait" /\ asleep' - slept' = asleep - slept
          /\ UNCHANGED <<shutdown, nextWake, planned, intr>>
      BY <1>3 DEF Elapse, triggerVars, TypeOK
    <3>2. DeadlineKept'
      <4>1. slept \in Nat /\ asleep \in Nat /\ slept' = slept + 1 /\ asleep' = asleep + 1
        BY <1>3 DEF Elapse, TypeOK
      <4> DEFINE asked == Steps(planned) - intr * MaxAdded
                 latest == Steps(planned) + intr * MaxMissed
      <4>2. nextWake # Forever /\ ~shutdown =>
              /\ (asleep - slept) + Steps(nextWake) >= asked
              /\ \/ (asleep - slept) + Steps(nextWake) <= latest
                 \/ nextWake = 1 /\ asleep - slept >= asked
        BY <3>1 DEF DeadlineKept
      <4> QED BY <3>1, <4>2 DEF DeadlineKept
    <3> QED BY <2>1, <3>2
<1> QED BY <1>1, <1>2, <1>3

LEMMA InterruptedStep == ReactorInv /\ Interrupted => ReactorInv'
<1> SUFFICES ASSUME ReactorInv, Interrupted PROVE ReactorInv'
  OBVIOUS
<1> USE DEF ReactorInv
<1>1. PICK e \in Measured(slept) : nextWake' = Remaining(nextWake, e)
  BY DEF Interrupted
<1>2. /\ phase = "wait" /\ phase' = "head" /\ slept' = 0
      /\ intr' = intr + 1 /\ intr < MaxIntr
      /\ UNCHANGED <<batch, shutdown, trg, opened, registered, fired, signal, planned, asleep>>
  BY DEF Interrupted, triggerVars
<1>3. /\ nextWake \in Wakes /\ slept \in Nat /\ asleep \in Nat /\ intr \in Nat
      /\ planned \in Int /\ e \in Nat
  BY MeasuredWithin, WakeAssumption DEF TypeOK, Wakes, Forever
<1>4. nextWake' \in Wakes /\ (nextWake' = Forever <=> nextWake = Forever)
  BY <1>1, <1>3, RemainingType
<1>5. TypeOK'
  BY <1>2, <1>4, WakeAssumption DEF TypeOK
<1>6. DeadlineKept'
  <2> SUFFICES ASSUME ~shutdown, nextWake # Forever PROVE DeadlineKept'
    BY <1>2, <1>4 DEF DeadlineKept
  <2> DEFINE before == asleep - slept
  <2>1. nextWake \in Nat \ {0}
    BY <1>3, WakeAssumption DEF Wakes
  <2>2. before \in Int /\ before + slept = asleep
    BY <1>3
  <2>3. /\ before + Steps(nextWake) >= Steps(planned) - intr * MaxAdded
        /\ \/ before + Steps(nextWake) <= Steps(planned) + intr * MaxMissed
           \/ nextWake = 1 /\ before >= Steps(planned) - intr * MaxAdded
    BY <1>2 DEF DeadlineKept
  <2> HIDE DEF before
  <2>4. /\ before + slept + Steps(nextWake') >= Steps(planned) - (intr + 1) * MaxAdded
        /\ \/ before + slept + Steps(nextWake') <= Steps(planned) + (intr + 1) * MaxMissed
           \/ nextWake' = 1 /\ before + slept >= Steps(planned) - (intr + 1) * MaxAdded
    BY <1>1, <1>3, <2>1, <2>2, <2>3, DueInterrupted
  <2> QED BY <1>2, <2>2, <2>4 DEF DeadlineKept
<1> QED
  BY <1>2, <1>3, <1>5, <1>6 DEF Fresh, NotStopping, SignalUnread, Reports, BatchUseful,
                           TriggerWatched

LEMMA WaitReturnsStep == ReactorInv /\ WaitReturns => ReactorInv'
<1> SUFFICES ASSUME ReactorInv, WaitReturns PROVE ReactorInv'
  OBVIOUS
<1> USE DEF ReactorInv
<1>1. Ready \in SUBSET (Fds \cup {SigFd}) /\ Ready # {}
  BY DEF WaitReturns, Ready, TypeOK
<1>2. /\ batch' \in Seq(Fds \cup {SigFd})
      /\ \A i \in 1..Len(batch') : batch'[i] \in Ready
      /\ \A i, j \in 1..Len(batch') : batch'[i] = batch'[j] => i = j
      /\ \A e \in Ready : \E i \in 1..Len(batch') : batch'[i] = e
  BY <1>1, OrdersType DEF WaitReturns
<1>3. /\ phase = "wait" /\ phase' = "dispatch" /\ fired' = fired \ registered /\ slept' = 0
      /\ UNCHANGED <<shutdown, nextWake, trg, opened, registered, signal, planned, asleep, intr>>
  BY DEF WaitReturns
<1>4. TypeOK'
  BY <1>2, <1>3 DEF TypeOK
<1>5. (SigFd \in Ready <=> signal) /\ \A e \in Ready : e = SigFd \/ (e = trg /\ trg # NoFd)
  BY <1>3, FdAssumption DEF Ready, TypeOK, TriggerWatched
<1>6. SignalUnread'
  BY <1>2, <1>3, <1>5 DEF SignalUnread, Reports
<1>7. BatchUseful'
  BY <1>1, <1>2, <1>3, <1>5 DEF BatchUseful, Reports
<1> QED
  BY <1>3, <1>4, <1>6, <1>7 DEF Fresh, NotStopping, DeadlineKept, TriggerWatched

LEMMA DispatchStep == ReactorInv /\ (HandleSignal \/ HandleTrigger) => ReactorInv'
<1> SUFFICES ASSUME ReactorInv, HandleSignal \/ HandleTrigger PROVE ReactorInv'
  OBVIOUS
<1> USE DEF ReactorInv
<1>1. /\ batch \in Seq(Fds \cup {SigFd}) /\ batch # <<>> /\ phase = "dispatch"
      /\ batch' = Tail(batch)
      /\ UNCHANGED <<nextWake, trg, opened, registered, fired, slept, planned, asleep, intr>>
  BY DEF HandleSignal, HandleTrigger, TypeOK, triggerVars, waitVars
<1>2. /\ batch' \in Seq(Fds \cup {SigFd})
      /\ Head(batch) = batch[1]
      /\ Len(batch') = Len(batch) - 1 /\ Len(batch) \in Nat \ {0}
      /\ \A i \in 1..Len(batch') : batch'[i] = batch[i + 1]
  BY <1>1, TailReports
<1>3. \A i, j \in 1..Len(batch') : batch'[i] = SigFd /\ batch'[j] = SigFd => i = j
  <2> SUFFICES ASSUME NEW i \in 1..Len(batch'), NEW j \in 1..Len(batch'),
                      batch'[i] = SigFd, batch'[j] = SigFd
               PROVE  i = j
    OBVIOUS
  <2>1. i + 1 \in 1..Len(batch) /\ j + 1 \in 1..Len(batch)
    BY <1>2
  <2>2. i + 1 = j + 1
    BY <1>2, <2>1 DEF SignalUnread
  <2> QED BY <1>2, <2>2
<1>4. \A e : Reports(e)' => Reports(e)
  BY <1>2 DEF Reports
<1>5. \A e : Reports(e) => e = Head(batch) \/ Reports(e)'
  <2> SUFFICES ASSUME NEW e, NEW i \in 1..Len(batch), batch[i] = e, e # Head(batch)
               PROVE  Reports(e)'
    BY DEF Reports
  <2>1. i # 1 /\ i - 1 \in 1..Len(batch') /\ (i - 1) + 1 = i
    BY <1>2
  <2>2. batch'[i - 1] = e
    BY <1>2, <2>1
  <2> QED BY <2>1, <2>2 DEF Reports
<1>6. CASE HandleSignal
  <2>1. /\ phase' = "dispatch" /\ Head(batch) = SigFd
        /\ shutdown' = (shutdown \/ signal) /\ signal' = FALSE
    BY <1>6 DEF HandleSignal, Requested
  <2>2. Reports(SigFd) /\ signal
    BY <1>2, <2>1 DEF Reports, SignalUnread
  <2>3. ~Reports(SigFd)'
    <3> SUFFICES ASSUME NEW i \in 1..Len(batch'), batch'[i] = SigFd PROVE FALSE
      BY DEF Reports
    <3>1. i + 1 \in 1..Len(batch) /\ 1 \in 1..Len(batch) /\ i + 1 # 1
      BY <1>2
    <3> QED BY <1>2, <2>1, <3>1 DEF SignalUnread
  <2>4. shutdown' = TRUE
    BY <2>1, <2>2
  <2>5. TypeOK'
    BY <1>1, <1>2, <2>1, <2>4 DEF TypeOK
  <2> QED
    BY <1>1, <1>3, <2>1, <2>3, <2>4, <2>5
       DEF Fresh, NotStopping, SignalUnread, BatchUseful, DeadlineKept, TriggerWatched
<1>7. CASE HandleTrigger
  <2>1. /\ Head(batch) # SigFd
        /\ phase' = IF Head(batch) = trg /\ ~shutdown THEN "run" ELSE "dispatch"
        /\ shutdown' = shutdown /\ signal' = signal
    BY <1>7 DEF HandleTrigger, Runs
  <2>2. TypeOK'
    BY <1>1, <1>2, <2>1 DEF TypeOK
  <2>3. SignalUnread'
    BY <1>3, <1>4, <2>1 DEF SignalUnread
  <2>4. BatchUseful'
    BY <1>1, <1>5, <2>1 DEF BatchUseful
  <2> QED
    BY <1>1, <2>1, <2>2, <2>3, <2>4 DEF Fresh, NotStopping, DeadlineKept, TriggerWatched
<1> QED BY <1>6, <1>7

LEMMA HandlerInvStep == ReactorInv /\ (HandlerStep \/ HandlerReturns) => ReactorInv'
<1> SUFFICES ASSUME ReactorInv, HandlerStep \/ HandlerReturns PROVE ReactorInv'
  OBVIOUS
<1> USE DEF ReactorInv
<1>1. CASE HandlerReturns
  <2>1. TypeOK'
    BY <1>1, WakeAssumption DEF HandlerReturns, TypeOK, triggerVars
  <2> QED
    BY <1>1, <2>1 DEF HandlerReturns, Whole, triggerVars, Fresh, NotStopping, SignalUnread, Reports,
                      BatchUseful, DeadlineKept, TriggerWatched
<1>2. CASE HandlerStep
  <2>1. /\ phase = "run" /\ phase' = "run" /\ nextWake' \in Wakes
        /\ UNCHANGED <<batch, shutdown, signal, slept, planned, asleep, intr>>
    BY <1>2 DEF HandlerStep, waitVars
  <2>2. /\ trg' \in Fds \cup {NoFd} /\ opened' \in SUBSET Fds
        /\ registered' \in SUBSET Fds /\ fired' \in SUBSET Fds
    BY <1>2 DEF HandlerStep, TriggerStep, OpenTrigger, RegisterTrigger, RemoveTrigger,
                CloseTrigger, ClearTrigger, triggerVars, TypeOK
  <2>4. opened' \subseteq {trg'}
    BY <1>2 DEF HandlerStep
  <2>3. TypeOK'
    BY <2>1, <2>2 DEF TypeOK
  <2> QED
    BY <2>1, <2>3, <2>4 DEF Fresh, NotStopping, SignalUnread, Reports, BatchUseful,
                            DeadlineKept, TriggerWatched
<1> QED BY <1>1, <1>2

LEMMA EnvironmentStep == ReactorInv /\ (SignalArrives \/ PressureEdge) => ReactorInv'
<1> SUFFICES ASSUME ReactorInv, SignalArrives \/ PressureEdge PROVE ReactorInv'
  OBVIOUS
<1> USE DEF ReactorInv
<1>1. TypeOK'
  BY DEF SignalArrives, PressureEdge, TypeOK, triggerVars, waitVars
<1>2. SignalUnread' /\ Fresh' /\ NotStopping' /\ BatchUseful'
  BY DEF SignalArrives, PressureEdge, triggerVars, waitVars, Fresh, NotStopping,
         SignalUnread, Reports, BatchUseful
<1>3. DeadlineKept' /\ TriggerWatched'
  BY DEF SignalArrives, PressureEdge, triggerVars, waitVars, DeadlineKept, TriggerWatched
<1> QED BY <1>1, <1>2, <1>3

LEMMA ReactorInvStep == ReactorInv /\ [Next]_vars => ReactorInv'
<1> SUFFICES ASSUME ReactorInv, [Next]_vars PROVE ReactorInv'
  OBVIOUS
<1>1. CASE UNCHANGED vars
  BY <1>1 DEF vars, ReactorInv, TypeOK, Fresh, NotStopping, SignalUnread, Reports,
              BatchUseful, DeadlineKept, TriggerWatched
<1>2. CASE Next
  BY <1>2, SetupStep, WaitStep, InterruptedStep, WaitReturnsStep, DispatchStep,
     HandlerInvStep, EnvironmentStep DEF Next, Loop
<1> QED BY <1>1, <1>2

LEMMA ReactorInvariant == Spec => []ReactorInv
BY ReactorInvInit, ReactorInvStep, PTL DEF Spec

-----------------------------------------------------------------------------
\* The loop's state stays within its types: next_wake is -1 or a positive wake-up,
\* whatever EINTRs took from it.
THEOREM TypeCorrect == Spec => []TypeOK
BY ReactorInvariant, PTL DEF ReactorInv

\* Whatever the handler asks for, each EINTR moves the next timeout by less than what
\* rounding loses of the time it measures, and never before the time asked for by more
\* than rounding adds (epoll.c:17-37), for every length of the clock's step.
THEOREM DeadlineKeptHolds == Spec => []DeadlineKept
BY ReactorInvariant, PTL DEF ReactorInv

\* No run of the handler starts after a shutdown was requested.
THEOREM NoRunAfterShutdownHolds == Spec => NoRunAfterShutdown
<1>1. ReactorInv /\ [Next]_vars => [phase # "run" /\ phase' = "run" => ~shutdown]_vars
  <2> SUFFICES ASSUME ReactorInv, Next, phase # "run", phase' = "run" PROVE ~shutdown
    OBVIOUS
  <2>1. Timeout \/ HandleTrigger
    BY DEF Next, Loop, SetupOk, EnterWait, Exit, WaitReturns, HandleSignal, BatchDone,
           SetupFails, Interrupted, WaitError, HandlerStep, HandlerReturns, Elapse,
           SignalArrives, PressureEdge
  <2> QED
    BY <2>1 DEF Timeout, HandleTrigger, Runs, ReactorInv, NotStopping
<1> QED BY <1>1, ReactorInvariant, PTL DEF Spec, NoRunAfterShutdown

\* No timeout is early.
THEOREM NoEarlyTimeoutHolds == Spec => NoEarlyTimeout
<1>1. ReactorInv /\ [Next]_vars =>
        [phase = "wait" /\ phase' = "run" => asleep >= Steps(planned) - intr * MaxAdded]_vars
  <2> SUFFICES ASSUME ReactorInv, Next, phase = "wait", phase' = "run"
               PROVE  asleep >= Steps(planned) - intr * MaxAdded
    OBVIOUS
  <2>1. nextWake # Forever /\ slept >= Steps(nextWake)
    BY DEF Next, Loop, Timeout, HandleTrigger, SetupOk, EnterWait, Exit, WaitReturns,
           HandleSignal, BatchDone, SetupFails, Interrupted, WaitError, HandlerStep,
           HandlerReturns, Elapse, SignalArrives, PressureEdge
  <2>2. slept \in Nat /\ asleep \in Nat /\ nextWake \in Int /\ planned \in Int /\ ~shutdown
    BY DEF ReactorInv, TypeOK, NotStopping, Wakes, Forever
  <2>3. asleep - slept + Steps(nextWake) >= Steps(planned) - intr * MaxAdded
    BY <2>1, <2>2 DEF ReactorInv, DeadlineKept
  <2>4. Steps(nextWake) \in Int /\ Steps(planned) \in Int /\ intr * MaxAdded \in Int
    <3>1. intr \in Nat
      BY WakeAssumption DEF ReactorInv, TypeOK
    <3> QED BY <2>2, <3>1, StepsLinear, RoundingsType
  <2> QED BY <2>1, <2>2, <2>3, <2>4
<1> QED BY <1>1, ReactorInvariant, PTL DEF Spec, NoEarlyTimeout

-----------------------------------------------------------------------------
(* How late a timeout can be *)

\* Each EINTR costs at most what its measurement misses, the millisecond included that
\* the floor of epoll_error() grants when the wait was over already.
Overslept ==
  LET latest == Steps(planned) + MaxLate + intr * MaxMissed
  IN  /\ planned # Forever => asleep <= latest
      /\ /\ phase \in {"head", "wait"} /\ ~shutdown
         /\ planned # Forever /\ nextWake # Forever
         => (IF phase = "wait" THEN asleep - slept ELSE asleep) + Steps(nextWake) <= latest

LEMMA OversleptInit == Init => Overslept
<1> SUFFICES ASSUME Init PROVE Overslept
  OBVIOUS
<1>1. FirstWake \in Nat /\ MaxLate \in Nat /\ intr = 0 /\ 0 \in Nat
  BY WakeAssumption DEF Init
<1>2. Steps(FirstWake) \in Nat
  <2>1. Steps(0) = 0 /\ Steps(0) <= Steps(FirstWake) /\ Steps(FirstWake) \in Int
    BY <1>1, StepsLinear, RoundingType DEF Steps
  <2> QED BY <2>1
<1>3. intr * MaxMissed \in Nat
  BY <1>1, RoundingsType
<1> QED BY <1>1, <1>2, <1>3 DEF Init, Overslept

LEMMA OversleptStep == ReactorInv /\ Overslept /\ [Next]_vars => Overslept'
<1> SUFFICES ASSUME ReactorInv, Overslept, [Next]_vars PROVE Overslept'
  OBVIOUS
<1> DEFINE latest == Steps(planned) + MaxLate + intr * MaxMissed
<1>0. /\ slept \in Nat /\ asleep \in Nat /\ intr \in Nat /\ MaxLate \in Nat
      /\ planned \in Int /\ nextWake \in Int
      /\ (planned = Forever \/ planned >= 1) /\ (nextWake = Forever \/ nextWake >= 1)
  BY WakeAssumption DEF ReactorInv, TypeOK, Wakes, Forever
<1>10. /\ Steps(planned) \in Int /\ Steps(nextWake) \in Int /\ intr * MaxMissed \in Nat
       /\ latest \in Int /\ MaxMissed \in Nat
       /\ (intr + 1) * MaxMissed = intr * MaxMissed + MaxMissed
  <2>1. Steps(planned) \in Int /\ Steps(nextWake) \in Int
    BY <1>0, StepsLinear
  <2>2. /\ intr * MaxMissed \in Nat /\ MaxMissed \in Nat
        /\ (intr + 1) * MaxMissed = intr * MaxMissed + MaxMissed
    BY <1>0, RoundingsType, RoundingType
  <2> QED BY <1>0, <2>1, <2>2
<1>11. /\ planned # Forever => asleep <= latest
       /\ /\ phase \in {"head", "wait"} /\ ~shutdown
          /\ planned # Forever /\ nextWake # Forever
          => (IF phase = "wait" THEN asleep - slept ELSE asleep) + Steps(nextWake) <= latest
  BY DEF Overslept
<1>1. CASE SetupOk \/ SetupFails
  <2>1. phase = "setup" /\ phase' \in {"head", "failed"}
        /\ UNCHANGED <<shutdown, nextWake, slept, planned, asleep, intr>>
    BY <1>1 DEF SetupOk, SetupFails, triggerVars, waitVars
  <2>2. asleep = 0 /\ nextWake = planned
    BY <2>1 DEF ReactorInv, Fresh
  <2> QED BY <1>0, <1>10, <1>11, <2>1, <2>2 DEF Overslept
<1>2. CASE EnterWait
  <2>1. phase = "head" /\ phase' = "wait" /\ slept' = 0 /\ asleep' - slept' = asleep
        /\ UNCHANGED <<shutdown, nextWake, planned, asleep, intr>>
    BY <1>0, <1>2 DEF EnterWait, triggerVars
  <2> QED BY <1>11, <2>1 DEF Overslept
<1>3. CASE Exit \/ WaitReturns \/ Timeout \/ WaitError
  <2>1. UNCHANGED <<nextWake, planned, asleep, intr>>
        /\ (phase' \in {"done", "dispatch", "run"} \/ shutdown')
    BY <1>3 DEF Exit, WaitReturns, Timeout, WaitError, triggerVars, waitVars
  <2> QED BY <1>11, <2>1 DEF Overslept
<1>4. CASE HandleSignal \/ HandleTrigger \/ HandlerStep
  <2>1. UNCHANGED <<planned, asleep, intr>> /\ phase' \in {"dispatch", "run"}
    BY <1>4 DEF HandleSignal, HandleTrigger, HandlerStep, triggerVars, waitVars
  <2> QED BY <1>11, <2>1 DEF Overslept
<1>5. CASE BatchDone
  <2>1. UNCHANGED <<shutdown, nextWake, slept, planned, asleep, intr>> /\ phase' = "head"
    BY <1>5 DEF BatchDone, triggerVars, waitVars
  <2>2. shutdown \/ (asleep = 0 /\ nextWake = planned)
    BY <1>5 DEF BatchDone, ReactorInv, TypeOK, BatchUseful, Reports
  <2> QED BY <1>0, <1>10, <1>11, <2>1, <2>2 DEF Overslept
<1>6. CASE Interrupted
  <2>1. PICK e \in Measured(slept) : nextWake' = Remaining(nextWake, e)
    BY <1>6 DEF Interrupted
  <2>2. phase = "wait" /\ ~shutdown /\ phase' = "head" /\ slept' = 0 /\ intr' = intr + 1
        /\ UNCHANGED <<shutdown, planned, asleep>>
    BY <1>6 DEF Interrupted, triggerVars, ReactorInv, NotStopping
  <2>3. e \in Nat
    BY <1>0, MeasuredWithin
  <2>4. nextWake' = Forever <=> nextWake = Forever
    BY <2>1, <2>3, RemainingType DEF ReactorInv, TypeOK
  <2>5. planned # Forever => asleep <= latest + MaxMissed
    BY <1>0, <1>10, <1>11
  <2>6. planned # Forever /\ nextWake # Forever => asleep + Steps(nextWake') <= latest + MaxMissed
    <3> SUFFICES ASSUME planned # Forever, nextWake # Forever
                 PROVE  asleep + Steps(nextWake') <= latest + MaxMissed
      OBVIOUS
    <3> DEFINE before == asleep - slept
    <3>1. nextWake \in Nat \ {0} /\ before \in Int /\ before + slept = asleep
      BY <1>0
    <3>2. before + Steps(nextWake) <= latest /\ before + slept <= latest
      BY <1>11, <2>2, <3>1
    <3> HIDE DEF before
    <3>3. before + slept + Steps(nextWake') <= latest + MaxMissed
      BY <1>0, <1>10, <2>1, <3>1, <3>2, LateInterrupted
    <3> QED BY <3>1, <3>3
  <2>7. latest + MaxMissed = Steps(planned) + MaxLate + (intr + 1) * MaxMissed
    BY <1>0, <1>10
  <2> QED BY <2>2, <2>4, <2>5, <2>6, <2>7 DEF Overslept
<1>7. CASE HandlerReturns
  <2>1. phase' = "dispatch" /\ asleep' = 0 /\ intr' = 0 /\ planned' \in Wakes
    BY <1>7 DEF HandlerReturns
  <2>2. planned' # Forever => planned' \in Nat
    BY <2>1, WakeAssumption DEF Wakes
  <2>3. planned' # Forever => Steps(planned') >= 0 /\ Steps(planned') \in Int
    <3>1. Steps(0) = 0
      BY RoundingType DEF Steps
    <3> QED BY <2>2, <3>1, StepsLinear
  <2>4. 0 * MaxMissed = 0
    BY RoundingType
  <2> QED BY <1>0, <2>1, <2>3, <2>4 DEF Overslept
<1>8. CASE Elapse
  <2>1. phase = "wait" /\ phase' = "wait" /\ nextWake # Forever /\ ~shutdown
        /\ (slept < Steps(nextWake) \/ asleep < Steps(planned) + MaxLate)
        /\ slept' = slept + 1 /\ asleep' = asleep + 1
        /\ UNCHANGED <<shutdown, nextWake, planned, intr>>
    BY <1>8 DEF Elapse, triggerVars, ReactorInv, NotStopping
  <2>2. planned # Forever => asleep - slept + Steps(nextWake) <= latest
    BY <1>11, <2>1
  <2>3. planned # Forever => asleep' <= latest
    BY <1>0, <1>10, <2>1, <2>2
  <2>4. asleep' - slept' = asleep - slept
    BY <1>0, <2>1
  <2> QED BY <2>1, <2>2, <2>3, <2>4 DEF Overslept
<1>9. CASE SignalArrives \/ PressureEdge \/ UNCHANGED vars
  <2>1. UNCHANGED <<phase, shutdown, nextWake, slept, planned, asleep, intr>>
    BY <1>9 DEF SignalArrives, PressureEdge, triggerVars, waitVars, vars
  <2> QED BY <2>1 DEF Overslept
<1> QED
  BY <1>1, <1>2, <1>3, <1>4, <1>5, <1>6, <1>7, <1>8, <1>9 DEF Next, Loop

\* A wait outlives the wake-up asked for by the kernel's lateness and by what is missed
\* of the time before each EINTR, no more (epoll_error(), epoll.c:17-37).
THEOREM OversleptHolds == Spec => []Overslept
BY OversleptInit, OversleptStep, ReactorInvariant, PTL DEF Spec

-----------------------------------------------------------------------------
(* The governor is a handler of the reactor *)

\* A set of n elements has 2^n subsets, one of them empty.
LEMMA PowerPositive ==
  ASSUME NEW n \in Nat
  PROVE  2^n \in Nat \ {0}
<1>1. IsFiniteSet(1..n) /\ Cardinality(1..n) = n
  BY FS_Interval
<1>2. IsFiniteSet(SUBSET (1..n)) /\ Cardinality(SUBSET (1..n)) = 2^n
  BY <1>1, FS_SUBSET
<1>3. SUBSET (1..n) # {}
  OBVIOUS
<1> QED BY <1>2, <1>3, FS_EmptySet, FS_CardinalityType

\* The delay after failed reads is a wake-up: the shift never makes it zero or -1.
LEMMA PsiDelayWakes ==
  ASSUME NEW fails \in Nat \ {0}
  PROVE  PsiDelay(fails) \in 1..MaxWake
<1> DEFINE power == 2^(fails - 1)
<1>1. power \in Nat \ {0}
  BY PowerPositive
<1>2. PsiDelay(fails) = IF PsiBase * power \in 0..PsiCap THEN PsiBase * power ELSE PsiCap
  BY DEF PsiDelay
<1> HIDE DEF power
<1>3. PsiBase * power \in Nat \ {0}
  BY <1>1, PsiAssumption
<1>4. PsiCap \in 1..MaxWake /\ MaxWake \in Nat
  BY PsiAssumption, WakeAssumption
<1> QED BY <1>2, <1>3, <1>4

\* The wake-up left by a run is again one, however long the run took.
LEMMA AdjustedWakes ==
  ASSUME NEW wake \in Wakes, NEW took \in Nat
  PROVE  Adjusted(wake, took) \in Wakes
BY WakeAssumption DEF Adjusted, Wakes, Forever

\* What the steps between the first function and the return have in common.
LEMMA GotoHandles ==
  ASSUME NEW step, Goto(step), nextWake' \in Wakes,
         KeepTrigger \/ TriggerStep, opened' \subseteq {trg'}
  PROVE  Next
BY DEF Goto, KeepTrigger, Next, HandlerStep, triggerVars, waitVars

\* Where read_psi() and arm_trigger() leave the trigger between two of their calls.
TriggerInv ==
  phase = "run" =>
    /\ pc \in {"remove", "close"} => trg # NoFd /\ opened = {trg} /\ registered \subseteq {trg}
    /\ pc \in {"clear", "unset", "batunset"} => opened = {} /\ registered = {}
    /\ pc \in {"recov", "arm", "batarm"} => trg = NoFd /\ opened = {} /\ registered = {}
    /\ pc \in {"watch", "batwatch", "undo", "batundo"} =>
         trg # NoFd /\ opened = {trg} /\ registered = {}
    /\ pc \in {"idle", "disp", "doze", "suspend", "sweep", "psi", "bat", "therm", "gate", "map",
              "return"} => Whole

LEMMA GovernorStepImplements ==
  ReactorInv /\ GovernorTypeOK /\ TriggerInv /\ GovernorStep => Next
<1> SUFFICES ASSUME ReactorInv, GovernorTypeOK, TriggerInv, GovernorStep PROVE Next
  OBVIOUS
<1>0. nextWake \in Wakes /\ spent \in Nat /\ psiFails \in 0..PsiFailMax
  BY DEF GovernorTypeOK, TypeOK
<1>12. ASSUME NEW step, Goto(step), KeepTrigger, nextWake' \in Wakes PROVE Next
  <2>1. opened' \subseteq {trg'}
    BY <1>12 DEF KeepTrigger, ReactorInv, TriggerWatched
  <2> QED BY <1>12, <2>1, GotoHandles
<1>1. CASE SkipDisplay
  BY <1>0, <1>1, <1>12 DEF SkipDisplay
<1>2. ASSUME NEW r \in [Panels -> {"failed", "dark", "lit"}], ReadDisplay(r) PROVE Next
  BY <1>0, <1>2, <1>12 DEF ReadDisplay
<1>3. CASE Suspended
  BY <1>3, <1>12, PollAssumption, WakeAssumption DEF Suspended, Wakes
<1>4. ASSUME NEW d \in SweepTimes, Sweep(d) PROVE Next
  BY <1>0, <1>4, <1>12 DEF Sweep
<1>5. CASE Doze
  <2>1. nextWake' \in Wakes
    BY <1>5, PollAssumption, WakeAssumption DEF Doze, Wakes, Forever
  <2> QED BY <1>5, <2>1, <1>12 DEF Doze
<1>6. CASE ReadPsiOk \/ PollBattery \/ SkipThermal \/ ApplyMapping
  BY <1>0, <1>6, <1>12 DEF ReadPsiOk, PollBattery, SkipThermal, ApplyMapping
<1>7. CASE ReadPsiFail
  <2>1. psiFails' \in Nat \ {0}
    BY <1>0, <1>7, PsiAssumption DEF ReadPsiFail, FailsAfter
  <2>2. nextWake' \in Wakes
    BY <1>7, <2>1, PsiDelayWakes DEF ReadPsiFail, Wakes
  <2> QED BY <1>7, <2>2, <1>12 DEF ReadPsiFail
<1>8. ASSUME NEW ok \in BOOLEAN, PsiRecov(ok) \/ PollThermal(ok) PROVE Next
  BY <1>0, <1>8, <1>12 DEF PsiRecov, PollThermal
<1>9. CASE LoseTrigger
  <2>1. (KeepTrigger \/ TriggerStep) /\ opened' \subseteq {trg'} /\ phase = "run"
    BY <1>9 DEF LoseTrigger, Goto, TriggerStep, RemoveTrigger, CloseTrigger, ClearTrigger, KeepTrigger,
       TriggerInv, ReactorInv, TriggerWatched
  <2>2. nextWake' \in Wakes /\ \E step : Goto(step)
    BY <1>0, <1>9 DEF LoseTrigger, KeepRest
  <2> QED BY <2>1, <2>2, GotoHandles
<1>13. ASSUME NEW bat \in BOOLEAN, ArmTrigger(bat) PROVE Next
  <2>1. (KeepTrigger \/ TriggerStep) /\ opened' \subseteq {trg'} /\ phase = "run"
    BY <1>13 DEF ArmTrigger, Goto, TriggerStep, OpenTrigger, RegisterTrigger, CloseTrigger,
       ClearTrigger, KeepTrigger, TriggerInv, ReactorInv, TriggerWatched, Arm, Watch, Undo, Unset
  <2>2. nextWake' \in Wakes /\ \E step : Goto(step)
    BY <1>0, <1>13 DEF ArmTrigger, KeepRest
  <2> QED BY <2>1, <2>2, GotoHandles
<1>10. ASSUME NEW poll \in MinPoll..MaxPoll, NEW moving \in BOOLEAN, Gate(poll, moving)
       PROVE  Next
  <2>1. nextWake' \in Wakes
    BY <1>10, PollAssumption, WakeAssumption DEF Gate, Wakes
  <2> QED BY <1>10, <2>1, <1>12 DEF Gate
<1>11. ASSUME NEW calc \in CalcTimes, Return(calc) PROVE Next
  <2>1. nextWake' \in Wakes
    <3>1. spent + calc \in Nat
      BY <1>0, ThresholdAssumption
    <3>2. PICK took \in Measured(spent + calc) : nextWake' = Adjusted(nextWake, took)
      BY <1>11 DEF Return
    <3> QED BY <1>0, <3>1, <3>2, MeasuredWithin, AdjustedWakes
  <2>2. HandlerReturns
    BY <1>11, <2>1 DEF Return, HandlerReturns, TriggerInv, triggerVars
  <2> QED BY <2>2 DEF Next
<1> QED
  BY <1>1, <1>2, <1>3, <1>4, <1>5, <1>6, <1>7, <1>8, <1>9, <1>10, <1>11,
     <1>13 DEF GovernorStep

LEMMA StepImplements ==
  ReactorInv /\ GovernorTypeOK /\ TriggerInv /\ [GovernorNext]_governorVars => [Next]_vars
<1> SUFFICES ASSUME ReactorInv, GovernorTypeOK, TriggerInv, [GovernorNext]_governorVars
             PROVE  [Next]_vars
  OBVIOUS
<1>1. CASE ReactorStep
  BY <1>1 DEF ReactorStep, Next, Loop
<1>2. CASE GovernorStep
  BY <1>2, GovernorStepImplements
<1>3. CASE TimePasses
  BY <1>3 DEF TimePasses, Next
<1>4. CASE ReactorEnv
  BY <1>4 DEF ReactorEnv, Next
<1>5. CASE PanelTurns \/ KernelHeals \/ UNCHANGED governorVars
  BY <1>5 DEF PanelTurns, KernelHeals, governorVars
<1> QED BY <1>1, <1>2, <1>3, <1>4, <1>5 DEF GovernorNext

-----------------------------------------------------------------------------
(* The governor's own state *)

LEMMA CapType ==
  ASSUME NEW n \in Nat, NEW bound \in Nat
  PROVE  Cap(n, bound) \in 0..bound
BY DEF Cap

\* Ages and histories stay within the thresholds they are compared with.
LEMMA AdvanceType ==
  ASSUME GovernorTypeOK, NEW d \in Nat, Advance(d)
  PROVE  /\ ageDisp' \in 0..DispChk /\ ageOff' \in 0..(Grace + 1)
         /\ ageBat' \in 0..BatChk /\ ageTherm' \in 0..ThermChk
         /\ onSeen' \in 0..(Grace + 1) /\ litFor' \in 0..LitCap
<1>1. /\ ageDisp + d \in Nat /\ ageOff + d \in Nat /\ ageBat + d \in Nat
      /\ ageTherm + d \in Nat /\ onSeen + d \in Nat /\ litFor + d \in Nat
  BY ThresholdAssumption DEF GovernorTypeOK
<1>2. /\ DispChk \in Nat /\ Grace + 1 \in Nat /\ BatChk \in Nat /\ ThermChk \in Nat
      /\ LitCap \in Nat
  BY ThresholdAssumption
<1>3. 0 \in 0..LitCap
  BY <1>2
<1> QED BY <1>1, <1>2, <1>3, CapType DEF Advance

\* Outside the functions of the governor only time and the environment move its state.
LEMMA GovernorTypeStep ==
  ASSUME ReactorInv, GovernorTypeOK, TriggerInv, [GovernorNext]_governorVars
  PROVE  GovernorTypeOK'
<1> USE DEF GovernorNext, GovernorStep, SkipDisplay, ReadDisplay, Suspended, Sweep, Doze,
        ReadPsiOk, ReadPsiFail, PsiRecov, LoseTrigger, ArmTrigger, KeepRest, PollBattery, SkipThermal,
        PollThermal, Gate, ApplyMapping, Return, ReactorStep, TimePasses, ReactorEnv,
        PanelTurns, KernelHeals, governorVars, handlerVars, bootVars, dispVars, psiVars,
        thermVars, otherAges, envVars
<1>1. TypeOK'
  BY StepImplements, ReactorInvStep DEF ReactorInv
<1>2. pc' \in Places \cup {"idle"}
  BY DEF Goto, GovernorTypeOK, Places, FirstStep, AfterDisplay, Arm, Watch, Undo, Unset, AfterArm
<1>3. ndk' \in BOOLEAN /\ dormant' \in BOOLEAN /\ cpuSensor' \in BOOLEAN
  BY DEF GovernorTypeOK
<1>4. disp' \in {"UNKNOWN", "ON", "GRACE", "SUSPEND"}
  BY DEF GovernorTypeOK, Display
<1>5. ASSUME NEW d \in Nat, Advance(d)
      PROVE  /\ ageDisp' \in 0..DispChk /\ ageOff' \in 0..(Grace + 1)
             /\ ageBat' \in 0..BatChk /\ ageTherm' \in 0..ThermChk
             /\ onSeen' \in 0..(Grace + 1) /\ litFor' \in 0..LitCap
  BY <1>5, AdvanceType
<1>6. /\ 0 \in 0..DispChk /\ 0 \in 0..(Grace + 1) /\ 0 \in 0..BatChk
      /\ 0 \in 0..ThermChk /\ 0 \in 0..(SweepIvl + 1) /\ 0 \in 0..LitCap
      /\ 1 \in Nat /\ SweepTimes \subseteq Nat /\ CalcTimes \subseteq Nat
  BY ThresholdAssumption
<1>7. psiOpen' \in BOOLEAN /\ psiFirst' \in BOOLEAN /\ gap' \in BOOLEAN
  BY DEF GovernorTypeOK, FilterAfter
<1>8. psiFails' \in 0..PsiFailMax
  BY PsiAssumption DEF GovernorTypeOK, FailsAfter
<1>9. tempFails' \in 0..TempFailMax
  BY ThresholdAssumption DEF GovernorTypeOK, HoldsScale
<1>10. thermal' \in {"none", "live", "blind"} /\ remapDue' \in BOOLEAN /\ unmapped' \in BOOLEAN
  BY DEF GovernorTypeOK
<1>11. ageDisp' \in 0..DispChk
  BY <1>5, <1>6 DEF GovernorTypeOK
<1>12. ageOff' \in 0..(Grace + 1)
  BY <1>5, <1>6 DEF GovernorTypeOK, OffAge
<1>13. ageBat' \in 0..BatChk
  BY <1>5, <1>6 DEF GovernorTypeOK
<1>14. ageTherm' \in 0..ThermChk
  BY <1>5, <1>6 DEF GovernorTypeOK
<1>15. ageSweep' \in 0..(SweepIvl + 1)
  <2>1. \A d \in Nat : Cap(ageSweep + d, SweepIvl + 1) \in 0..(SweepIvl + 1)
    BY ThresholdAssumption DEF GovernorTypeOK, Cap
  <2> QED BY <1>6, <2>1 DEF GovernorTypeOK
<1>16. spent' \in Nat
  BY <1>6 DEF GovernorTypeOK
<1>17. panel' \in BOOLEAN /\ healthy' \in BOOLEAN
  BY DEF GovernorTypeOK
<1>18. litFor' \in 0..LitCap
  BY <1>5, <1>6 DEF GovernorTypeOK
<1>19. onSeen' \in 0..(Grace + 1)
  BY <1>5, <1>6 DEF GovernorTypeOK
<1>20. tempLost' \in 0..(TempFailMax + 1)
  <2>1. Cap(tempLost + 1, TempFailMax + 1) \in 0..(TempFailMax + 1)
        /\ 0 \in 0..(TempFailMax + 1)
    BY ThresholdAssumption DEF GovernorTypeOK, Cap
  <2> QED BY <2>1 DEF GovernorTypeOK
<1> QED
  BY <1>1, <1>2, <1>3, <1>4, <1>7, <1>8, <1>9, <1>10, <1>11, <1>12, <1>13, <1>14, <1>15,
     <1>16, <1>17, <1>18, <1>19, <1>20 DEF GovernorTypeOK

LEMMA GovernorTypeInit == GovernorInit => ReactorInv /\ GovernorTypeOK
<1> SUFFICES ASSUME GovernorInit PROVE ReactorInv /\ GovernorTypeOK
  OBVIOUS
<1>1. ReactorInv /\ TypeOK
  BY ReactorInvInit DEF GovernorInit, ReactorInv
<1>2. ndk \in BOOLEAN /\ dormant \in BOOLEAN /\ cpuSensor \in BOOLEAN
  <2>1. PICK s \in BOOLEAN \X BOOLEAN \X BOOLEAN : ndk = s[1] /\ dormant = s[2] /\ cpuSensor = s[3]
    BY SetupAssumption DEF GovernorInit
  <2> QED BY <2>1
<1>3. psiOpen \in BOOLEAN /\ panel \in BOOLEAN
  BY DEF GovernorInit
<1>4. /\ 0 \in 0..PsiFailMax /\ 0 \in 0..TempFailMax /\ DispChk \in 0..DispChk
      /\ Grace + 1 \in 0..(Grace + 1) /\ 0 \in 0..BatChk /\ 0 \in 0..ThermChk
      /\ 0 \in 0..(SweepIvl + 1) /\ 0 \in 0..LitCap /\ 0 \in 0..(Grace + 1)
      /\ 0 \in 0..(TempFailMax + 1) /\ 0 \in Nat
  BY PsiAssumption, ThresholdAssumption
<1> QED BY <1>1, <1>2, <1>3, <1>4 DEF GovernorInit, GovernorTypeOK, Places

LEMMA ReactorInvGovernor ==
  ReactorInv /\ GovernorTypeOK /\ TriggerInv /\ [GovernorNext]_governorVars => ReactorInv'
BY StepImplements, ReactorInvStep

\* No call of the handler leaves the trigger otherwise than the next one expects it.
LEMMA TriggerInvStep ==
  ASSUME ReactorInv, GovernorTypeOK, TriggerInv, [GovernorNext]_governorVars
  PROVE  TriggerInv'
<1>1. CASE GovernorStep
  <2>1. CASE LoseTrigger
    BY <2>1, FdAssumption DEF LoseTrigger, RemoveTrigger, CloseTrigger, ClearTrigger, KeepTrigger, Goto,
       TriggerInv, Whole, ReactorInv, TypeOK
  <2>2. ASSUME NEW bat \in BOOLEAN, ArmTrigger(bat) PROVE TriggerInv'
    BY <2>2, FdAssumption DEF ArmTrigger, OpenTrigger, RegisterTrigger, CloseTrigger, ClearTrigger,
       KeepTrigger, Goto, Arm, Watch, Undo, Unset, AfterArm, TriggerInv, Whole, ReactorInv, TypeOK
  <2>3. ASSUME NEW calc \in CalcTimes, Return(calc) PROVE TriggerInv'
    BY <2>3 DEF Return, TriggerInv
  <2>4. CASE /\ ~LoseTrigger /\ ~(\E bat \in BOOLEAN : ArmTrigger(bat))
             /\ ~\E calc \in CalcTimes : Return(calc)
    <3>1. /\ KeepTrigger /\ phase = "run"
          /\ \/ /\ pc \in {"disp", "doze", "suspend", "sweep", "psi", "bat", "therm", "gate", "map"}
                /\ pc' \in {"doze", "suspend", "sweep", "psi", "bat", "therm", "gate", "map",
                           "return"}
             \/ pc = "psi" /\ pc' = (IF trg = NoFd THEN "recov" ELSE "remove")
             \/ pc = "recov" /\ pc' = "arm"
             \/ pc = "bat" /\ trg = NoFd /\ pc' = "batarm"
      BY <1>1, <2>4 DEF GovernorStep, SkipDisplay, ReadDisplay, Suspended, Sweep, Doze, ReadPsiOk,
         ReadPsiFail, PsiRecov, PollBattery, Rearms, SkipThermal, PollThermal, Gate, ApplyMapping,
         Goto, AfterDisplay
    <3> QED BY <3>1 DEF KeepTrigger, TriggerInv, Whole
  <2> QED BY <2>1, <2>2, <2>3, <2>4
<1>2. CASE ReactorStep
  <2> SUFFICES ASSUME phase' = "run" PROVE TriggerInv'
    BY DEF TriggerInv
  <2>1. /\ pc' \in {"disp", "doze"} /\ phase \in {"wait", "dispatch"}
        /\ UNCHANGED <<trg, opened, registered>>
    BY <1>2 DEF ReactorStep, FirstStep, SetupOk, EnterWait, Exit, WaitReturns, Timeout, HandleSignal,
         HandleTrigger, BatchDone, triggerVars
  <2>2. Whole
    BY <2>1 DEF ReactorInv, TriggerWatched, Whole
  <2> QED BY <2>1, <2>2 DEF TriggerInv, Whole
<1>3. CASE TimePasses \/ PanelTurns \/ KernelHeals \/ ReactorEnv \/ UNCHANGED governorVars
  <2>1. UNCHANGED <<pc, trg, opened, registered>> /\ (phase' = "run" => phase = "run")
    BY <1>3 DEF TimePasses, Elapse, PanelTurns, KernelHeals, ReactorEnv, SetupFails, Interrupted,
         WaitError, SignalArrives, PressureEdge, governorVars, handlerVars, vars, triggerVars
  <2> QED BY <2>1 DEF TriggerInv, Whole
<1> QED BY <1>1, <1>2, <1>3 DEF GovernorNext

LEMMA GovernorTyped == GovernorSpec => [](ReactorInv /\ GovernorTypeOK /\ TriggerInv)
<1>1. GovernorInit => TriggerInv
  BY DEF GovernorInit, Init, TriggerInv
<1> QED
  BY <1>1, GovernorTypeInit, GovernorTypeStep, ReactorInvGovernor, TriggerInvStep, PTL
     DEF GovernorSpec

\* The governor's state stays within its types: no count of failures and no age
\* leaves its threshold behind, whatever the readings and the times are.
THEOREM GovernorTypeCorrect == GovernorSpec => []GovernorTypeOK
BY GovernorTyped, PTL

\* pg_gov_process() is a handler that pg_epoll_run() can rely on, whichever of its calls
\* fail: each of them is one Reactor allows, and it returns with a wake-up and a trigger
\* that is whole.
THEOREM GovernorImplements == GovernorSpec => ImplementsReactor
<1>1. GovernorInit => Init
  BY DEF GovernorInit
<1> QED BY <1>1, StepImplements, GovernorTyped, PTL DEF GovernorSpec, ImplementsReactor, Spec

\* Nowhere in a run does the governor lose sight of an open trigger, and the reactor
\* waits on the one it holds: not after an epoll_ctl() that failed in arm_trigger()
\* (gov.c:89-93), nor between the calls of read_psi() (gov.c:118-123).
THEOREM TriggerWatchedHolds == GovernorSpec => []TriggerWatched
BY GovernorTyped, PTL DEF ReactorInv

\* Hence the governor has what the reactor promises a handler: deadlines that EINTRs move
\* by no more than rounding does, no run once a shutdown is requested, no early timeout.
THEOREM GovernorInherits ==
  GovernorSpec => []DeadlineKept /\ NoRunAfterShutdown /\ NoEarlyTimeout
BY GovernorImplements, DeadlineKeptHolds, NoRunAfterShutdownHolds, NoEarlyTimeoutHolds
   DEF ImplementsReactor

-----------------------------------------------------------------------------
(* The governor's promises, each with the facts that carry it *)

\* pg_gov_process() is under way exactly while the reactor runs its handler.
InRun == phase = "run" <=> pc # "idle"

LEMMA InRunStep ==
  ASSUME InRun, [GovernorNext]_governorVars
  PROVE  InRun'
<1>1. CASE GovernorStep
  BY <1>1 DEF InRun, GovernorStep, SkipDisplay, ReadDisplay, Suspended, Sweep, Doze,
       ReadPsiOk, ReadPsiFail, PsiRecov, LoseTrigger, ArmTrigger, KeepRest, PollBattery, SkipThermal,
       PollThermal, Gate, ApplyMapping, Return, Goto, AfterDisplay, Arm, Watch, Undo, Unset, AfterArm
<1>2. CASE ReactorStep
  BY <1>2 DEF InRun, ReactorStep, FirstStep
<1>3. CASE TimePasses \/ PanelTurns \/ KernelHeals \/ UNCHANGED governorVars
  BY <1>3 DEF InRun, TimePasses, Elapse, PanelTurns, KernelHeals, vars, governorVars,
       handlerVars
<1>4. CASE ReactorEnv
  BY <1>4 DEF InRun, ReactorEnv, SetupFails, Interrupted, WaitError, SignalArrives,
       PressureEdge, handlerVars
<1> QED BY <1>1, <1>2, <1>3, <1>4 DEF GovernorNext

\* remap_due is set by poll_thermal_metrics() and cleared by the gov_gate() that follows.
RemapInv ==
  /\ remapDue => pc = "gate"
  /\ unmapped => pc \in {"gate", "map"}
  /\ unmapped /\ pc = "gate" => remapDue

LEMMA RemapStep ==
  ASSUME InRun, RemapInv, GovernorTypeOK, [GovernorNext]_governorVars
  PROVE  RemapInv'
<1>1. CASE GovernorStep
  BY <1>1 DEF RemapInv, GovernorTypeOK, GovernorStep, SkipDisplay, ReadDisplay, Suspended,
       Sweep, Doze, ReadPsiOk, ReadPsiFail, PsiRecov, LoseTrigger, ArmTrigger, KeepRest, PollBattery, SkipThermal,
       PollThermal, Gate, Maps, ApplyMapping, Return, Goto, AfterDisplay, Arm, Watch, Undo, Unset, AfterArm, thermVars
<1>2. CASE ReactorStep
  <2>1. pc = "idle" /\ UNCHANGED thermVars
    BY <1>2 DEF InRun, ReactorStep, SetupOk, EnterWait, Exit, WaitReturns, Timeout,
         HandleSignal, HandleTrigger, BatchDone
  <2> QED BY <2>1 DEF RemapInv, thermVars
<1>3. CASE TimePasses \/ PanelTurns \/ KernelHeals \/ ReactorEnv \/ UNCHANGED governorVars
  BY <1>3 DEF RemapInv, TimePasses, PanelTurns, KernelHeals, ReactorEnv,
       governorVars, handlerVars, thermVars
<1> QED BY <1>1, <1>2, <1>3 DEF GovernorNext

\* A thermal update is mapped in the run that made it (gov.c:168, gov.c:228-235).
THEOREM ThermalMappedHolds == GovernorSpec => []ThermalMapped
<1>1. GovernorInit => InRun /\ RemapInv
  BY DEF GovernorInit, Init, InRun, RemapInv
<1>2. InRun /\ RemapInv => ThermalMapped
  BY DEF InRun, RemapInv, ThermalMapped
<1> QED BY <1>1, <1>2, InRunStep, RemapStep, GovernorTyped, PTL DEF GovernorSpec

\* What the reactor does between two runs leaves the governor alone.
LEMMA BetweenRuns ==
  ASSUME InRun, ReactorStep
  PROVE  /\ pc = "idle" /\ pc' \in {"idle", "disp", "doze"}
         /\ pc' = "doze" => dormant
         /\ UNCHANGED <<bootVars, dispVars, psiVars, thermVars, otherAges, spent, envVars,
                        planned, asleep>>
<1>1. phase # "run" /\ UNCHANGED <<planned, asleep>>
  BY DEF ReactorStep, SetupOk, EnterWait, Exit, WaitReturns, Timeout, HandleSignal,
         HandleTrigger, BatchDone, waitVars
<1> QED BY <1>1 DEF InRun, ReactorStep, FirstStep

\* temp_fails counts the failed reads bridged with the last scale: all of them
\* until the limit, which it does not leave before a read succeeds.
FallbackInv ==
  cpuSensor => tempFails = Cap(tempLost, TempFailMax) /\ ThermalFallback

LEMMA FallbackStep ==
  ASSUME InRun, FallbackInv, GovernorTypeOK, [GovernorNext]_governorVars
  PROVE  FallbackInv'
<1>0. tempLost \in Nat /\ TempFailMax \in Nat
  BY ThresholdAssumption DEF GovernorTypeOK
<1>1. ASSUME NEW ok \in BOOLEAN, PollThermal(ok) PROVE FallbackInv'
  <2> SUFFICES ASSUME cpuSensor' PROVE FallbackInv'
    BY DEF FallbackInv
  <2>1. cpuSensor /\ tempFails = Cap(tempLost, TempFailMax)
    BY <1>1 DEF PollThermal, bootVars, FallbackInv
  <2>2. CASE ok
    <3>1. tempFails' = 0 /\ thermal' = "live" /\ tempLost' = 0
      BY <1>1, <2>2 DEF PollThermal, HoldsScale
    <3> QED BY <1>0, <3>1 DEF FallbackInv, ThermalFallback, Cap
  <2>3. CASE ~ok /\ tempFails < TempFailMax
    <3>1. tempFails' = tempFails + 1 /\ thermal' = thermal
          /\ tempLost' = Cap(tempLost + 1, TempFailMax + 1)
      BY <1>1, <2>1, <2>3 DEF PollThermal, HoldsScale
    <3>2. tempFails = tempLost /\ tempLost' = tempLost + 1 /\ tempLost' <= TempFailMax
      BY <1>0, <2>1, <2>3, <3>1 DEF Cap
    <3>3. thermal # "blind"
      BY <1>0, <2>1, <2>3, <3>2 DEF FallbackInv, ThermalFallback
    <3> QED BY <1>0, <3>1, <3>2, <3>3 DEF FallbackInv, ThermalFallback, Cap
  <2>4. CASE ~ok /\ ~(tempFails < TempFailMax)
    <3>1. tempFails' = tempFails /\ thermal' = "blind"
          /\ tempLost' = Cap(tempLost + 1, TempFailMax + 1)
      BY <1>1, <2>1, <2>4 DEF PollThermal, HoldsScale
    <3>2. tempFails = TempFailMax /\ tempLost' = TempFailMax + 1
      BY <1>0, <2>1, <2>4, <3>1 DEF Cap
    <3> QED BY <1>0, <3>1, <3>2 DEF FallbackInv, ThermalFallback, Cap
  <2> QED BY <2>2, <2>3, <2>4
<1>2. CASE ~\E ok \in BOOLEAN : PollThermal(ok)
  <2>1. UNCHANGED <<cpuSensor, tempFails, tempLost, thermal>>
    BY <1>2 DEF GovernorNext, GovernorStep, SkipDisplay, ReadDisplay, Suspended, Sweep, Doze,
         ReadPsiOk, ReadPsiFail, PsiRecov, LoseTrigger, ArmTrigger, KeepRest, PollBattery, SkipThermal,
         Gate, ApplyMapping, Return, ReactorStep, TimePasses, ReactorEnv, PanelTurns,
         KernelHeals, governorVars, handlerVars, bootVars, thermVars
  <2> QED BY <2>1 DEF FallbackInv, ThermalFallback
<1> QED BY <1>1, <1>2

\* After TempFailMax failed reads in a row the scale is that of no sensor, not before,
\* and one good read begins the count again (gov.c:157-167).
THEOREM ThermalFallbackHolds == GovernorSpec => []ThermalFallback
<1>1. GovernorInit => InRun /\ FallbackInv
  <2>1. Cap(0, TempFailMax) = 0
    BY ThresholdAssumption DEF Cap
  <2> QED BY <2>1 DEF GovernorInit, Init, InRun, FallbackInv, ThermalFallback
<1>2. FallbackInv => ThermalFallback
  BY DEF FallbackInv, ThermalFallback
<1> QED BY <1>1, <1>2, InRunStep, FallbackStep, GovernorTyped, PTL DEF GovernorSpec

\* last_dispoff is as old as the last reading that found the display lit, or younger.
GraceInv == disp = "GRACE" => onSeen >= ageOff

LEMMA GraceStep ==
  ASSUME InRun, GraceInv, GovernorTypeOK, [GovernorNext]_governorVars
  PROVE  GraceInv'
<1>0. /\ onSeen \in Nat /\ ageOff \in Nat /\ Grace \in Nat
      /\ SweepTimes \subseteq Nat /\ CalcTimes \subseteq Nat
  BY ThresholdAssumption DEF GovernorTypeOK
<1>1. ASSUME NEW d \in Nat, Advance(d), disp' = disp PROVE GraceInv'
  BY <1>0, <1>1 DEF Advance, Cap, GraceInv
<1>2. ASSUME NEW readings, ReadDisplay(readings) PROVE GraceInv'
  <2> DEFINE on == DisplayOn(readings)
  <2>1. /\ disp' = Display(on) /\ ageOff' = OffAge(on)
        /\ onSeen' = IF on THEN 0 ELSE onSeen
    BY <1>2 DEF ReadDisplay
  <2> HIDE DEF on
  <2>2. disp \in {"UNKNOWN", "ON", "GRACE", "SUSPEND"}
    BY DEF GovernorTypeOK
  <2>3. disp' = "GRACE" => ~on /\ disp # "SUSPEND"
    BY <2>1, <2>2 DEF Display
  <2>4. CASE disp \in {"UNKNOWN", "ON"}
    BY <1>0, <2>1, <2>3, <2>4 DEF OffAge, GraceInv
  <2>5. CASE disp = "GRACE"
    BY <2>1, <2>3, <2>5 DEF OffAge, GraceInv
  <2> QED BY <2>2, <2>3, <2>4, <2>5 DEF GraceInv
<1>3. ASSUME NEW d \in SweepTimes, Sweep(d) PROVE GraceInv'
  BY <1>0, <1>1, <1>3 DEF Sweep
<1>4. ASSUME NEW calc \in CalcTimes, Return(calc) PROVE GraceInv'
  BY <1>0, <1>1, <1>4 DEF Return
<1>5. CASE TimePasses
  BY <1>1, <1>5 DEF TimePasses
<1>6. CASE /\ ~\E r \in [Panels -> {"failed", "dark", "lit"}] : ReadDisplay(r)
           /\ ~\E d \in SweepTimes : Sweep(d)
           /\ ~\E calc \in CalcTimes : Return(calc)
           /\ ~TimePasses
  <2>1. UNCHANGED <<disp, onSeen, ageOff>>
    BY <1>6 DEF GovernorNext, GovernorStep, SkipDisplay, Suspended, Doze,
         ReadPsiOk, ReadPsiFail, PsiRecov, LoseTrigger, ArmTrigger, KeepRest, PollBattery, SkipThermal,
         PollThermal, Gate, ApplyMapping, ReactorStep, ReactorEnv, PanelTurns,
         KernelHeals, governorVars, handlerVars, dispVars
  <2> QED BY <2>1 DEF GraceInv
<1> QED BY <1>2, <1>3, <1>4, <1>5, <1>6

\* Only update_disp() gives the display up, and only out of the grace period.
LEMMA Suspends ==
  ASSUME InRun, GovernorTypeOK, [GovernorNext]_governorVars, disp # "SUSPEND", disp' = "SUSPEND"
  PROVE  disp = "GRACE" /\ ageOff > Grace
<1>1. PICK r \in [Panels -> {"failed", "dark", "lit"}] : ReadDisplay(r)
  BY DEF GovernorNext, GovernorStep, SkipDisplay, Suspended, Sweep, Doze,
         ReadPsiOk, ReadPsiFail, PsiRecov, LoseTrigger, ArmTrigger, KeepRest, PollBattery, SkipThermal,
         PollThermal, Gate, ApplyMapping, Return, ReactorStep, TimePasses, ReactorEnv,
         PanelTurns, KernelHeals, governorVars, handlerVars, dispVars
<1>2. disp' = Display(DisplayOn(r)) /\ disp \in {"UNKNOWN", "ON", "GRACE", "SUSPEND"}
  BY <1>1 DEF ReadDisplay, GovernorTypeOK
<1> QED BY <1>2 DEF Display

\* No display is given up on before a whole grace period has passed without one
\* reading that found it lit (gov.c:55-62).
THEOREM SuspendAfterGraceHolds == GovernorSpec => SuspendAfterGrace
<1>1. GovernorInit => InRun /\ GraceInv
  BY DEF GovernorInit, Init, InRun, GraceInv
<1>2. InRun /\ GraceInv /\ GovernorTypeOK /\ [GovernorNext]_governorVars =>
        [disp # "SUSPEND" /\ disp' = "SUSPEND" => onSeen > Grace]_governorVars
  <2> SUFFICES ASSUME InRun, GraceInv, GovernorTypeOK, [GovernorNext]_governorVars,
                      disp # "SUSPEND", disp' = "SUSPEND"
               PROVE  onSeen > Grace
    OBVIOUS
  <2>1. disp = "GRACE" /\ ageOff > Grace
    BY Suspends
  <2>2. onSeen \in Nat /\ ageOff \in Nat /\ Grace \in Nat
    BY ThresholdAssumption DEF GovernorTypeOK
  <2> QED BY <2>1, <2>2 DEF GraceInv
<1> QED
  BY <1>1, <1>2, InRunStep, GraceStep, GovernorTyped, PTL DEF GovernorSpec, SuspendAfterGrace

\* PSI is read only while the display is not suspended, and a monitor that is open
\* after missed samples restarts the filter at the next one.
Recovering == {"remove", "close", "clear", "recov"}
FilterInv ==
  /\ pc = "psi" => disp # "SUSPEND"
  /\ gap /\ psiOpen /\ disp # "SUSPEND" /\ pc \notin Recovering => psiFirst

LEMMA FilterStep ==
  ASSUME InRun, FilterInv, GovernorTypeOK, [GovernorNext]_governorVars
  PROVE  FilterInv'
<1>1. ASSUME NEW r \in [Panels -> {"failed", "dark", "lit"}], ReadDisplay(r) PROVE FilterInv'
  <2> DEFINE on == DisplayOn(r)
  <2>1. /\ pc = "disp" /\ disp' = Display(on) /\ psiFirst' = FilterAfter(on)
        /\ gap' = (gap \/ disp' = "SUSPEND") /\ psiOpen' = psiOpen
        /\ pc' = "psi" => disp' # "SUSPEND"
    BY <1>1 DEF ReadDisplay, Goto, AfterDisplay
  <2> HIDE DEF on
  <2>2. disp = "SUSPEND" /\ disp' # "SUSPEND" => on
    BY <2>1 DEF Display
  <2> QED BY <2>1, <2>2 DEF FilterInv, FilterAfter, Recovering
<1>2. CASE ReadPsiOk \/ ReadPsiFail \/ \E ok \in BOOLEAN : PsiRecov(ok)
  BY <1>2 DEF ReadPsiOk, ReadPsiFail, PsiRecov, Goto, FilterInv, Recovering, dispVars
<1>3. CASE /\ ~\E r \in [Panels -> {"failed", "dark", "lit"}] : ReadDisplay(r)
           /\ ~ReadPsiOk /\ ~ReadPsiFail /\ ~\E ok \in BOOLEAN : PsiRecov(ok)
  <2>1. /\ UNCHANGED <<disp, psiFirst, gap, psiOpen>>
        /\ pc' = "psi" => pc = "psi" \/ disp = "ON"
        /\ pc \in Recovering => pc' \in Recovering
    <3>1. CASE ReactorStep
      BY <3>1, BetweenRuns DEF dispVars, psiVars, Recovering
    <3>2. CASE ~ReactorStep
      BY <1>3, <3>2 DEF GovernorNext, GovernorStep, SkipDisplay, Suspended, Sweep, Doze,
           LoseTrigger, ArmTrigger, KeepRest, PollBattery, SkipThermal, PollThermal, Gate, ApplyMapping,
           Return, Goto, AfterDisplay, Arm, Watch, Undo, Unset, AfterArm, TimePasses, ReactorEnv, PanelTurns,
           KernelHeals, governorVars, handlerVars, dispVars, psiVars, Recovering
    <3> QED BY <3>1, <3>2
  <2> QED BY <2>1 DEF FilterInv
<1> QED BY <1>1, <1>2, <1>3

\* No velocity is carried over missed samples: the sample that ends a gap restarts
\* the filter (gov.c:50-54, psi.c:65-97).
THEOREM FilterRestartsHolds == GovernorSpec => FilterRestarts
<1>1. GovernorInit => InRun /\ FilterInv
  BY DEF GovernorInit, Init, InRun, FilterInv
<1>2. InRun /\ FilterInv /\ [GovernorNext]_governorVars =>
        [gap /\ ~gap' => psiFirst]_governorVars
  <2> SUFFICES ASSUME InRun, FilterInv, [GovernorNext]_governorVars, gap, ~gap'
               PROVE  psiFirst
    OBVIOUS
  <2>1. ReadPsiOk
    BY DEF GovernorNext, GovernorStep, SkipDisplay, ReadDisplay, Suspended, Sweep, Doze,
         ReadPsiFail, PsiRecov, LoseTrigger, ArmTrigger, KeepRest, PollBattery, SkipThermal,
         PollThermal, Gate, ApplyMapping, Return, ReactorStep, TimePasses, ReactorEnv,
         PanelTurns, KernelHeals, governorVars, handlerVars, psiVars
  <2> QED BY <2>1 DEF ReadPsiOk, FilterInv, Recovering
<1> QED
  BY <1>1, <1>2, InRunStep, FilterStep, GovernorTyped, PTL DEF GovernorSpec, FilterRestarts

\* A run that leaves the display suspended asked for the wake-up it took off its own
\* time, and a panel that was lit before that time is noticed.
Left(took) == IF SuspendWake - took > 0 THEN SuspendWake - took ELSE 1
Asked(busy) == {Left(took) : took \in Measured(busy)}
WakePlanned ==
  \E d \in {0} \cup SweepTimes, calc \in CalcTimes :
    planned \in Asked(d + calc) /\ litFor <= d + calc + asleep

SuspendedInv ==
  /\ pc \in {"idle", "disp", "suspend", "sweep", "return"}
  /\ pc \in {"suspend", "sweep"} => litFor = 0
  /\ pc \in {"sweep", "return"} => nextWake = SuspendWake
  /\ pc = "return" => litFor <= spent /\ spent \in {0} \cup SweepTimes
  /\ pc \in {"idle", "disp"} => WakePlanned

LitInv ==
  /\ ~panel => litFor = 0
  /\ pc # "return" => spent = 0
  /\ ~dormant /\ disp = "SUSPEND" => SuspendedInv

LEMMA LitDark ==
  ASSUME InRun, GovernorTypeOK, LitInv, [GovernorNext]_governorVars
  PROVE  (~panel => litFor = 0)' /\ (pc # "return" => spent = 0)'
<1>1. (~panel => litFor = 0)'
  BY DEF LitInv, GovernorTypeOK, GovernorNext, GovernorStep, SkipDisplay, ReadDisplay, Suspended,
       Sweep, Doze, ReadPsiOk, ReadPsiFail, PsiRecov, LoseTrigger, ArmTrigger, KeepRest, PollBattery, SkipThermal,
       PollThermal, Gate, ApplyMapping, Return, Advance, ReactorStep, TimePasses, ReactorEnv,
       PanelTurns, KernelHeals, governorVars, handlerVars, envVars
<1>2. (pc # "return" => spent = 0)'
  <2>1. CASE ReactorStep
    BY <2>1, BetweenRuns DEF LitInv
  <2>2. CASE ~ReactorStep
    BY <2>2 DEF LitInv, GovernorNext, GovernorStep, SkipDisplay, ReadDisplay, Suspended, Sweep,
         Doze, ReadPsiOk, ReadPsiFail, PsiRecov, LoseTrigger, ArmTrigger, KeepRest, PollBattery, SkipThermal,
         PollThermal, Gate, ApplyMapping, Return, Goto, AfterDisplay, Arm, Watch, Undo, Unset, AfterArm,
         TimePasses, ReactorEnv, PanelTurns, KernelHeals, governorVars, handlerVars
  <2> QED BY <2>1, <2>2
<1> QED BY <1>1, <1>2

\* While time passes, a lit panel ages no faster than the clock.
LEMMA LitAges ==
  ASSUME GovernorTypeOK, NEW d \in Nat, Advance(d)
  PROVE  litFor' \in Nat /\ litFor' <= litFor + d
BY ThresholdAssumption DEF GovernorTypeOK, Advance, Cap

\* Where a suspended governor can be, and what it has planned.
LEMMA SuspendedStep ==
  ASSUME InRun, ReactorInv, GovernorTypeOK, LitInv, [GovernorNext]_governorVars,
         ~dormant', disp' = "SUSPEND"
  PROVE  SuspendedInv'
<1>0. /\ litFor \in Nat /\ spent \in Nat /\ asleep \in Nat /\ 1 \in Nat
      /\ SweepTimes \subseteq Nat /\ CalcTimes \subseteq Nat
      /\ dormant \in BOOLEAN /\ panel \in BOOLEAN
  BY ThresholdAssumption DEF GovernorTypeOK, TypeOK
<1>1. ~dormant /\ dormant' = dormant
  BY DEF GovernorNext, GovernorStep, SkipDisplay, ReadDisplay, Suspended, Sweep, Doze,
         ReadPsiOk, ReadPsiFail, PsiRecov, LoseTrigger, ArmTrigger, KeepRest, PollBattery, SkipThermal,
         PollThermal, Gate, ApplyMapping, Return, ReactorStep, TimePasses, ReactorEnv,
         PanelTurns, KernelHeals, governorVars, handlerVars, bootVars
<1>2. ASSUME NEW r \in [Panels -> {"failed", "dark", "lit"}], ReadDisplay(r) PROVE SuspendedInv'
  <2>1. pc' = "suspend" /\ litFor' = litFor /\ (panel => DisplayOn(r))
        /\ disp' = Display(DisplayOn(r))
    BY <1>2 DEF ReadDisplay, Goto, envVars
  <2>2. ~DisplayOn(r)
    BY <2>1 DEF Display
  <2> QED BY <2>1, <2>2 DEF SuspendedInv, LitInv
<1>3. CASE ~\E r \in [Panels -> {"failed", "dark", "lit"}] : ReadDisplay(r)
  <2>1. disp' = disp /\ SuspendedInv
    BY <1>1, <1>3 DEF GovernorNext, GovernorStep, SkipDisplay, Suspended, Sweep, Doze,
         ReadPsiOk, ReadPsiFail, PsiRecov, LoseTrigger, ArmTrigger, KeepRest, PollBattery, SkipThermal,
         PollThermal, Gate, ApplyMapping, Return, ReactorStep, TimePasses, ReactorEnv,
         PanelTurns, KernelHeals, governorVars, handlerVars, dispVars, LitInv
  <2>2. CASE Suspended
    <3>1. /\ pc = "suspend" /\ pc' \in {"sweep", "return"} /\ nextWake' = SuspendWake
          /\ litFor' = litFor /\ spent' = spent
      BY <2>2 DEF Suspended, Goto, envVars
    <3>2. litFor = 0 /\ spent = 0
      BY <2>1, <3>1 DEF SuspendedInv, LitInv
    <3> QED BY <3>1, <3>2 DEF SuspendedInv
  <2>3. ASSUME NEW d \in SweepTimes, Sweep(d) PROVE SuspendedInv'
    <3>1. pc = "sweep" /\ pc' = "return" /\ nextWake' = nextWake /\ spent' = spent + d
      BY <2>3 DEF Sweep, Goto
    <3>2. litFor = 0 /\ spent = 0 /\ nextWake = SuspendWake
      BY <2>1, <3>1 DEF SuspendedInv, LitInv
    <3>3. d \in Nat /\ litFor' \in Nat /\ litFor' <= d
      BY <1>0, <2>3, <3>2, LitAges DEF Sweep
    <3>4. spent' = d
      BY <3>1, <3>2, <3>3
    <3> QED BY <3>1, <3>2, <3>3, <3>4 DEF SuspendedInv
  <2>4. ASSUME NEW calc \in CalcTimes, Return(calc) PROVE SuspendedInv'
    <3>1. /\ pc = "return" /\ pc' = "idle" /\ asleep' = 0
          /\ \E took \in Measured(spent + calc) : planned' = Adjusted(nextWake, took)
      BY <2>4 DEF Return
    <3>2. litFor <= spent /\ spent \in {0} \cup SweepTimes /\ nextWake = SuspendWake
      BY <2>1, <3>1 DEF SuspendedInv
    <3>3. litFor' <= spent + calc + asleep'
      BY <1>0, <2>4, <3>1, <3>2, LitAges DEF Return
    <3>4. WakePlanned'
      <4>1. PICK took \in Measured(spent + calc) : planned' = Adjusted(SuspendWake, took)
        BY <3>1, <3>2
      <4>2. planned' = Left(took)
        BY <1>1, <4>1 DEF Adjusted, Left
      <4>3. planned' \in Asked(spent + calc)
        BY <4>2 DEF Asked
      <4> DEFINE d == spent
      <4>4. d \in {0} \cup SweepTimes /\ planned' \in Asked(d + calc) /\ litFor' <= d + calc + asleep'
        BY <3>2, <3>3, <4>3
      <4> HIDE DEF d
      <4> QED BY <4>4 DEF WakePlanned
    <3> QED BY <3>1, <3>4 DEF SuspendedInv
  <2>5. CASE TimePasses
    <3>1. /\ pc' = pc /\ phase = "wait" /\ asleep' = asleep + 1 /\ planned' = planned
      BY <2>5 DEF TimePasses, Elapse
    <3>2. pc = "idle" /\ WakePlanned
      BY <2>1, <3>1 DEF InRun, SuspendedInv
    <3>3. litFor' \in Nat /\ litFor' <= litFor + 1
      BY <1>0, <2>5, LitAges DEF TimePasses
    <3>4. WakePlanned'
      <4>1. PICK d \in {0} \cup SweepTimes, calc \in CalcTimes :
              planned \in Asked(d + calc) /\ litFor <= d + calc + asleep
        BY <3>2 DEF WakePlanned
      <4>2. planned' \in Asked(d + calc)
        BY <3>1, <4>1
      <4>3. litFor' <= d + calc + asleep'
        BY <1>0, <3>1, <3>3, <4>1
      <4> QED BY <4>2, <4>3 DEF WakePlanned
    <3> QED BY <3>1, <3>2, <3>4 DEF SuspendedInv
  <2>6. CASE ReactorStep
    <3>1. /\ pc = "idle" /\ pc' \in {"idle", "disp"}
          /\ UNCHANGED <<litFor, planned, asleep, dormant>>
      BY <1>1, <2>6, BetweenRuns DEF envVars, bootVars
    <3>2. WakePlanned
      BY <2>1, <3>1 DEF SuspendedInv
    <3>3. WakePlanned'
      BY <3>1, <3>2 DEF WakePlanned
    <3> QED BY <3>1, <3>3 DEF SuspendedInv
  <2>7. CASE ReactorEnv
    <3>1. UNCHANGED <<pc, nextWake, litFor, spent, planned, asleep, dormant>>
          \/ (phase = "wait" /\ UNCHANGED <<pc, litFor, spent, planned, asleep, dormant>>)
      BY <2>7 DEF ReactorEnv, SetupFails, Interrupted, WaitError, SignalArrives, PressureEdge,
           waitVars, handlerVars, envVars, bootVars
    <3>2. WakePlanned => WakePlanned'
      BY <3>1 DEF WakePlanned
    <3> QED BY <2>1, <3>1, <3>2 DEF SuspendedInv, InRun
  <2>8. CASE PanelTurns \/ KernelHeals \/ UNCHANGED governorVars
    <3>1. /\ UNCHANGED <<pc, nextWake, spent, planned, asleep, dormant>>
          /\ litFor' = litFor \/ litFor' = 0
      BY <2>8 DEF PanelTurns, KernelHeals, governorVars, handlerVars, vars, bootVars, envVars
    <3>2. WakePlanned => WakePlanned'
      <4> SUFFICES ASSUME WakePlanned PROVE WakePlanned'
        OBVIOUS
      <4>1. PICK d \in {0} \cup SweepTimes, calc \in CalcTimes :
              planned \in Asked(d + calc) /\ litFor <= d + calc + asleep
        BY DEF WakePlanned
      <4>2. litFor' <= d + calc + asleep'
        BY <1>0, <3>1, <4>1
      <4> QED BY <3>1, <4>1, <4>2 DEF WakePlanned
    <3>3. litFor <= spent => litFor' <= spent
      BY <1>0, <3>1
    <3> QED BY <2>1, <3>1, <3>2, <3>3 DEF SuspendedInv
  <2>9. CASE GovernorStep /\ ~Suspended /\ ~(\E d \in SweepTimes : Sweep(d))
               /\ ~\E calc \in CalcTimes : Return(calc)
    BY <1>1, <1>3, <2>1, <2>9 DEF SuspendedInv, GovernorStep, SkipDisplay, Doze, ReadPsiOk,
       ReadPsiFail, PsiRecov, LoseTrigger, ArmTrigger, Arm, Watch, Undo, Unset, PollBattery, SkipThermal,
       PollThermal, Gate, ApplyMapping, LitInv, dispVars
  <2> QED
    BY <2>2, <2>3, <2>4, <2>5, <2>6, <2>7, <2>8, <2>9 DEF GovernorNext
<1> QED BY <1>2, <1>3

LEMMA LitStep ==
  ASSUME InRun, ReactorInv, GovernorTypeOK, LitInv, [GovernorNext]_governorVars
  PROVE  LitInv'
BY LitDark, SuspendedStep DEF LitInv

\* A suspended governor notices a lit display within SuspendWake, or its slowest run, plus
\* the bounded lateness of the wake-ups and what the measured times miss (gov.c:64-77,
\* gov.c:360-363).
THEOREM ResumeInTimeHolds == GovernorSpec => []ResumeInTime
<1>1. GovernorInit => InRun /\ LitInv /\ Overslept
  BY OversleptInit DEF GovernorInit, Init, InRun, LitInv
<1>2. ReactorInv /\ GovernorTypeOK /\ TriggerInv /\ Overslept /\ [GovernorNext]_governorVars
        => Overslept'
  BY StepImplements, OversleptStep
<1>3. ReactorInv /\ GovernorTypeOK /\ Overslept /\ LitInv => ResumeInTime
  <2> DEFINE slack == MaxLate + MaxIntr * MaxMissed
             soon == litFor <= Steps(SuspendWake) + MaxMissed + slack
             afterRun == \E d \in {0} \cup SweepTimes, calc \in CalcTimes :
                           litFor <= d + calc + Steps(1) + slack
  <2> SUFFICES ASSUME ReactorInv, GovernorTypeOK, Overslept, SuspendedInv, ~dormant
               PROVE  soon \/ afterRun
    BY DEF LitInv, ResumeInTime
  <2>0. /\ litFor \in Nat /\ asleep \in Nat /\ intr \in 0..MaxIntr
        /\ MaxLate \in Nat /\ MaxIntr \in Nat /\ SuspendWake \in Nat \ {0}
        /\ SweepTimes \subseteq Nat /\ CalcTimes \subseteq Nat /\ CalcTimes # {}
    BY WakeAssumption, PollAssumption, ThresholdAssumption DEF GovernorTypeOK, TypeOK
  <2>10. /\ MaxMissed \in Nat /\ Steps(1) \in Nat /\ Steps(SuspendWake) \in Nat
    <3>1. Steps(0) = 0 /\ Steps(1) = StepsPerMs
      BY RoundingType DEF Steps
    <3>2. Steps(0) <= Steps(SuspendWake) /\ Steps(SuspendWake) \in Int
      BY <2>0, StepsLinear
    <3> QED BY <3>1, <3>2, RoundingType
  <2>11. MaxIntr * MaxMissed \in Nat /\ intr * MaxMissed <= MaxIntr * MaxMissed
         /\ intr * MaxMissed \in Int
    BY <2>0, <2>10, TimesOrder, RoundingsType
  <2>12. slack \in Nat
    BY <2>0, <2>11
  <2>1. CASE pc \in {"suspend", "sweep"}
    <3>1. litFor = 0
      BY <2>1 DEF SuspendedInv
    <3> HIDE DEF slack
    <3> QED BY <2>10, <2>12, <3>1
  <2>2. CASE pc = "return"
    <3>1. spent \in {0} \cup SweepTimes /\ litFor <= spent
      BY <2>2 DEF SuspendedInv
    <3>2. PICK calc \in CalcTimes : TRUE
      BY <2>0
    <3> HIDE DEF slack
    <3>3. litFor <= spent + calc + Steps(1) + slack
      BY <2>0, <2>10, <2>12, <3>1, <3>2
    <3> QED BY <3>1, <3>3
  <2>3. CASE pc \in {"idle", "disp"}
    <3>1. PICK d \in {0} \cup SweepTimes, calc \in CalcTimes :
            planned \in Asked(d + calc) /\ litFor <= d + calc + asleep
      BY <2>3 DEF SuspendedInv, WakePlanned
    <3>2. d \in Nat /\ calc \in Nat /\ d + calc \in Nat
      BY <2>0
    <3>3. PICK took \in Measured(d + calc) : planned = Left(took)
      BY <3>1 DEF Asked
    <3>4. took \in Nat /\ (d + calc) - Steps(took) <= MaxMissed
      BY <3>2, MeasuredWithin
    <3>5. planned \in Int /\ planned # Forever
      BY <2>0, <3>3, <3>4 DEF Left, Forever
    <3>6. asleep <= Steps(planned) + MaxLate + intr * MaxMissed
      BY <3>5 DEF Overslept
    <3>7. Steps(planned) \in Int
      BY <3>5, StepsLinear
    <3>8. asleep <= Steps(planned) + slack
      BY <2>0, <2>11, <3>6, <3>7
    <3> HIDE DEF slack
    <3>9. CASE planned = 1
      <4>1. litFor <= d + calc + Steps(1) + slack
        BY <2>0, <2>10, <2>12, <3>1, <3>2, <3>8, <3>9
      <4> QED BY <4>1
    <3>10. CASE planned = SuspendWake - took
      <4>1. Steps(planned) = Steps(SuspendWake) - Steps(took) /\ Steps(took) \in Int
        BY <2>0, <3>4, <3>10, StepsLinear
      <4>2. soon
        BY <2>0, <2>10, <2>12, <3>1, <3>2, <3>4, <3>8, <4>1
      <4> QED BY <4>2
    <3> QED BY <3>3, <3>9, <3>10 DEF Left
  <2> QED BY <2>1, <2>2, <2>3 DEF SuspendedInv
<1> QED
  BY <1>1, <1>2, <1>3, InRunStep, LitStep, GovernorTyped, PTL DEF GovernorSpec
=============================================================================
