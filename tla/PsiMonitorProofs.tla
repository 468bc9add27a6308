--------------------------- MODULE PsiMonitorProofs ---------------------------
(***************************************************************************)
(* For any bucket, staleness, rate limit and bound on time: the monitor's  *)
(* stamp and total stay together, every gap restarts the filter, and the   *)
(* log's credit refilled at calls is the bucket filled all the time.       *)
(***************************************************************************)
EXTENDS PsiMonitor, TLAPS

-----------------------------------------------------------------------------
(* The limiter of the log *)

\* A bucket nobody has asked yet is full.
LogInv == LogTypeOK /\ (quiet = NoCall => credit = CreditMax)

LEMMA Credits == CreditMax \in Nat /\ RefillMs \in Nat \ {0} /\ DropMod \in Nat \ {0}
<1>1. Burst \in Nat /\ RefillMs \in Nat
  BY LogAssumption
<1>2. Burst * RefillMs \in Nat
  BY <1>1
<1> QED BY <1>2, LogAssumption DEF CreditMax

LEMMA AddZero == \A c \in Int, q \in Int : q = 0 => c + q = c
OBVIOUS

LEMMA RefilledRange == LogInv => Refilled \in 0..CreditMax
BY Credits DEF LogInv, LogTypeOK, Refilled, NoCall

LEMMA LogInitial == LogInit => LogInv /\ Refilled = CreditMax
BY Credits DEF LogInit, LogInv, LogTypeOK, Refilled, NoCall

LEMMA LogElapseKeeps == LogInv /\ LogElapse => LogInv'
BY Credits DEF LogInv, LogTypeOK, LogElapse, NoCall, CreditMax

\* Time fills the bucket by one, or it is full.
LEMMA LogElapseFills ==
  LogInv /\ LogElapse => Refilled' = IF Refilled < CreditMax THEN Refilled + 1 ELSE Refilled
<1> SUFFICES ASSUME LogInv, LogElapse
             PROVE  Refilled' = IF Refilled < CreditMax THEN Refilled + 1 ELSE Refilled
  OBVIOUS
<1>1. credit \in 0..CreditMax /\ credit' = credit /\ CreditMax' = CreditMax
  BY DEF LogInv, LogTypeOK, LogElapse, CreditMax
<1>2. CASE quiet = NoCall
  BY <1>1, <1>2, Credits DEF LogInv, LogElapse, Refilled, NoCall
<1>3. CASE quiet # NoCall
  <2>1. quiet \in 0..CreditMax /\ quiet' = IF quiet < CreditMax THEN quiet + 1 ELSE quiet
    BY <1>3 DEF LogInv, LogTypeOK, LogElapse
  <2> QED BY <1>1, <1>3, <2>1, Credits DEF Refilled, NoCall
<1> QED BY <1>2, <1>3

LEMMA LogErrKeeps == LogInv /\ LogErr => LogInv'
<1> SUFFICES ASSUME LogInv, LogErr PROVE LogInv'
  OBVIOUS
<1>1. Refilled \in 0..CreditMax
  BY RefilledRange
<1>2. CreditMax' = CreditMax /\ dropped \in 0..(DropMod - 1)
  BY DEF CreditMax, LogInv, LogTypeOK
<1>3. CASE LogWritten
  BY <1>1, <1>2, <1>3, Credits DEF LogWritten, LogInv, LogTypeOK, NoCall
<1>4. CASE LogSuppressed
  <2>1. (dropped + 1) % DropMod \in 0..(DropMod - 1)
    BY <1>2, Credits
  <2> QED BY <1>1, <1>2, <1>4, <2>1, Credits DEF LogSuppressed, LogInv, LogTypeOK, NoCall
<1> QED BY <1>3, <1>4 DEF LogErr

\* An error takes its price from the bucket, or finds too little in it.
LEMMA LogErrTakes ==
  LogInv /\ LogErr =>
    \/ Refilled >= RefillMs /\ Refilled' = Refilled - RefillMs
    \/ Refilled < RefillMs /\ Refilled' = Refilled
<1> SUFFICES ASSUME LogInv, LogErr
             PROVE  \/ Refilled >= RefillMs /\ Refilled' = Refilled - RefillMs
                    \/ Refilled < RefillMs /\ Refilled' = Refilled
  OBVIOUS
<1>1. Refilled \in 0..CreditMax /\ CreditMax' = CreditMax
  BY RefilledRange DEF CreditMax
<1>2. ASSUME credit' \in 0..CreditMax, quiet' = 0 PROVE Refilled' = credit'
  <2>0. CreditMax \in Nat
    BY Credits
  <2>1. quiet' # NoCall
    BY <1>2 DEF NoCall
  <2>3. credit' \in Int /\ quiet' \in Int /\ credit' <= CreditMax
    BY <1>2, <2>0
  <2>4. credit' + quiet' = credit'
    BY <1>2, <2>3, AddZero
  <2>2. credit' < CreditMax \/ credit' = CreditMax
    BY <1>2, <2>0, <2>3
  <2> QED BY <1>1, <2>1, <2>2, <2>4 DEF Refilled
<1>3. CASE LogWritten
  BY <1>1, <1>2, <1>3, Credits DEF LogWritten
<1>4. CASE LogSuppressed
  BY <1>1, <1>2, <1>4, Credits DEF LogSuppressed
<1> QED BY <1>3, <1>4 DEF LogErr

LEMMA LogUnchanged == LogInv /\ UNCHANGED logVars => LogInv' /\ Refilled' = Refilled
BY DEF LogInv, LogTypeOK, logVars, Refilled, CreditMax

-----------------------------------------------------------------------------
(* The monitor *)

\* The growth of total= never exceeds the time it grew in; time and stamp are the same
\* unless a sample without total= or none at all was taken; and what broke a run of
\* samples is still to be read, reopened or filtered anew.
Joined ==
  /\ since # NoBase => grown <= since
  /\ ~first_run /\ ~torn => since = age
  /\ gap = age
  /\ broken => first_run \/ fresh \/ step = "recov" \/ ~open

PsiInv == TypeOK /\ LogInv /\ Joined /\ FilterContinuous

LEMMA RateRange ==
  ASSUME NEW growth \in Nat, NEW us \in Nat \ {0}
  PROVE  Rate(growth, us) \in 0..RateMax
<1>1. Percent \in Nat /\ RateMax \in Nat /\ Micros \in Nat
  BY PsiAssumption
<1>2. Percent * growth \in Nat
  BY <1>1
<1> DEFINE n == Percent * growth
           m == n * Micros
<1>3. m \in Nat
  <2>1. n \in Nat
    BY <1>2
  <2> HIDE DEF n
  <2> QED BY <1>1, <2>1
<1> DEFINE raw == m \div us
<1>4. Rate(growth, us) = IF raw > RateMax THEN RateMax ELSE raw
  BY DEF Rate
<1> HIDE DEF m
<1>5. raw \in Nat
  BY <1>3
<1> HIDE DEF raw
<1> QED BY <1>1, <1>4, <1>5

LEMMA DtRange == age \in Times => Dt \in Nat \ {0} /\ Dt >= age
BY PsiAssumption DEF Times, Dt, Floored

\* What is measured of a time that is not zero is not zero.
LEMMA MeasuredRange ==
  ASSUME NEW dt \in Nat \ {0}, NEW us \in Measured(dt)
  PROVE  us \in Nat \ {0}
<1> DEFINE exact == dt * Micros
<1>1. Micros \in Nat /\ Slip \in Nat /\ Slip < Micros
  BY PsiAssumption
<1>2. exact \in Nat /\ exact >= Micros
  <2>1. exact = Micros + (dt - 1) * Micros /\ (dt - 1) * Micros >= 0
    BY <1>1
  <2> QED BY <1>1, <2>1
<1>3. us \in (exact - Slip)..(exact + Slip)
  BY DEF Measured
<1> HIDE DEF exact
<1> QED BY <1>1, <1>2, <1>3

LEMMA PsiInitial == Init => PsiInv
<1> SUFFICES ASSUME Init PROVE PsiInv
  OBVIOUS
<1>1. LogInv
  BY LogInitial DEF Init
<1>2. 0 \in Times /\ MaxGap \in Times
  BY PsiAssumption DEF Times
<1> QED BY <1>1, <1>2 DEF Init, PsiInv, LogInv, TypeOK, Joined, FilterContinuous, NoBase, NoRate

LEMMA ReadFailsKeeps == PsiInv /\ (ReadFails \/ ReadNoLine) => PsiInv'
<1> SUFFICES ASSUME PsiInv, ReadFails \/ ReadNoLine PROVE PsiInv'
  OBVIOUS
<1>1. LogInv'
  BY LogErrKeeps, LogUnchanged DEF PsiInv, ReadFails, ReadNoLine
<1>2. /\ step' = "recov" /\ broken' = TRUE
      /\ UNCHANGED <<open, first_run, fresh, age, grown, rate, since, torn, gap, stitched>>
  BY DEF ReadFails, ReadNoLine
<1>3. TypeOK'
  BY <1>1, <1>2 DEF PsiInv, LogInv, TypeOK, Times
<1>4. Joined' /\ FilterContinuous'
  BY <1>2 DEF PsiInv, Joined, FilterContinuous
<1> QED BY <1>1, <1>3, <1>4 DEF PsiInv

LEMMA SampleKeeps ==
  ASSUME PsiInv, NEW counted \in BOOLEAN, Sample(counted)
  PROVE  PsiInv'
<1>1. LogInv'
  BY LogUnchanged DEF PsiInv, Sample
<1>2. 0 \in Times
  BY PsiAssumption DEF Times
<1>3. Dt \in Nat \ {0} /\ Dt >= age /\ grown \in Nat
  BY DtRange, PsiAssumption DEF PsiInv, TypeOK, Times
<1>4. rate' \in {NoRate} \cup 0..RateMax
  <2>1. \A us \in Measured(Dt) : Rate(grown, us) \in 0..RateMax
    BY <1>3, MeasuredRange, RateRange
  <2>2. 0 \in 0..RateMax
    BY PsiAssumption
  <2> QED BY <2>1, <2>2 DEF Sample
<1>5. ~stitched'
  <2>1. broken => first_run \/ fresh
    BY DEF PsiInv, Joined, Sample
  <2>2. gap > Stale => Dt > Stale
    <3>1. gap = age /\ age \in Int /\ Stale \in Int
      BY PsiAssumption DEF PsiInv, Joined, TypeOK, Times
    <3> QED BY <1>3, <3>1
  <2>3. Starts \/ ~(broken \/ gap > Stale)
    BY <2>1, <2>2 DEF Starts
  <2> QED BY <2>3 DEF Sample
<1>6. /\ torn' \in BOOLEAN /\ grown' \in Times /\ since' \in {NoBase} \cup Times
      /\ since' # NoBase => grown' <= since'
      /\ ~torn' => since' = 0
  <2>1. CASE counted
    <3>1. grown' = 0 /\ since' = 0 /\ torn' = FALSE
      BY <2>1 DEF Sample, Based
    <3>2. torn' \in BOOLEAN
      BY <3>1
    <3> QED BY <1>2, <3>1, <3>2
  <2>2. CASE ~counted
    BY <2>2 DEF Sample, Based, PsiInv, TypeOK, Joined
  <2> QED BY <2>1, <2>2
<1>7. TypeOK'
  BY <1>1, <1>2, <1>4, <1>5, <1>6 DEF PsiInv, LogInv, TypeOK, Sample, Times
<1>8. Joined'
  BY <1>6 DEF Joined, Sample
<1> QED BY <1>1, <1>5, <1>7, <1>8 DEF PsiInv, FilterContinuous

LEMMA RecoverKeeps ==
  ASSUME PsiInv, NEW ok \in BOOLEAN, Recover(ok)
  PROVE  PsiInv'
<1>1. LogInv'
  BY LogUnchanged DEF PsiInv, Recover
<1> QED BY <1>1 DEF PsiInv, LogInv, TypeOK, Joined, FilterContinuous, Recover, Times

LEMMA ResumeKeeps == PsiInv /\ Resume => PsiInv'
<1> SUFFICES ASSUME PsiInv, Resume PROVE PsiInv'
  OBVIOUS
<1>1. LogInv'
  BY LogUnchanged DEF PsiInv, Resume
<1> QED BY <1>1 DEF PsiInv, LogInv, TypeOK, Joined, FilterContinuous, Resume, Times

LEMMA OtherErrorKeeps == PsiInv /\ OtherError => PsiInv'
<1> SUFFICES ASSUME PsiInv, OtherError PROVE PsiInv'
  OBVIOUS
<1>1. LogInv'
  BY LogErrKeeps DEF PsiInv, OtherError
<1> QED BY <1>1 DEF PsiInv, LogInv, TypeOK, Joined, FilterContinuous, OtherError, psiVars, Times

LEMMA ElapseKeeps ==
  ASSUME PsiInv, NEW stall \in 0..1, Elapse(stall)
  PROVE  PsiInv'
<1>1. LogInv'
  BY LogElapseKeeps DEF PsiInv, Elapse
<1>2. /\ age \in 0..MaxGap /\ age < MaxGap /\ gap = age /\ MaxGap \in Nat
      /\ age' = age + 1 /\ gap' = gap + 1
  BY PsiAssumption DEF PsiInv, TypeOK, Joined, Times, Elapse
<1>3. age' \in Times /\ gap' \in Times /\ gap' = age'
  BY <1>2 DEF Times
<1>4. /\ grown' \in Times /\ since' \in {NoBase} \cup Times
      /\ since' # NoBase => grown' <= since'
      /\ since = age => since' = age'
  <2>1. CASE since = NoBase
    <3>1. since # age
      BY <2>1, <1>2 DEF NoBase
    <3> QED BY <2>1, <3>1 DEF Elapse, PsiInv, TypeOK, Joined
  <2>2. CASE since # NoBase
    <3>1. since \in 0..MaxGap /\ since < MaxGap /\ grown \in 0..MaxGap /\ grown <= since
      BY <2>2 DEF Elapse, PsiInv, TypeOK, Joined, Times
    <3>2. since' = since + 1 /\ grown' = grown + stall
      BY <2>2 DEF Elapse
    <3> QED BY <1>2, <3>1, <3>2 DEF Times
  <2> QED BY <2>1, <2>2
<1>5. UNCHANGED <<step, open, first_run, fresh, rate, torn, broken, stitched>>
  BY DEF Elapse
<1>6. ~first_run' /\ ~torn' => since' = age'
  BY <1>4, <1>5 DEF PsiInv, Joined
<1>7. TypeOK'
  BY <1>1, <1>3, <1>4, <1>5 DEF PsiInv, LogInv, TypeOK
<1>8. Joined'
  BY <1>3, <1>4, <1>5, <1>6 DEF PsiInv, Joined
<1> QED BY <1>1, <1>5, <1>7, <1>8 DEF PsiInv, FilterContinuous

LEMMA PsiStep == PsiInv /\ [Next]_vars => PsiInv'
<1> SUFFICES ASSUME PsiInv, [Next]_vars PROVE PsiInv'
  OBVIOUS
<1>1. CASE Next
  BY <1>1, ReadFailsKeeps, SampleKeeps, RecoverKeeps, ResumeKeeps, OtherErrorKeeps, ElapseKeeps
     DEF Next
<1>2. CASE UNCHANGED vars
  <2>1. LogInv'
    BY <1>2, LogUnchanged DEF vars, PsiInv
  <2> QED BY <1>2, <2>1 DEF vars, psiVars, PsiInv, LogInv, TypeOK, Joined, FilterContinuous, Times
<1> QED BY <1>1, <1>2

LEMMA PsiInvariant == Spec => []PsiInv
BY PsiInitial, PsiStep, PTL DEF Spec

-----------------------------------------------------------------------------
\* The fields of struct pg_psi_monitor, the measurement and the credit of the log stay
\* within their types for any constants: no rate exceeds the cut of calc_kalman().
THEOREM TypeCorrect == Spec => []TypeOK
<1>1. PsiInv => TypeOK
  BY DEF PsiInv
<1> QED BY <1>1, PsiInvariant, PTL

\* pg_kalman_update() never joins a measurement to an estimate from before a failed
\* read, a suspension or a silence longer than its age limit.
THEOREM FilterContinuousHolds == Spec => []FilterContinuous
<1>1. PsiInv => FilterContinuous
  BY DEF PsiInv
<1> QED BY <1>1, PsiInvariant, PTL

\* pg_psi_read() divides the growth of total= by the time it grew in, through any
\* failed reads, recoveries and suspensions.
THEOREM RateHonestHolds == Spec => RateHonest
<1>1. PsiInv => [Sample(TRUE) /\ ~first_run /\ ~torn =>
                   \E us \in Measured(Floored(since)) : rate' = Rate(grown, us)]_vars
  BY DEF PsiInv, Joined, Sample, Dt
<1> QED BY <1>1, PsiInvariant, PTL DEF RateHonest

\* should_rate_limit() is a bucket that fills with every millisecond: its lazily
\* refilled credit writes and suppresses what the eager bucket does.
THEOREM BucketImplemented == Spec => ImplementsBucket
<1>1. Init => Bucket!Init
  BY LogInitial DEF Init, Bucket!Init, Bucket!Most, CreditMax
<1>2. PsiInv /\ [Next]_vars => [Bucket!Next]_Refilled
  <2> SUFFICES ASSUME PsiInv, [Next]_vars PROVE Bucket!Next \/ Refilled' = Refilled
    BY DEF Bucket!Next
  <2>1. LogInv /\ Bucket!Most = CreditMax
    BY DEF PsiInv, Bucket!Most, CreditMax
  <2>2. CASE LogErr
    BY <2>1, <2>2, LogErrTakes DEF Bucket!Next, Bucket!Written, Bucket!Suppressed
  <2>3. CASE LogElapse
    BY <2>1, <2>3, LogElapseFills DEF Bucket!Next, Bucket!Fill
  <2>4. CASE UNCHANGED logVars
    BY <2>1, <2>4, LogUnchanged
  <2>5. LogErr \/ LogElapse \/ UNCHANGED logVars
    BY DEF Next, ReadFails, ReadNoLine, Sample, Recover, Resume, OtherError, Elapse, vars
  <2> QED BY <2>2, <2>3, <2>4, <2>5
<1> QED BY <1>1, <1>2, PsiInvariant, PTL DEF Spec, ImplementsBucket, Bucket!Spec
=============================================================================
