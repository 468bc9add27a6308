------------------------------- MODULE PsiMonitor -------------------------------
(***************************************************************************)
(* The PSI monitor of src/sys/psi.c with the restarts of its Kalman filter *)
(* (src/core/kalman.c): samples of the counter total= become rates over    *)
(* the time between them, reads fail, the node is reopened, the governor   *)
(* resumes after a suspension.  Failed reads go to the log of LogLimiter,  *)
(* and so do the errors of every other part.                               *)
(*                                                                         *)
(* Time is one step for the monitor and the log.  The kernel counts at     *)
(* most one unit of stall in a step.  What the filter estimates is left    *)
(* out: only from which sample it starts and over which time it carries.   *)
(***************************************************************************)
EXTENDS LogLimiter

CONSTANTS
  MinDt,    \* the 1 ms floor of pg_psi_read()
  Stale,    \* the 5 s after which pg_kalman_update() starts again
  Percent,  \* the 100 of a rate
  Micros,   \* the microseconds of a step
  Slip,     \* those lost or gained at most as a time goes through Q16 and back
  RateMax,  \* the 500 a rate is cut at
  MaxGap    \* bound: longest time between two samples

ASSUME PsiAssumption ==
  /\ MinDt \in Nat \ {0} /\ Stale \in Nat \ {0} /\ Percent \in Nat \ {0}
  /\ Micros \in Nat /\ Slip \in Nat /\ Slip < Micros
  /\ RateMax \in Nat /\ MaxGap \in Nat

VARIABLES
  step,       \* "idle", or "recov": read_psi() has seen a read fail
  open,       \* mon->fd >= 0
  first_run,  \* mon->first_run
  fresh,      \* mon->filter.first_run
  age,        \* time since mon->last_read_ts
  grown,      \* the kernel's total minus mon->last_tot
  rate,       \* the measurement given to the filter last; NoRate: it was avg10
  since,      \* history: time since the kernel's total was mon->last_tot
  torn,       \* history: a line without total= since then
  gap,        \* history: time since the filter was given a measurement
  broken,     \* history: a suspension or a failed read since then
  stitched    \* history: the last one was joined to an estimate it does not continue

psiVars == <<step, open, first_run, fresh, age, grown, rate, since, torn, gap, broken, stitched>>
vars == <<logVars, psiVars>>

Times == 0..MaxGap
NoRate == -1
\* last_tot is still 0, and total has grown since the kernel started
NoBase == -1

TypeOK ==
  /\ LogTypeOK
  /\ step \in {"idle", "recov"}
  /\ open \in BOOLEAN /\ first_run \in BOOLEAN /\ fresh \in BOOLEAN
  /\ age \in Times /\ grown \in Times /\ gap \in Times
  /\ rate \in {NoRate} \cup 0..RateMax
  /\ since \in {NoBase} \cup Times
  /\ torn \in BOOLEAN /\ broken \in BOOLEAN /\ stitched \in BOOLEAN

\* pg_psi_init()
Init ==
  /\ LogInit
  /\ step = "idle" /\ open \in BOOLEAN
  /\ first_run = TRUE /\ fresh = TRUE
  /\ age = 0 /\ grown = MaxGap /\ rate = NoRate
  /\ since = NoBase /\ torn = FALSE /\ gap = 0 /\ broken = FALSE /\ stitched = FALSE

-----------------------------------------------------------------------------
(* pg_psi_read() *)

\* The node is not open, or pread() fails or returns nothing.
ReadFails ==
  /\ step = "idle" /\ step' = "recov"
  /\ broken' = TRUE
  /\ LogErr
  /\ UNCHANGED <<open, first_run, fresh, age, grown, rate, since, torn, gap, stitched>>

\* There is no line "some": -ENODATA, without a message.
ReadNoLine ==
  /\ step = "idle" /\ open /\ step' = "recov"
  /\ broken' = TRUE
  /\ UNCHANGED <<logVars, open, first_run, fresh, age, grown, rate, since, torn, gap, stitched>>

\* The floor of pg_psi_read() under a time
Floored(t) == IF t < MinDt THEN MinDt ELSE t
Dt == Floored(age)

\* What calc_kalman() makes of it in microseconds: pg_dt_sec() rounds down in Q16, or up
\* when the nanoseconds part is negative, and dt_us down again.
Measured(dt) == (dt * Micros - Slip)..(dt * Micros + Slip)

\* growth in percent of the microseconds measured, cut at RateMax
Rate(growth, us) ==
  LET raw == (Percent * growth * Micros) \div us IN IF raw > RateMax THEN RateMax ELSE raw

\* pg_kalman_update() begins a new estimate: it was reset, or is too old.
StartsIfReset == first_run \/ fresh
Starts == first_run \/ fresh \/ Dt > Stale

\* counted: the line has its total=.  Without it the stamp moves and last_tot stays.
BasedLater(counted) == counted /\ ~first_run
Based(counted) == counted

Sample(counted) ==
  /\ step = "idle" /\ open
  /\ \E us \in Measured(Dt) :
       rate' = IF first_run THEN NoRate ELSE IF counted THEN Rate(grown, us) ELSE 0
  /\ stitched' = (~Starts /\ (broken \/ gap > Stale))
  /\ first_run' = FALSE /\ fresh' = FALSE
  /\ age' = 0 /\ gap' = 0 /\ broken' = FALSE
  /\ IF Based(counted) THEN grown' = 0 /\ since' = 0 /\ torn' = FALSE
     ELSE torn' = (torn \/ ~counted) /\ UNCHANGED <<grown, since>>
  /\ UNCHANGED <<logVars, step, open>>

-----------------------------------------------------------------------------
(* The governor *)

\* pg_psi_recov(), after every failed read; reopening the node may fail too.
Recover(ok) ==
  /\ step = "recov" /\ step' = "idle"
  /\ open' = ok
  /\ first_run' = (first_run \/ ok) /\ fresh' = (fresh \/ ok)
  /\ UNCHANGED <<logVars, age, grown, rate, since, torn, gap, broken, stitched>>

\* update_disp(): the display is on again.
Resume ==
  /\ step = "idle"
  /\ first_run' = TRUE /\ fresh' = TRUE /\ broken' = TRUE
  /\ UNCHANGED <<logVars, step, open, age, grown, rate, since, torn, gap, stitched>>

\* An error of another part of the daemon
OtherError == LogErr /\ UNCHANGED psiVars

Elapse(stall) ==
  /\ step = "idle" /\ age < MaxGap /\ gap < MaxGap /\ since < MaxGap
  /\ age' = age + 1 /\ gap' = gap + 1
  /\ IF since = NoBase THEN UNCHANGED <<since, grown>>
     ELSE since' = since + 1 /\ grown' = grown + stall
  /\ LogElapse
  /\ UNCHANGED <<step, open, first_run, fresh, rate, torn, broken, stitched>>

Next ==
  \/ ReadFails \/ ReadNoLine \/ \E counted \in BOOLEAN : Sample(counted)
  \/ \E ok \in BOOLEAN : Recover(ok)
  \/ Resume \/ OtherError
  \/ \E stall \in 0..1 : Elapse(stall)

Spec == Init /\ [][Next]_vars

-----------------------------------------------------------------------------
\* A rate is the growth of total= since it was counted last, over just that time as
\* measured to a few microseconds:
\* the first sample after a failed read or a suspension sets both anew, and only a
\* line without total= takes the two apart (psi.c:188-203 and 263-269).
RateHonest ==
  [][Sample(TRUE) /\ ~first_run /\ ~torn =>
       \E us \in Measured(Floored(since)) : rate' = Rate(grown, us)]_vars

\* The filter never joins a measurement to an estimate from before a failed read, a
\* suspension or a silence of more than Stale: no velocity spans the gap
\* (kalman.c:38, psi.c:180-187).
FilterContinuous == ~stitched

Bucket == INSTANCE TokenBucket WITH tokens <- Refilled

\* The log's lazily refilled credit is a bucket filled every millisecond: it lets
\* through at most Burst messages and one more per RefillMs in any span of time, and
\* suppresses none it has room for (log.c:30-47).
ImplementsBucket == Bucket!Spec
=============================================================================
