------------------------------ MODULE PollInterval ------------------------------
(***************************************************************************)
(* The poll interval of src/core/poll.c: every governed tick asks          *)
(* pg_poll_calc_next() how long to wait for the next one.  The interval    *)
(* falls at once under pressure, grows by steps when the baseline is calm, *)
(* is rounded and jittered into the wait, and starts again from the        *)
(* minimum when a tick comes later than the wait that was asked for.       *)
(*                                                                         *)
(* Times are milliseconds.  The pressure is abstracted to the branch it    *)
(* takes, which Pacing computes, the generator to its least, middle and    *)
(* greatest draw.                                                          *)
(*                                                                         *)
(* Definitions that are used nowhere (LateByInterval, AcceptsAbove) are    *)
(* plausible bugs, each a variant of the one after it.                     *)
(***************************************************************************)
EXTENDS Integers

CONSTANTS
  MinPoll, MaxPoll,  \* PG_MIN_POLL_MS, PG_MAX_POLL_MS
  Grow,       \* what a calm tick adds, and the change worth accepting
  Tolerance,  \* how late a tick may be
  Round,      \* what waits are rounded to
  Percent     \* the amplitude of the jitter

ASSUME PollAssumption ==
  /\ {MinPoll, MaxPoll, Grow, Tolerance, Round, Percent} \subseteq Nat \ {0}
  /\ MinPoll <= MaxPoll

VARIABLES
  cur_ivl,    \* the interval
  last_wait,  \* the wait asked for
  calm,       \* history: the last tick's baseline was calm, the pressure low
  over        \* history: how late the last tick was

vars == <<cur_ivl, last_wait, calm, over>>

TypeOK ==
  /\ cur_ivl \in MinPoll..MaxPoll /\ last_wait \in MinPoll..MaxPoll
  /\ calm \in BOOLEAN /\ over \in Int

Init ==
  /\ cur_ivl = MinPoll /\ last_wait = MinPoll
  /\ calm = FALSE /\ over = 0

Bounded(x) == IF x < MinPoll THEN MinPoll ELSE IF x > MaxPoll THEN MaxPoll ELSE x

\* pg_dt_sec() in Q16 and back: a millisecond may be lost
Measured(ms) == (((ms \div 1000) * 65536 + ((ms % 1000) * 65536) \div 1000) * 1000) \div 65536

LateByInterval(elapsed) == Measured(elapsed) > cur_ivl + Tolerance
Late(elapsed) == Measured(elapsed) > last_wait + Tolerance

\* the interval each branch on the pressure asks for
Wanted(input) ==
  CASE input = "surge"  -> MinPoll
    [] input = "load"   -> Bounded(cur_ivl \div 2)
    [] input = "calm"   -> Bounded(cur_ivl + Grow)
    [] input = "steady" -> Bounded(cur_ivl)

AcceptsAbove(ivl) == ivl < cur_ivl \/ ivl - cur_ivl > Grow
Accepts(ivl) == ivl < cur_ivl \/ ivl - cur_ivl >= Grow

\* jitter(): the waits an interval can give
Waits(ivl) ==
  LET mid == Bounded(((ivl + Round \div 2) \div Round) * Round)
      amp == (mid * Percent) \div 100
  IN  {Bounded(mid - amp), mid, Bounded(mid + amp)}

\* A trigger may end the wait early, the timeout ends it on time or later.
Overshoots == {late \in Int : late >= -last_wait}

\* pg_poll_calc_next()
TickLate ==
  /\ Late(last_wait + over')
  /\ cur_ivl' = MinPoll /\ last_wait' = MinPoll

TickInTime(input) ==
  /\ ~Late(last_wait + over')
  /\ cur_ivl' = IF Accepts(Wanted(input)) THEN Wanted(input) ELSE cur_ivl
  /\ last_wait' \in Waits(cur_ivl')

Tick ==
  \E input \in {"surge", "load", "calm", "steady"} :
    /\ over' \in Overshoots /\ calm' = (input = "calm")
    /\ TickLate \/ TickInTime(input)

Next == Tick

Spec == Init /\ [][Next]_vars

-----------------------------------------------------------------------------

\* A tick that comes no later than the tolerance never restarts the interval,
\* whatever the jitter added to the wait: without pressure the interval does not
\* fall.  One that is more than a millisecond later always does (poll.c:93-99).
PaceKept ==
  [][ /\ over' <= Tolerance /\ calm' => cur_ivl' >= cur_ivl
      /\ over' > Tolerance + 1 => last_wait' = MinPoll ]_vars
=============================================================================
