-------------------------------- MODULE Pacing --------------------------------
(***************************************************************************)
(* What paces the governor while the display is on: calc_demand() and      *)
(* gov_gate() of src/core/gov.c.  From the reading of a run come the load  *)
(* demand (LoadDemand), the next interval (PollInterval), whether the      *)
(* nodes are mapped anew, and how soon the next run follows: sooner while  *)
(* the demand moves, which decides how far it moves until then.            *)
(*                                                                         *)
(* The reactor answers with the time it wakes up at.  MaxRuns readings may *)
(* follow each other in any way; then the device settles.                  *)
(***************************************************************************)
EXTENDS PollInterval, LoadDemand

CONSTANTS
  Cfg,        \* CFG_CPU, as Tune calibrates it for a device
  TransPoll,  \* its trans_poll, in milliseconds
  Readings,   \* bound: the readings tried
  Steady,     \* bound: the ones tried as those that never change again
  Lateness,   \* bound: how late a wake-up may be, in milliseconds
  MaxRuns     \* bound: the runs before the device settles

ASSUME PacingAssumption == TransPoll \in Nat \ {0} /\ MaxRuns \in Nat /\ Lateness \subseteq Nat
\* The thermal scale is clamped between a tenth and one (thermal.c:98-101).
ASSUME ReadingAssumption ==
  \A in \in Readings \cup Steady :
    /\ in \in [cur : Int, vel : Int, break : BOOLEAN, scale : 1..One, bat : Int, base : Int]
    /\ RootFits(in.vel)

VARIABLES
  load,    \* ctx->load_state
  ref,     \* psi_ref, the demand the nodes were mapped from last
  wake,    \* ctx->next_wake
  runs,    \* runs before the device settled
  turn,    \* history: turned over by every run
  settled  \* the only reading there is from now on, or none when any may follow

pacingVars == <<vars, load, ref, wake, runs, turn, settled>>

PacingInit ==
  /\ Init
  /\ load = Empty /\ ref = 0 /\ wake = MinPoll
  /\ runs = 0 /\ turn = FALSE /\ settled = {}

\* The branch pg_poll_calc_next() takes on the effective pressure
Branch(press, in) ==
  LET pred == press + Mul(in.vel, One \div 2)
  IN  IF pred > 5 * One \/ in.vel > 2 * One THEN "surge"
      ELSE IF pred > Milli(1500) THEN "load"
      ELSE IF in.base < 2 * One THEN "calm" ELSE "steady"

\* gov_gate(): a demand that moves is followed more closely.
KeepsRef(moving, remap) == ref
Reference(moving, remap) == IF moving \/ remap THEN load'.psi ELSE ref
Wake(moving) == IF moving /\ last_wait' > TransPoll THEN TransPoll ELSE last_wait'

\* One run, elapsed milliseconds after the last; remap: the thermal control was run.
Run(in, elapsed, remap) ==
  LET press == EffPress(load'.psi, in.vel, Eff(in))
      moving == Moves(load', ref, Cfg)
  IN  /\ over' = elapsed - last_wait
      /\ load' = Demanded(load, in, (elapsed * One) \div 1000, Cfg)
      /\ \E input \in {"surge", "load", "calm", "steady"} :
           /\ Branch(press, in) = input /\ calm' = (input = "calm")
           /\ TickLate \/ TickInTime(input)
      /\ ref' = Reference(moving, remap)
      /\ wake' = Wake(moving)
      /\ turn' = ~turn

\* A trigger ends the wait early, the timeout ends it on time or late.
AnyRun(reading) ==
  /\ settled = {} /\ runs < MaxRuns
  /\ \E elapsed \in {0} \cup {wake + late : late \in Lateness}, remap \in BOOLEAN :
       Run(reading, elapsed, remap)
  /\ runs' = runs + 1
  /\ UNCHANGED settled

\* Not the program: from now on nothing changes, and the reactor is never late.
Settle(reading) ==
  /\ settled = {} /\ settled' = {reading}
  /\ UNCHANGED <<vars, load, ref, wake, runs, turn>>

SteadyRun ==
  /\ \E reading \in settled, remap \in BOOLEAN : Run(reading, wake, remap)
  /\ UNCHANGED <<runs, settled>>

PacingNext ==
  \/ \E reading \in Readings : AnyRun(reading)
  \/ \E reading \in Steady : Settle(reading)
  \/ SteadyRun

\* A wait is followed by a run; only of the settled device is it needed, where a step
\* that turns is a run.
PacingSpec ==
  PacingInit /\ [][PacingNext]_pacingVars /\ WF_turn(settled # {} /\ turn' = ~turn)

-----------------------------------------------------------------------------
\* Under a pressure that stays as it is, whatever came before, the demand comes to rest:
\* the governor stops following it at the short interval, and maps anew only when
\* the thermal control asks for it (cpu.c:6-15, 122-186; gov.c:217-241).
Settles == settled # {} ~> [](wake = last_wait)

\* Without pressure the demand ends at nothing, not near it, and with a calm baseline
\* the interval relaxes to within a step of its maximum (cpu.c:132-139, poll.c:101-121).
Rests ==
  (\E reading \in settled : reading.cur < One /\ reading.base < 2 * One)
    ~> [](load.psi = 0 /\ load.rate = 0 /\ cur_ivl > MaxPoll - Grow)
=============================================================================
