------------------------------ MODULE LoadDemand ------------------------------
(***************************************************************************)
(* The load demand of src/core/cpu.c: a mass on a spring that chases the   *)
(* pressure, with a force of the battery's depletion against it and a      *)
(* damper, all of whose coefficients follow the temperature and the        *)
(* battery.  A reading in is                                               *)
(*                                                                         *)
(*   cur, vel    the filtered pressure and its velocity                    *)
(*   break       nis > nis_thresh: the pressure has jumped                 *)
(*   base        avg300                                                    *)
(*   scale, bat  the thermal scale and the level of the battery            *)
(*                                                                         *)
(* and a load is psi (psi_val), rate, integ (prev_integ) and fresh         *)
(* (first_run) of struct pg_load_state.                                    *)
(***************************************************************************)
EXTENDS FixedPoint

CONSTANT RootBits  \* bound: every root is below 2^RootBits

ASSUME RootAssumption ==
  RootBits \in Nat \ {0} /\ 62 * One * One < 2^RootBits * 2^RootBits

\* The exact product and quotient where One times as much would not fit 31 bits; a
\* divisor is positive.
WideMul(a, b) == (a \div One) * b + ((a % One) * b) \div One
WideDiv(a, b) == (a \div b) * One + ((a % b) * One) \div b

\* pg_math_q16_sqrt(): the largest root whose square is not above x, bit by bit
Sqrt(x) ==
  LET up[bit \in 0..RootBits] ==
        [root \in Nat |-> IF bit = 0 THEN root
                         ELSE LET more == root + 2^(bit - 1)
                              IN  up[bit - 1][IF more * more <= x * One THEN more ELSE root]]
  IN  up[RootBits][0]

\* The bits hold the root that a velocity asks for.
RootFits(vel) ==
  vel \in 1..(180 * One - 1) => (One + Mul(vel, vel)) * One < 2^RootBits * 2^RootBits

AlgSig(x) == IF x >= 180 * One THEN One ELSE Div(x, Sqrt(One + Mul(x, x)))

\* pg_cpu_upd_eff()
Charge(bat) == Div(Clamp(bat, 0, 100 * One), 100 * One)
Eff(in) ==
  LET health == Mul(Charge(in.bat), in.scale)
      noise == Clamp(Mul(in.base, Milli(100)), 0, One)
  IN  [resp |-> Mul(31 * One, health), surge |-> Mul(Milli(95), health),
       amp |-> Mul(Milli(115), health),
       lookahead |-> Mul(Milli(170), in.scale), decay |-> Mul(Milli(19), in.scale),
       sigMid |-> Milli(6800) + Mul(Milli(500), in.base),
       uclMid |-> Milli(9500) + Mul(Milli(500), in.base),
       stab |-> Lerp(Milli(1500), Milli(3500), noise),
       alpha |-> Lerp(Milli(990), Milli(850), noise)]

Trend(vel) == IF vel > 0 THEN AlgSig(vel) ELSE 0

\* pg_cpu_calc_eff_press()
EffPress(demand, vel, eff) == Mul(demand, One + Mul(Trend(vel), eff.amp))

-----------------------------------------------------------------------------
Empty == [psi |-> 0, rate |-> 0, integ |-> 0, fresh |-> TRUE]

\* pg_cpu_upd_intg(): how far the battery is down, and what has been added to it
Depletion(bat) ==
  LET d == Div(100 * One - Clamp(bat, 0, 100 * One), 100 * One)
  IN  Mul(97 * One, Mul(Mul(d, d), d))
Depleting(load, in, elapsed) ==
  IF load.fresh \/ elapsed = 0 THEN 0 ELSE Div(Depletion(in.bat) - load.integ, 5 * One)

\* k_fin
Stiffness(in, eff) ==
  LET th == Clamp(in.scale, Milli(100), One)
  IN  Mul(Mul(eff.resp, One + Mul(eff.alpha, Trend(in.vel))), Mul(th, th))

\* calc_l_term()
Load(psi, in, k) ==
  LET force == WideMul(Depletion(in.bat), psi) IN IF force > 150 * k THEN 150 * k ELSE force

\* calc_c_final()
Damping(psi, in, k, eff, depleting) ==
  LET base == Mul(Mul(2 * One, Sqrt(k)), eff.stab)
      most == 4 * base
      num == WideMul(WideMul(Abs(depleting) \div 2, psi), psi)
      load == WideMul(in.vel, in.vel) + Milli(1)
      required == IF num >= WideMul(most, load) THEN most ELSE WideDiv(num, load)
      stable == Mul(required, Milli(3100))
      cooled == Div(base, Sqrt(Clamp(in.scale, Milli(100), One)))
  IN  IF cooled > stable THEN cooled ELSE stable

\* Nothing measured and nothing left: the demand ends at once.
Quiet(load, in) ==
  /\ in.cur < One /\ Abs(in.vel) < Milli(10)
  /\ load.psi < One /\ Abs(load.rate) < Milli(10)

\* A jump of the pressure is followed at once, and a steep one pushes.
Pushed(load, in, eff, cfg) ==
  LET kept == IF in.break THEN [load EXCEPT !.psi = in.cur, !.rate = 0] ELSE load
  IN  IF Abs(in.vel) > cfg.surgeThresh THEN [kept EXCEPT !.rate = @ + Mul(in.vel, eff.surge)]
                                       ELSE kept

\* pg_cpu_upd_intg() and pg_cpu_calc_load_demand(), from the reading of a run
\* and the time since the last one
Demanded(load, in, elapsed, cfg) ==
  LET eff == Eff(in)
      dt == Clamp(elapsed, 1, Milli(100))
      from == Pushed(load, in, eff, cfg)
      k == Stiffness(in, eff)
      pred == in.cur + Mul(in.vel, eff.lookahead)
      force == Clamp(WideMul(k, pred - from.psi) - Load(from.psi, in, k), -32000 * One, 32000 * One)
      damping == Damping(from.psi, in, k, eff, Depleting(load, in, elapsed))
      rate == Div(from.rate + Mul(force, dt), One + Mul(damping, dt))
      psi == from.psi + Mul(rate, dt)
      seen == [load EXCEPT !.integ = Depletion(in.bat), !.fresh = FALSE]
  IN  IF Quiet(load, in) THEN [seen EXCEPT !.psi = 0, !.rate = 0]
      ELSE [seen EXCEPT !.psi = Clamp(psi, 0, 500 * One),
                        !.rate = IF psi \in 0..(500 * One) THEN rate ELSE 0]

\* pg_cpu_trans(): the demand moves, or has moved away from the one mapped last
Moves(load, ref, cfg) ==
  Abs(load.rate) > cfg.transRate \/ Abs(load.psi - ref) > cfg.transDiff
=============================================================================
