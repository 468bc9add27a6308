------------------------------- MODULE MCPacing -------------------------------
EXTENDS Pacing

\* CFG_CPU as calibrated in the middle of the range
MCCfg == [surgeThresh |-> Milli(18500), transRate |-> Milli(140), transDiff |-> Milli(650)]

Reading(cur, vel, break, scale, bat, base) ==
  [cur |-> cur, vel |-> vel, break |-> break, scale |-> scale, bat |-> bat, base |-> base]

\* nothing, a calm, a climb, a jump, a fall, a hot device, one that is nearly empty
MCReadings == {
  Reading(0, 0, FALSE, One, 100 * One, 0),
  Reading(2 * One, One, FALSE, One, 60 * One, 0),
  Reading(30 * One, 25 * One, FALSE, One, 100 * One, 3 * One),
  Reading(60 * One, 30 * One, TRUE, Milli(500), 60 * One, 12 * One),
  Reading(10 * One, -25 * One, FALSE, One, 60 * One, 3 * One),
  Reading(40 * One, 0, FALSE, Milli(200), 30 * One, 3 * One)}

\* without pressure, a light one and a heavy one, of full, half empty and hot devices
MCSteady == {
  Reading(0, 0, FALSE, One, 100 * One, 0),
  Reading(0, 0, FALSE, Milli(500), 30 * One, 0),
  Reading(2 * One, 0, FALSE, One, 60 * One, 0),
  Reading(60 * One, 0, FALSE, One, 30 * One, 12 * One),
  Reading(5 * One, 0, FALSE, Milli(200), 20 * One, 0),
  Reading(40 * One, 0, FALSE, Milli(500), 80 * One, 3 * One)}
=============================================================================
