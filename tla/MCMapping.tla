------------------------------ MODULE MCMapping ------------------------------
\* The limits of policy/config.c, four devices, and inputs around every bend of the curves.
EXTENDS Mapping

MCBaseLim == [minLat |-> Milli(8000), maxLat |-> Milli(20000),
              minGran |-> Milli(2500), maxGran |-> Milli(6500),
              minWake |-> Milli(1500), maxWake |-> Milli(6500),
              minMig |-> Milli(200), maxMig |-> Milli(600),
              minWalt |-> Milli(10000), maxWalt |-> Milli(40000),
              minUcl |-> 0, maxUcl |-> 384 * One]

MCDevices == {
  \* two clusters, the little one second, with one core without a capacity
  [cores |-> 4, freq |-> <<3000, 3000, 1800, 1800>>, capacity |-> <<1024, 0, 290, 290>>,
   usable |-> 1..4],
  \* small, without capacities
  [cores |-> 2, freq |-> <<1400, 1200>>, capacity |-> <<0, 0>>, usable |-> 1..2],
  \* nothing readable
  [cores |-> 3, freq |-> <<0, 0, 0>>, capacity |-> <<0, 0, 0>>, usable |-> 2..3],
  \* large, and the cores of least capacity are taken away
  [cores |-> 8, freq |-> <<2000, 2000, 2000, 3300, 3300, 3300, 3300, 3600>>,
   capacity |-> <<800, 800, 800, 1024, 1024, 1024, 1024, 1024>>, usable |-> 4..8]}

\* nothing, below and above the middles of the sigmoids, the end of the ramps, the cap
MCDemands == {0, 6 * One, 7 * One, 11 * One, 40 * One, 101 * One, 500 * One}
MCVelocities == {-30 * One, 0, Milli(300), 3 * One, 40 * One}
\* the least the thermal control returns, the cap of a hot battery, and no restriction
MCScales == {Milli(100), Milli(200), Milli(650), One}
MCLevels == {0, 35 * One, 100 * One}
MCBaselines == {0, 12 * One}
=============================================================================
