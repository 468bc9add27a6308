------------------------------ MODULE MCThermal ------------------------------
EXTENDS Thermal

MCPriority == <<"cpu", "soc_thermal">>

\* Zones that are listed, with a trip point that cannot be read, one that cannot be true
\* and one so low that the floor applies; one that only looks like a CPU's, with a trip
\* point that counts or one too far behind; one that is denied although it looks so, one of
\* something else, and one whose type cannot be read
Trip(kind, temp) == [kind |-> kind, temp |-> temp]
MCZones == {
  [type |-> "cpu", trips |-> <<Trip("active", 50 * One), Trip("passive", NoFile)>>],
  [type |-> "cpu", trips |-> <<Trip("critical", 125 * One), Trip("passive", 60 * One)>>],
  [type |-> "soc_thermal", trips |-> <<Trip(NoFile, 70 * One), Trip("passive", 43 * One)>>],
  [type |-> "apc", trips |-> <<Trip("critical", 70 * One)>>],
  [type |-> "apc", trips |-> <<Trip("active", 50 * One), Trip(NoFile, 60 * One),
                               Trip("critical", 80 * One)>>],
  [type |-> "ap-skin", trips |-> <<Trip("passive", 46 * One)>>],
  [type |-> "battery", trips |-> <<Trip("passive", 60 * One)>>],
  [type |-> NoFile, trips |-> <<Trip("passive", 80 * One)>>]}

\* Every order of up to three of them, where only two fit into the table
MCDirectories == UNION {[1..n -> MCZones] : n \in 0..3}

\* A device whose index is One: its gains are the largest, and none rounds to nothing.
MCDevices ==
  {[cores |-> 8, freq |-> [i \in 1..8 |-> 3500], capacity |-> [i \in 1..8 |-> 1024],
    usable |-> 1..8]}
MCTemps == {45 * One, 90 * One}
MCVelocities == {-4 * One, 0, 4 * One}
MCBatteries == {30 * One, 39 * One}
=============================================================================
