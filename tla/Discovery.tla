------------------------------- MODULE Discovery -------------------------------
(***************************************************************************)
(* Which thermal zone src/sys/scan.c measures and which trip point sets    *)
(* the limit.  A directory is a sequence, in the order readdir() happens   *)
(* to list its thermal zones; a zone is                                    *)
(*                                                                         *)
(*   type   its name, NoFile when the type file cannot be read             *)
(*   trips  its trip points, each with a kind and a temp (degrees in the   *)
(*          fixed point); either may be NoFile                             *)
(*                                                                         *)
(* Names are compared, never taken apart: which of them contain one of the *)
(* substrings thermal_valid() looks for is given by CpuLike and Denied.    *)
(***************************************************************************)
EXTENDS FixedPoint, Sequences, FiniteSetsExt

CONSTANTS
  NoFile,
  Priority,  \* PRIORITY, a sequence of names
  CpuLike,   \* the names with cpu, soc, cluster or ap in them
  Denied,    \* the names with a substring of BLACKLIST
  MaxZones,  \* the 256 of pg_scan_thermal_zone()
  MaxTrips   \* the 10 trip points of a zone that trip_point() tries

NoZone == 0

Listed(name) == \E p \in DOMAIN Priority : Priority[p] = name
ThermalValid(name) == name \in CpuLike /\ name \notin Denied

\* The zones whose type can be read, no more than fit into the table
Kept(dir) ==
  LET known == {z \in DOMAIN dir : dir[z].type # NoFile}
  IN  {z \in known : Cardinality({y \in known : y < z}) < MaxZones}

\* find_priority(): the list is searched name by name
FirstOfDirectory(dir) ==
  LET hits == {z \in Kept(dir) : Listed(dir[z].type)} IN IF hits = {} THEN NoZone ELSE Min(hits)
FindPriority(dir) ==
  LET Bearing(p) == {z \in Kept(dir) : dir[z].type = Priority[p]}
      hits == {p \in DOMAIN Priority : Bearing(p) # {}}
  IN  IF hits = {} THEN NoZone ELSE Min(Bearing(Min(hits)))

\* find_heuristic()
FindHeuristic(dir) ==
  LET hits == {z \in Kept(dir) : ThermalValid(dir[z].type)}
  IN  IF hits = {} THEN NoZone ELSE Min(hits)

\* pg_scan_thermal_zone()
ThermalZone(dir) ==
  IF FindPriority(dir) # NoZone THEN FindPriority(dir) ELSE FindHeuristic(dir)

-----------------------------------------------------------------------------
\* type_valid(), of which a variant takes any zone
AnyType(type) == type # NoFile
TypeValid(type) == type # NoFile /\ (Listed(type) \/ ThermalValid(type))

\* trip_point(): those tried, of a kind that throttles or shuts down; it takes the first
Trips(zone) ==
  {i \in DOMAIN zone.trips : i <= MaxTrips /\ zone.trips[i].kind \in {"passive", "critical"}}

\* pg_scan_trip_point(): the first zone of a valid type that has one
TripZones(dir) == {z \in DOMAIN dir : TypeValid(dir[z].type) /\ Trips(dir[z]) # {}}

\* pg_sensor_get_trip_temp(): a temperature that cannot be read, or cannot be true,
\* is replaced; no other trip point is tried.
TripTemp(dir, fallback) ==
  IF TripZones(dir) = {} THEN fallback
  ELSE LET zone == dir[Min(TripZones(dir))]
           temp == zone.trips[Min(Trips(zone))].temp
       IN  IF temp = NoFile THEN fallback
           ELSE IF temp \in (40 * One)..(115 * One) THEN temp ELSE fallback
=============================================================================
