------------------------------ MODULE SysfsCache ------------------------------
(***************************************************************************)
(* One pg_sysfs_cache of src/sys/sysfs.c, from pg_sysfs_cache_init() to    *)
(* pg_sysfs_cache_cleanup(), with the kernel nodes its candidate paths     *)
(* name and the monotonic clock its backoff reads.                         *)
(*                                                                         *)
(* The governor calls pg_sysfs_update() again and again with the values it *)
(* computes (gov.c never passes force); the daemon calls                   *)
(* pg_sysfs_restore() once, before the cleanup.  A write may succeed, fail *)
(* and leave the node alone, or be short (-EIO): reported as a failure     *)
(* although the kernel took the value.                                     *)
(***************************************************************************)
EXTENDS SysfsOps

CONSTANTS
  NPaths,    \* candidates of the paths[] array
  Values,    \* what nodes hold and the governor asks for
  Strats     \* the pg_sysfs_chk records a cache may be updated with

ASSUME NPathsAssumption == NPaths \in Nat \ {0}
ASSUME ValuesAssumption == Values \subseteq Nat /\ Values # {}
ASSUME StratsAssumption ==
  \A s \in Strats : s.type \in {"ABS", "REL", "STRICT"} /\ s.thresh \in Nat

VARIABLES
  phase,     \* where the cache is in its life
  cache,     \* the struct
  strat,     \* the const pg_sysfs_chk of this tunable
  node,      \* what the kernel holds at each candidate path
  now,       \* mono_ms()
  healed,    \* the kernel has stopped refusing writes
  original,  \* history: node at pg_sysfs_cache_init()
  want,      \* history: the last value pg_sysfs_update() was asked for
  ago,       \* history: time since the last write attempt, up to Horizon
  torn,      \* history: a short write came after the last successful one
  outcome    \* history: what pg_sysfs_restore() did

vars == <<phase, cache, strat, node, now, healed, original, want, ago,
          torn, outcome>>

Paths == 1..NPaths
Horizon == (Wrap + 1) \div 2

\* struct pg_sysfs_cache
CacheType ==
  [active : BOOLEAN, hasBase : BOOLEAN, fails : 0..FailMax,
   retry : 0..(Wrap - 1), last : Values \cup {NoValue},
   base : Values \cup {0}, fd : Paths \cup {NoFd}]

TypeOK ==
  /\ phase \in {"new", "ready", "restored", "closed"}
  /\ cache \in CacheType
  /\ strat \in Strats
  /\ node \in [Paths -> Values]
  /\ now \in 0..(Wrap - 1)
  /\ healed \in BOOLEAN
  /\ original \in [Paths -> Values]
  /\ want \in Values \cup {NoValue}
  /\ ago \in 0..Horizon
  /\ torn \in BOOLEAN
  /\ outcome \in {"none", "skipped", "ok", "failed"}

Init ==
  /\ phase = "new"
  /\ cache = UnmappedCache
  /\ strat \in Strats
  /\ node \in [Paths -> Values]
  /\ now \in {0, Wrap - 1}
  /\ healed = FALSE
  /\ original = node
  /\ want = NoValue
  /\ ago = 0
  /\ torn = FALSE
  /\ outcome = "none"

-----------------------------------------------------------------------------
\* A pwrite() of v to the open node.  short: the kernel took the value, the
\* call reports fewer bytes.
Accepted(v) == node' = [node EXCEPT ![cache.fd] = v]

Refused(v, short) ==
  /\ ~healed
  /\ node' = IF short THEN [node EXCEPT ![cache.fd] = v] ELSE node

\* The cache of the path that opened: the base is read from that same path.
ProbedFirstPath(fd, readable) == MappedCache(fd, fd \in readable, node[1])
Probed(fd, readable) == MappedCache(fd, fd \in readable, node[fd])

\* pg_sysfs_cache_init(cache, paths): openable is the set of candidates that
\* open O_WRONLY, readable the set whose value reads as a number >= 0.
CacheInit(openable, readable) ==
  /\ phase = "new"
  /\ phase' = "ready"
  /\ \/ openable = {} /\ cache' = UnmappedCache
     \/ \E first \in openable :
          /\ \A q \in openable : first <= q
          /\ cache' = Probed(first, readable)
  /\ UNCHANGED <<strat, node, now, healed, original, want, ago, torn,
                 outcome>>

\* pg_sysfs_update(cache, v, false, strat), the write being suppressed
UpdateSkip(v) ==
  /\ phase = "ready"
  /\ ~Attempts(cache, v, strat, now)
  /\ want' = v
  /\ UNCHANGED <<phase, cache, strat, node, now, healed, original, ago, torn,
                 outcome>>

UpdateOk(v) ==
  /\ phase = "ready"
  /\ Attempts(cache, v, strat, now)
  /\ Accepted(v)
  /\ cache' = WriteSucceeded(cache, v)
  /\ want' = v
  /\ ago' = 0 /\ torn' = FALSE
  /\ UNCHANGED <<phase, strat, now, healed, original, outcome>>

UpdateFail(v, short) ==
  /\ phase = "ready"
  /\ Attempts(cache, v, strat, now)
  /\ Refused(v, short)
  /\ cache' = WriteFailed(cache, now)
  /\ want' = v
  /\ ago' = 0 /\ torn' = (torn \/ short)
  /\ UNCHANGED <<phase, strat, now, healed, original, outcome>>

\* pg_sysfs_restore(cache)
RestoreSkip ==
  /\ phase = "ready"
  /\ ~NeedsRestore(cache)
  /\ phase' = "restored" /\ outcome' = "skipped"
  /\ UNCHANGED <<cache, strat, node, now, healed, original, want, ago,
                 torn>>

RestoreOk ==
  /\ phase = "ready"
  /\ NeedsRestore(cache)
  /\ Accepted(cache.base)
  /\ cache' = RestoreSucceeded(cache)
  /\ phase' = "restored" /\ outcome' = "ok"
  /\ UNCHANGED <<strat, now, healed, original, want, ago, torn>>

RestoreFail(short) ==
  /\ phase = "ready"
  /\ NeedsRestore(cache)
  /\ Refused(cache.base, short)
  /\ phase' = "restored" /\ outcome' = "failed"
  /\ UNCHANGED <<cache, strat, now, healed, original, want, ago, torn>>

\* pg_sysfs_cache_cleanup(cache)
CacheCleanup ==
  /\ phase = "restored"
  /\ phase' = "closed"
  /\ cache' = ClosedCache(cache)
  /\ UNCHANGED <<strat, node, now, healed, original, want, ago, torn,
                 outcome>>

\* CLOCK_MONOTONIC advances by one unit.
Tick ==
  /\ phase = "ready"
  /\ now' = (now + 1) % Wrap
  /\ ago' = IF cache.fails = 0 \/ ago = Horizon THEN ago ELSE ago + 1
  /\ UNCHANGED <<phase, cache, strat, node, healed, original, want, torn,
                 outcome>>

\* The kernel stops refusing this node's writes, for good.
Heal ==
  /\ ~healed /\ phase = "ready"
  /\ healed' = TRUE
  /\ UNCHANGED <<phase, cache, strat, node, now, original, want, ago,
                 torn, outcome>>

Update(v) == UpdateSkip(v) \/ UpdateOk(v) \/ \E short \in BOOLEAN : UpdateFail(v, short)

Restore == RestoreSkip \/ RestoreOk \/ \E short \in BOOLEAN : RestoreFail(short)

Next ==
  \/ \E openable, readable \in SUBSET Paths : CacheInit(openable, readable)
  \/ \E v \in Values : Update(v)
  \/ Restore
  \/ CacheCleanup
  \/ Tick
  \/ Heal

Spec == Init /\ [][Next]_vars

\* The governor asks again for what it asked for: while the display is on the thermal
\* update makes it map its demand anew every PG_THERM_CHK_SEC, moved or not.
Repeat == \E v \in Values : want = v /\ Update(v)

\* Time passes, and a governor whose display stays on meets the windows, of 2^31 ms
\* each, in which the backoff lets it repeat a request that failed.
FairSpec == Spec /\ WF_vars(Tick) /\ SF_vars(Repeat)

-----------------------------------------------------------------------------
\* pg_sysfs_update() leaves the node where the last request is within the
\* tunable's tolerance, unless it is backing off from a failed write.
Tracking ==
  phase = "ready" /\ cache.active /\ cache.fails = 0 /\ want # NoValue =>
    ~WantsWrite(node[cache.fd], want, strat)

\* The field last is the node's value whenever the last attempt succeeded,
\* whatever failed, torn or suppressed writes came before.
LastIsNode ==
  phase = "ready" /\ cache.fails = 0 /\ cache.last # NoValue =>
    node[cache.fd] = cache.last

\* pg_sysfs_restore() brings the boot-time value back: when it writes, and also
\* when it decides from the cache alone that there is nothing to write, as long
\* as no short write changed the node behind the cache's back.
RestoreBringsBack ==
  /\ phase = "restored" /\ cache.hasBase
  /\ outcome = "ok" \/ (outcome = "skipped" /\ ~torn)
  => node[cache.fd] = original[cache.fd]

\* After a failed write the cache reopens for attempts once the longest backoff
\* has passed, for as long as the 32-bit difference can tell past from future.
BackoffReopens ==
  cache.fails > 0 /\ BackoffMax <= ago /\ 2 * ago < Wrap =>
    Due(cache, now)

\* A node that keeps refusing is not hammered: an attempt after n failures in a
\* row comes no sooner than the n-th delay after the last one, across the wrap
\* of the millisecond counter.
NoHammering ==
  [][cache.fails > 0 /\ cache' # cache /\ phase' = "ready" =>
       ago >= Delay(cache.fails)]_vars

\* The cache believes that v is met, and the node is within v's tolerance, unless a short
\* write moved it and the repetition is suppressed since last agrees (sysfs.c:253-266).
Met(v) ==
  /\ ~WantsWrite(cache.last, v, strat)
  /\ torn \/ ~WantsWrite(node[cache.fd], v, strat)

\* Once the kernel accepts writes again, the request the governor keeps repeating is met
\* and stays so: the backoff never becomes a dead end.
Recovers ==
  <>healed /\ <>[][want' = want]_vars =>
    <>[](phase # "ready" \/ ~cache.active \/ want = NoValue \/ Met(want))
=============================================================================
