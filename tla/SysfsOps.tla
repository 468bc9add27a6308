------------------------------- MODULE SysfsOps -------------------------------
(***************************************************************************)
(* The operations of src/sys/sysfs.c on one pg_sysfs_cache, as operators   *)
(* from a cache record to the next one.  SysfsCache gives one cache a      *)
(* life of its own; Lifecycle composes several of them with the daemon.    *)
(*                                                                         *)
(* Where an operator is preceded by others with the same parameters, those *)
(* are mutants: the operator with a bug in it, one that the properties of  *)
(* the model must catch.  The same holds in the other modules.             *)
(*                                                                         *)
(* A node's value is a natural number; NoValue stands for UINT64_MAX, the  *)
(* "never written" mark of the field last.  CLOCK_MONOTONIC in ms is kept  *)
(* modulo Wrap, the way mono_ms() truncates it to 32 bits.                 *)
(***************************************************************************)
EXTENDS Integers

CONSTANTS
  NoValue,      \* UINT64_MAX in pg_sysfs_cache.last
  NoFd,         \* -1
  BackoffBase,  \* SYSFS_BACKOFF_BASE_MS
  BackoffMax,   \* SYSFS_BACKOFF_MAX_MS
  FailMax,      \* PG_SYSFS_FAIL_MAX
  Wrap,         \* 2^32, the modulus of mono_ms()
  PerMille      \* the 1000 of relative()

ASSUME NoValueAssumption == NoValue \notin Nat /\ NoFd \notin Nat
ASSUME BackoffAssumption ==
  /\ BackoffBase \in Nat \ {0} /\ BackoffMax \in Nat /\ BackoffBase <= BackoffMax
  /\ FailMax \in Nat \ {0}
ASSUME WrapAssumption == Wrap \in Nat /\ 2 * BackoffMax < Wrap
ASSUME PerMilleAssumption == PerMille \in Nat \ {0}

Distance(a, b) == IF a > b THEN a - b ELSE b - a

-----------------------------------------------------------------------------
(* The change detectors of pg_sysfs_update(). *)

absolute(cur, tgt, thresh) ==
  cur # NoValue => cur # tgt /\ Distance(cur, tgt) >= thresh

relative(cur, tgt, tol) ==
  cur # NoValue =>
    /\ cur # tgt
    /\ cur = 0 \/ Distance(cur, tgt) * PerMille >= cur * tol

WantsWrite(cur, tgt, strat) ==
  /\ strat.type = "ABS"    => absolute(cur, tgt, strat.thresh)
  /\ strat.type = "REL"    => relative(cur, tgt, strat.thresh)
  /\ strat.type = "STRICT" => cur # tgt

-----------------------------------------------------------------------------
(* The write-failure backoff. *)

\* delay = BASE << (fails - 1), capped
DelayUncapped(fails) == BackoffBase * 2^(fails - 1)
Delay(fails) ==
  LET shifted == BackoffBase * 2^(fails - 1)
  IN  IF shifted \in 0..BackoffMax THEN shifted ELSE BackoffMax

\* (int32_t)(mono_ms() - retry_ms) >= 0, in arithmetic modulo Wrap
ReachedUnsigned(now, deadline) == now >= deadline
Reached(now, deadline) == 2 * ((now - deadline) % Wrap) < Wrap

DueAlwaysTimed(cache, now) == Reached(now, cache.retry)
DueUnlessFailed(cache, now) == cache.fails = 0
Due(cache, now) == cache.fails = 0 \/ Reached(now, cache.retry)

Attempts(cache, tgt, strat, now) ==
  cache.active /\ WantsWrite(cache.last, tgt, strat) /\ Due(cache, now)

-----------------------------------------------------------------------------
(* What each operation leaves in the cache. *)

\* The state in which pg_sysfs_cache_init() leaves a cache no path opened for.
UnmappedCache ==
  [active |-> FALSE, hasBase |-> FALSE, fails |-> 0, retry |-> 0,
   last |-> NoValue, base |-> 0, fd |-> NoFd]

\* pg_sysfs_cache_init(): the first path that opens is taken, and its value
\* becomes the base when it reads as a non-negative number.
MappedCache(fd, readable, value) ==
  [active |-> TRUE, hasBase |-> readable, fails |-> 0, retry |-> 0,
   last |-> NoValue, base |-> IF readable THEN value ELSE 0, fd |-> fd]

WriteSucceeded(cache, value) ==
  LET written == [cache EXCEPT !.last = value]
  IN  [written EXCEPT !.fails = 0]

Count(fails) == IF fails < FailMax THEN fails + 1 ELSE fails

WriteFailed(cache, now) ==
  LET n == Count(cache.fails)
      counted == [cache EXCEPT !.fails = n]
  IN  [counted EXCEPT !.retry = (now + Delay(n)) % Wrap]

\* pg_sysfs_restore() has something to put back.
NeedsRestore(cache) ==
  cache.active /\ cache.hasBase /\ cache.last \notin {NoValue, cache.base}

RestoreSucceeded(cache) == [cache EXCEPT !.last = cache.base]

\* pg_sysfs_cache_cleanup()
ClosedCache(cache) ==
  LET closed == [cache EXCEPT !.fd = NoFd]
  IN  [closed EXCEPT !.active = FALSE]
=============================================================================
