--------------------------- MODULE SysfsCacheProofs ---------------------------
(***************************************************************************)
(* What SysfsCache promises for every number of candidate paths, every set *)
(* of values and detectors, and every backoff.                             *)
(***************************************************************************)
EXTENDS SysfsCache, TLAPS

\* The backoff delay is a time of at most BackoffMax, however far the shift of
\* pg_sysfs_update() goes.
LEMMA DelayRange ==
  ASSUME NEW n
  PROVE  Delay(n) \in 0..BackoffMax
BY BackoffAssumption DEF Delay

\* A change detector that has just seen its target written stays silent for
\* that target, and one that was never written always asks for the write.
LEMMA WantsWriteEnds ==
  ASSUME NEW s \in Strats, NEW v \in Values
  PROVE  ~WantsWrite(v, v, s) /\ WantsWrite(NoValue, v, s)
<1>1. s.type \in {"ABS", "REL", "STRICT"}
  BY StratsAssumption
<1>2. v # NoValue
  BY NoValueAssumption, ValuesAssumption
<1> QED
  BY <1>1, <1>2 DEF WantsWrite, absolute, relative

LEMMA ConstantTypes ==
  /\ Wrap \in Nat /\ Wrap > 0
  /\ Horizon \in Nat
  /\ FailMax \in Nat
<1>1. Wrap \in Nat /\ Wrap > 0 /\ FailMax \in Nat
  BY WrapAssumption, BackoffAssumption
<1>2. Horizon \in Nat
  BY <1>1 DEF Horizon
<1> QED BY <1>1, <1>2

-----------------------------------------------------------------------------
(* The operations of SysfsOps keep the struct well formed. *)

\* pg_sysfs_cache_init(), when no path opens and when one does.
LEMMA UnmappedType == UnmappedCache \in CacheType
BY ConstantTypes DEF UnmappedCache, CacheType

LEMMA MappedType ==
  ASSUME NEW fd \in Paths, NEW readable \in BOOLEAN, NEW value \in Values
  PROVE  MappedCache(fd, readable, value) \in CacheType
BY ConstantTypes DEF MappedCache, CacheType

\* pg_sysfs_update(), after a write that succeeds and after one that fails.
LEMMA WriteSucceededType ==
  ASSUME NEW c \in CacheType, NEW v \in Values
  PROVE  /\ WriteSucceeded(c, v) \in CacheType
         /\ WriteSucceeded(c, v).last = v
         /\ WriteSucceeded(c, v).fails = 0
         /\ \A f \in {"active", "hasBase", "base", "fd", "retry"} :
              WriteSucceeded(c, v)[f] = c[f]
<1> DEFINE w == [c EXCEPT !.last = v]
<1>1. w \in CacheType /\ w.last = v
      /\ \A f \in {"active", "hasBase", "base", "fd", "retry"} : w[f] = c[f]
  BY DEF CacheType
<1>2. WriteSucceeded(c, v) = [w EXCEPT !.fails = 0]
  BY DEF WriteSucceeded
<1> HIDE DEF w
<1> QED BY <1>1, <1>2, ConstantTypes DEF CacheType

LEMMA WriteFailedType ==
  ASSUME NEW c \in CacheType, NEW t \in 0..(Wrap - 1)
  PROVE  /\ WriteFailed(c, t) \in CacheType
         /\ WriteFailed(c, t).fails > 0
         /\ WriteFailed(c, t).retry = (t + Delay(WriteFailed(c, t).fails)) % Wrap
         /\ \A f \in {"active", "hasBase", "base", "fd", "last"} :
              WriteFailed(c, t)[f] = c[f]
<1> DEFINE n == Count(c.fails)
           w == [c EXCEPT !.fails = n]
           r == (t + Delay(n)) % Wrap
<1>1. n \in 1..FailMax
  BY BackoffAssumption DEF CacheType, Count
<1>2. r \in 0..(Wrap - 1)
  <2>1. Delay(n) \in 0..BackoffMax
    BY DelayRange
  <2>2. t + Delay(n) \in Int
    BY <2>1, BackoffAssumption, ConstantTypes
  <2> HIDE DEF n
  <2> QED BY <2>2, ConstantTypes
<1>3. WriteFailed(c, t) = [w EXCEPT !.retry = r]
  BY DEF WriteFailed
<1>5. r = (t + Delay(n)) % Wrap
  OBVIOUS
<1> HIDE DEF n, r
<1>4. w \in CacheType /\ w.fails = n
      /\ \A f \in {"active", "hasBase", "base", "fd", "last"} : w[f] = c[f]
  BY <1>1 DEF CacheType
<1> HIDE DEF w
<1> QED BY <1>1, <1>2, <1>3, <1>4, <1>5 DEF CacheType

\* pg_sysfs_restore() and pg_sysfs_cache_cleanup().
LEMMA RestoreSucceededType ==
  ASSUME NEW c \in CacheType, c.base \in Values
  PROVE  /\ RestoreSucceeded(c) \in CacheType
         /\ \A f \in {"active", "hasBase", "base", "fd", "retry", "fails"} :
              RestoreSucceeded(c)[f] = c[f]
BY DEF RestoreSucceeded, CacheType

LEMMA ClosedType ==
  ASSUME NEW c \in CacheType
  PROVE  /\ ClosedCache(c) \in CacheType
         /\ ClosedCache(c).fd = NoFd
         /\ ClosedCache(c).fails = c.fails /\ ClosedCache(c).retry = c.retry
<1> DEFINE w == [c EXCEPT !.fd = NoFd]
<1>1. w \in CacheType /\ w.fd = NoFd /\ w.fails = c.fails /\ w.retry = c.retry
  BY DEF CacheType
<1>2. ClosedCache(c) = [w EXCEPT !.active = FALSE]
  BY DEF ClosedCache
<1> HIDE DEF w
<1> QED BY <1>1, <1>2 DEF CacheType

-----------------------------------------------------------------------------
(* The inductive invariant. *)

\* The struct agrees with the life of the cache: a mapped cache names an open
\* path and remembers the value that path had, an unmapped one nothing.
Mapped ==
  /\ phase = "new" =>
       cache = UnmappedCache /\ node = original /\ want = NoValue /\ ~torn
  /\ phase # "closed" =>
       IF cache.active THEN cache.fd \in Paths
                       ELSE cache.fd = NoFd /\ cache.last = NoValue
  /\ phase # "closed" /\ cache.hasBase =>
       cache.active /\ cache.base = original[cache.fd]

\* The cache knows what the node holds unless a short write came last.
NodeKnown ==
  phase = "ready" /\ cache.active =>
    /\ cache.fails = 0 => ~torn
    /\ ~torn => node[cache.fd] =
                  IF cache.last = NoValue THEN original[cache.fd] ELSE cache.last

\* The last request is within tolerance of the last value written.
LastTracks ==
  phase = "ready" /\ cache.active /\ cache.fails = 0 /\ want # NoValue =>
    cache.last # NoValue /\ ~WantsWrite(cache.last, want, strat)

CacheInv ==
  /\ TypeOK
  /\ Mapped
  /\ NodeKnown
  /\ LastTracks
  /\ RestoreBringsBack

LEMMA CacheInvInit == Init => CacheInv
<1> SUFFICES ASSUME Init PROVE CacheInv
  OBVIOUS
<1>1. cache = UnmappedCache /\ cache \in CacheType
  BY UnmappedType DEF Init
<1>2. TypeOK
  <2>1. now \in 0..(Wrap - 1)
    BY ConstantTypes DEF Init
  <2>2. ago \in 0..Horizon
    BY ConstantTypes DEF Init
  <2> QED BY <1>1, <2>1, <2>2 DEF Init, TypeOK
<1>3. Mapped
  BY <1>1 DEF Init, Mapped, UnmappedCache
<1> QED
  BY <1>2, <1>3
     DEF CacheInv, Init, NodeKnown, LastTracks, RestoreBringsBack

LEMMA InitStep ==
  ASSUME CacheInv, NEW openable \in SUBSET Paths, NEW readable \in SUBSET Paths,
         CacheInit(openable, readable)
  PROVE  CacheInv'
<1> USE DEF CacheInv
<1>1. cache = UnmappedCache /\ node = original /\ want = NoValue /\ ~torn
  BY DEF CacheInit, Mapped
<1>2. phase' = "ready" /\ UNCHANGED <<strat, node, now, healed, original, want, ago, torn, outcome>>
  BY DEF CacheInit
<1>3. CASE cache' = UnmappedCache
  <2>1. TypeOK'
    BY <1>2, <1>3, UnmappedType DEF TypeOK
  <2>2. cache'.active = FALSE /\ cache'.hasBase = FALSE /\ cache'.fd = NoFd
        /\ cache'.last = NoValue
    BY <1>3 DEF UnmappedCache
  <2> QED
    BY <1>1, <1>2, <2>1, <2>2
       DEF Mapped, NodeKnown, LastTracks, RestoreBringsBack
<1>4. ASSUME NEW first \in openable,
             cache' = Probed(first, readable)
      PROVE  CacheInv'
  <2>1. TypeOK'
    <3>1. node[first] \in Values
      BY DEF TypeOK
    <3>2. cache' \in CacheType
      <4>1. first \in Paths /\ (first \in readable) \in BOOLEAN
        OBVIOUS
      <4> HIDE DEF CacheInv
      <4> QED BY <1>4, <3>1, <4>1, MappedType DEF Probed
    <3> QED BY <1>2, <3>2 DEF TypeOK
  <2>2. /\ cache'.active = TRUE /\ cache'.fd = first /\ cache'.last = NoValue
        /\ cache'.hasBase => cache'.base = node[first]
    BY <1>4 DEF Probed, MappedCache
  <2> QED
    BY <1>1, <1>2, <2>1, <2>2
       DEF Mapped, NodeKnown, LastTracks, RestoreBringsBack
<1> QED BY <1>3, <1>4 DEF CacheInit

LEMMA UpdateStep ==
  ASSUME CacheInv, NEW v \in Values, Update(v)
  PROVE  CacheInv'
<1> USE DEF CacheInv
<1>0. cache.active => cache.fd \in Paths
  BY DEF Mapped, Update, UpdateSkip, UpdateOk, UpdateFail
<1>1. CASE UpdateSkip(v)
  <2>1. TypeOK' /\ Mapped' /\ NodeKnown' /\ RestoreBringsBack'
    BY <1>1 DEF UpdateSkip, TypeOK, Mapped, NodeKnown,
            RestoreBringsBack
  <2>2. LastTracks'
    <3>1. WantsWrite(NoValue, v, strat)
      BY WantsWriteEnds DEF TypeOK
    <3> QED BY <1>1, <3>1 DEF UpdateSkip, Attempts, Due, LastTracks
  <2> QED BY <2>1, <2>2
<1>2. CASE UpdateOk(v)
  <2>1. cache.active /\ phase = "ready" /\ phase' = "ready" /\ want' = v /\ torn' = FALSE
        /\ node' = [node EXCEPT ![cache.fd] = v] /\ ago' = 0
        /\ UNCHANGED <<strat, now, healed, original, outcome>>
    BY <1>2 DEF UpdateOk, Attempts, Accepted
  <2>2. /\ cache' \in CacheType
        /\ cache'.last = v /\ cache'.fails = 0
        /\ cache'.active = cache.active /\ cache'.hasBase = cache.hasBase
        /\ cache'.base = cache.base /\ cache'.fd = cache.fd
    BY <1>2, WriteSucceededType DEF UpdateOk, TypeOK
  <2>3. TypeOK'
    <3>1. node' \in [Paths -> Values]
      BY <2>1 DEF TypeOK
    <3>2. ago' \in 0..Horizon
      BY <2>1, ConstantTypes
    <3>3. torn' \in BOOLEAN
      BY <2>1
    <3> QED BY <2>1, <2>2, <3>1, <3>2, <3>3 DEF TypeOK
  <2>4. node'[cache.fd] = v /\ \A p \in Paths : p # cache.fd => node'[p] = node[p]
    BY <1>0, <2>1 DEF TypeOK
  <2>5. Mapped' /\ RestoreBringsBack'
    BY <1>0, <2>1, <2>2, <2>4 DEF Mapped, RestoreBringsBack
  <2>6. v # NoValue /\ ~WantsWrite(v, v, strat)
    BY WantsWriteEnds, NoValueAssumption, ValuesAssumption DEF TypeOK
  <2>7. NodeKnown' /\ LastTracks'
    BY <2>1, <2>2, <2>4, <2>6 DEF NodeKnown, LastTracks
  <2> QED BY <2>3, <2>5, <2>7
<1>3. ASSUME NEW short \in BOOLEAN, UpdateFail(v, short)
      PROVE  CacheInv'
  <2>1. cache.active /\ phase = "ready" /\ phase' = "ready" /\ want' = v
        /\ torn' = (torn \/ short) /\ ago' = 0
        /\ UNCHANGED <<strat, now, healed, original, outcome>>
    BY <1>3 DEF UpdateFail, Attempts
  <2>2. /\ cache' \in CacheType
        /\ cache'.fails > 0
        /\ cache'.active = cache.active /\ cache'.hasBase = cache.hasBase
        /\ cache'.base = cache.base /\ cache'.fd = cache.fd /\ cache'.last = cache.last
    BY <1>3, WriteFailedType DEF UpdateFail, TypeOK
  <2>3. node' \in [Paths -> Values] /\ (\A p \in Paths : p # cache.fd => node'[p] = node[p])
        /\ (~short => node' = node)
    BY <1>0, <1>3, <2>1 DEF UpdateFail, Refused, TypeOK
  <2>4. TypeOK'
    BY <2>1, <2>2, <2>3, ConstantTypes DEF TypeOK
  <2>5. Mapped' /\ RestoreBringsBack'
    BY <1>0, <2>1, <2>2, <2>3 DEF Mapped, RestoreBringsBack
  <2>6. cache'.fails # 0
    BY <2>2 DEF CacheType
  <2>7. NodeKnown' /\ LastTracks'
    BY <2>1, <2>2, <2>3, <2>6 DEF NodeKnown, LastTracks
  <2> QED BY <2>4, <2>5, <2>7
<1> QED BY <1>1, <1>2, <1>3 DEF Update

LEMMA RestoreStep ==
  ASSUME CacheInv, Restore
  PROVE  CacheInv'
<1> USE DEF CacheInv
<1>0. phase = "ready"
  BY DEF Restore, RestoreSkip, RestoreOk, RestoreFail
<1>1. CASE RestoreSkip
  <2>1. TypeOK' /\ Mapped' /\ NodeKnown' /\ LastTracks'
    BY <1>1 DEF RestoreSkip, TypeOK, Mapped, NodeKnown, LastTracks
  <2>2. cache.hasBase /\ ~torn => node[cache.fd] = original[cache.fd]
    BY <1>0, <1>1 DEF RestoreSkip, NeedsRestore, NodeKnown, Mapped
  <2> QED
    BY <1>1, <2>1, <2>2 DEF RestoreSkip, RestoreBringsBack
<1>2. ASSUME NeedsRestore(cache)
      PROVE  /\ cache.fd \in Paths
             /\ cache.base = original[cache.fd] /\ cache.base \in Values
  BY <1>0, <1>2 DEF NeedsRestore, Mapped, TypeOK
<1>3. CASE RestoreOk
  <2>1. /\ node' = [node EXCEPT ![cache.fd] = cache.base]
        /\ phase' = "restored"
        /\ UNCHANGED <<strat, now, healed, original, want, ago, torn>>
        /\ outcome' = "ok"
    BY <1>3 DEF RestoreOk, Accepted
  <2>2. cache.fd \in Paths /\ cache.base = original[cache.fd] /\ cache.base \in Values
        /\ cache.active
    BY <1>2, <1>3 DEF RestoreOk, NeedsRestore
  <2>3. /\ cache' \in CacheType
        /\ cache'.active = cache.active /\ cache'.hasBase = cache.hasBase
        /\ cache'.base = cache.base /\ cache'.fd = cache.fd
    BY <1>3, <2>2, RestoreSucceededType DEF RestoreOk, TypeOK
  <2>4. TypeOK'
    BY <2>1, <2>2, <2>3 DEF TypeOK
  <2>5. node'[cache.fd] = cache.base /\ \A p \in Paths : p # cache.fd => node'[p] = node[p]
    BY <2>1, <2>2 DEF TypeOK
  <2> QED
    BY <1>0, <2>1, <2>2, <2>3, <2>4, <2>5
       DEF Mapped, NodeKnown, LastTracks, RestoreBringsBack
<1>4. ASSUME NEW short \in BOOLEAN, RestoreFail(short)
      PROVE  CacheInv'
  <2>1. /\ phase' = "restored" /\ outcome' = "failed"
        /\ UNCHANGED <<cache, strat, now, healed, original, want, ago, torn>>
    BY <1>4 DEF RestoreFail
  <2>2. cache.fd \in Paths /\ cache.base \in Values
    BY <1>2, <1>4 DEF RestoreFail
  <2>3. node' \in [Paths -> Values] /\ (\A p \in Paths : p # cache.fd => node'[p] = node[p])
    BY <1>4, <2>2 DEF RestoreFail, Refused, TypeOK
  <2> QED
    BY <1>0, <2>1, <2>2, <2>3
       DEF TypeOK, Mapped, NodeKnown, LastTracks, RestoreBringsBack
<1> QED BY <1>1, <1>3, <1>4 DEF Restore

LEMMA CacheInvStep == CacheInv /\ [Next]_vars => CacheInv'
<1> SUFFICES ASSUME CacheInv, [Next]_vars PROVE CacheInv'
  OBVIOUS
<1> USE DEF CacheInv
<1>1. ASSUME NEW openable \in SUBSET Paths, NEW readable \in SUBSET Paths,
             CacheInit(openable, readable)
      PROVE  CacheInv'
  BY <1>1, InitStep
<1>2. ASSUME NEW v \in Values, Update(v) PROVE CacheInv'
  BY <1>2, UpdateStep
<1>3. CASE Restore
  BY <1>3, RestoreStep
<1>4. CASE CacheCleanup
  <2>1. cache' \in CacheType
    BY <1>4, ClosedType DEF CacheCleanup, TypeOK
  <2> QED
    BY <1>4, <2>1 DEF CacheCleanup, TypeOK, Mapped, NodeKnown, LastTracks,
                      RestoreBringsBack
<1>5. CASE Tick
  <2>1. now' \in 0..(Wrap - 1)
    BY <1>5, ConstantTypes DEF Tick, TypeOK
  <2>2. ago' \in 0..Horizon
    BY <1>5, ConstantTypes DEF Tick, TypeOK
  <2> QED
    BY <1>5, <2>1, <2>2 DEF Tick, TypeOK, Mapped, NodeKnown, LastTracks,
                            RestoreBringsBack
<1>6. CASE Heal
  BY <1>6 DEF Heal, TypeOK, Mapped, NodeKnown, LastTracks,
            RestoreBringsBack
<1>7. CASE UNCHANGED vars
  BY <1>7 DEF vars, TypeOK, Mapped, NodeKnown, LastTracks,
            RestoreBringsBack
<1> QED
  BY <1>1, <1>2, <1>3, <1>4, <1>5, <1>6, <1>7 DEF Next

LEMMA CacheInvariant == Spec => []CacheInv
BY CacheInvInit, CacheInvStep, PTL DEF Spec

-----------------------------------------------------------------------------
\* The struct, the nodes and the clock stay within their types.
THEOREM TypeCorrect == Spec => []TypeOK
BY CacheInvariant, PTL DEF CacheInv

\* After the last successful write the field last is what the node holds.
THEOREM LastIsNodeHolds == Spec => []LastIsNode
<1>1. CacheInv => LastIsNode
  BY DEF CacheInv, Mapped, NodeKnown, LastIsNode
<1> QED BY <1>1, CacheInvariant, PTL

\* Outside a backoff the node is within tolerance of what the governor asked for.
THEOREM TrackingHolds == Spec => []Tracking
<1>1. CacheInv => Tracking
  BY DEF CacheInv, NodeKnown, LastTracks, Tracking
<1> QED BY <1>1, CacheInvariant, PTL

\* pg_sysfs_restore() brings the boot-time value back.
THEOREM RestoreBringsBackHolds == Spec => []RestoreBringsBack
BY CacheInvariant, PTL DEF CacheInv

-----------------------------------------------------------------------------
(* The backoff, across the wrap of the 32-bit millisecond counter. *)

\* The remainder of a number less than a modulus away from 0..W-1.
LEMMA Modulo ==
  /\ \A W \in Nat, x \in Int : 0 <= x /\ x < W => x % W = x
  /\ \A W \in Nat, x \in Int : W <= x /\ x < 2 * W => x % W = x - W
  /\ \A W \in Nat, x \in Int : -W <= x /\ x < 0 => x % W = x + W
OBVIOUS

\* How far mono_ms() is past retry_ms, in 0..Wrap-1.
Past == (now - cache.retry) % Wrap

\* Since the last failed write retry_ms is its delay away, as long as the history ago
\* has not stopped counting.
BackoffClock ==
  cache.fails > 0 /\ ago < Horizon =>
    Past = IF ago < Delay(cache.fails) THEN ago - Delay(cache.fails) + Wrap
                                       ELSE ago - Delay(cache.fails)

LEMMA HorizonRange ==
  /\ Horizon \in Nat /\ Wrap <= 2 * Horizon /\ Horizon < Wrap /\ BackoffMax < Horizon
  /\ Wrap \in Nat \ {0} /\ BackoffMax \in Nat /\ 2 * BackoffMax < Wrap
BY WrapAssumption, BackoffAssumption DEF Horizon

\* The difference and the sum of two times on the clock.
LEMMA Between ==
  ASSUME NEW a \in 0..(Wrap - 1), NEW b \in 0..(Wrap - 1)
  PROVE  (a - b) % Wrap = IF a < b THEN a - b + Wrap ELSE a - b
<1>1. a - b \in Int /\ -Wrap <= a - b /\ a - b < Wrap /\ Wrap \in Nat
      /\ (a < b => a - b < 0) /\ (~(a < b) => 0 <= a - b)
  BY HorizonRange
<1>2. a < b => (a - b) % Wrap = (a - b) + Wrap
  BY <1>1, Modulo, Zenon
<1>3. ~(a < b) => (a - b) % Wrap = a - b
  BY <1>1, Modulo, Zenon
<1> QED BY <1>2, <1>3, Zenon

LEMMA Ahead ==
  ASSUME NEW a \in 0..(Wrap - 1), NEW d \in 0..(Wrap - 1)
  PROVE  (a + d) % Wrap = IF a + d < Wrap THEN a + d ELSE a + d - Wrap
<1>1. a + d \in Int /\ 0 <= a + d /\ a + d < 2 * Wrap /\ Wrap \in Nat
      /\ (~(a + d < Wrap) => Wrap <= a + d)
  BY HorizonRange
<1>2. a + d < Wrap => (a + d) % Wrap = a + d
  BY <1>1, Modulo, Zenon
<1>3. ~(a + d < Wrap) => (a + d) % Wrap = a + d - Wrap
  BY <1>1
<1> QED BY <1>2, <1>3, Zenon

\* A write that fails puts retry_ms its delay ahead of the clock.
LEMMA ClockSet ==
  ASSUME TypeOK, NEW v \in Values, NEW short \in BOOLEAN, UpdateFail(v, short)
  PROVE  BackoffClock'
<1> DEFINE D == Delay(cache'.fails)
<1>1. now' = now /\ now \in 0..(Wrap - 1) /\ ago' = 0
  BY DEF UpdateFail, TypeOK
<1>2. cache' \in CacheType /\ cache'.retry = (now + D) % Wrap
  BY WriteFailedType DEF UpdateFail, TypeOK
<1>3. D \in 0..BackoffMax
  BY DelayRange
<1>4. cache'.retry = IF now + D < Wrap THEN now + D ELSE now + D - Wrap
  <2>1. D \in 0..(Wrap - 1)
    BY <1>3, HorizonRange
  <2> HIDE DEF D
  <2> QED BY <1>1, <1>2, <2>1, Ahead
<1>5. Past' = (now - cache'.retry) % Wrap
  BY <1>1 DEF Past
<1> SUFFICES Past' = IF 0 < D THEN 0 - D + Wrap ELSE 0
  BY <1>1, <1>3 DEF BackoffClock
<1> HIDE DEF D
<1>6. cache'.retry \in 0..(Wrap - 1)
  BY <1>2 DEF CacheType
<1>7. Past' = IF now < cache'.retry THEN now - cache'.retry + Wrap ELSE now - cache'.retry
  BY <1>1, <1>5, <1>6, Between
<1> QED BY <1>1, <1>3, <1>4, <1>7, HorizonRange

\* The clock moves, and the distance with it, also over the wrap.
LEMMA ClockMoves ==
  ASSUME TypeOK, BackoffClock, Tick
  PROVE  BackoffClock'
<1> DEFINE D == Delay(cache.fails)
           r == cache.retry
<1> SUFFICES ASSUME cache.fails > 0, ago' < Horizon
             PROVE  Past' = IF ago' < D THEN ago' - D + Wrap ELSE ago' - D
  BY DEF BackoffClock, Tick, Horizon
<1>1. /\ now \in 0..(Wrap - 1) /\ now' = (now + 1) % Wrap /\ r \in 0..(Wrap - 1)
      /\ ago \in Nat /\ cache.fails \in Nat /\ ago \in 0..Horizon /\ cache' = cache
  BY HorizonRange DEF Tick, TypeOK, CacheType
<1>2. ago < Horizon /\ ago' = ago + 1
  BY <1>1, HorizonRange DEF Tick
<1>3. D \in 0..BackoffMax
  BY DelayRange
<1>4. Past = IF ago < D THEN ago - D + Wrap ELSE ago - D
  BY <1>2 DEF BackoffClock
<1>5. Past = (now - r) % Wrap /\ Past' = (now' - r) % Wrap
  BY <1>1 DEF Past
<1> HIDE DEF D, r, Past
<1>6. now' = IF now + 1 < Wrap THEN now + 1 ELSE 0
  <2>1. 1 \in 0..(Wrap - 1)
    BY HorizonRange
  <2>2. (now + 1) % Wrap = IF now + 1 < Wrap THEN now + 1 ELSE now + 1 - Wrap
    BY <1>1, <2>1, Ahead, Zenon
  <2> QED BY <1>1, <2>2, HorizonRange
<1>7. Past = IF now < r THEN now - r + Wrap ELSE now - r
  BY <1>1, <1>5, Between
<1>8. Past' = IF now' < r THEN now' - r + Wrap ELSE now' - r
  BY <1>1, <1>5, <1>6, HorizonRange, Between
<1>9. Past' = IF Past + 1 < Wrap THEN Past + 1 ELSE 0
  BY <1>1, <1>6, <1>7, <1>8, HorizonRange
<1> QED BY <1>1, <1>2, <1>3, <1>4, <1>9, HorizonRange

LEMMA BackoffClockStep ==
  ASSUME CacheInv, BackoffClock, [Next]_vars
  PROVE  BackoffClock'
<1>0. TypeOK
  BY DEF CacheInv
<1>1. ASSUME NEW v \in Values, NEW short \in BOOLEAN, UpdateFail(v, short) PROVE BackoffClock'
  BY <1>0, <1>1, ClockSet
<1>2. CASE Tick
  BY <1>0, <1>2, ClockMoves
<1>3. ASSUME NEW openable \in SUBSET Paths, NEW readable \in SUBSET Paths,
             CacheInit(openable, readable)
      PROVE  BackoffClock'
  <2>1. cache'.fails = 0
    BY <1>3 DEF CacheInit, Probed, UnmappedCache, MappedCache
  <2> QED BY <2>1 DEF BackoffClock
<1>4. ASSUME NEW v \in Values, UpdateOk(v) PROVE BackoffClock'
  <2>1. cache'.fails = 0
    BY <1>0, <1>4, WriteSucceededType DEF UpdateOk, TypeOK
  <2> QED BY <2>1 DEF BackoffClock
<1>5. ASSUME cache'.fails = cache.fails, cache'.retry = cache.retry, UNCHANGED <<now, ago>>
      PROVE  BackoffClock'
  BY <1>5 DEF BackoffClock, Past
<1>6. CASE Restore \/ CacheCleanup
  <2>1. cache'.fails = cache.fails /\ cache'.retry = cache.retry
    <3>1. CASE RestoreOk
      <4>1. cache.base \in Values
        BY <3>1 DEF CacheInv, TypeOK, Mapped, RestoreOk, NeedsRestore
      <4> QED BY <1>0, <3>1, <4>1, RestoreSucceededType DEF RestoreOk, TypeOK
    <3>2. CASE CacheCleanup
      BY <1>0, <3>2, ClosedType DEF CacheCleanup, TypeOK
    <3> QED BY <1>6, <3>1, <3>2 DEF Restore, RestoreSkip, RestoreFail
  <2> QED
    BY <1>5, <1>6, <2>1 DEF Restore, RestoreSkip, RestoreOk, RestoreFail, CacheCleanup
<1>7. CASE Heal \/ UNCHANGED vars \/ \E v \in Values : UpdateSkip(v)
  BY <1>5, <1>7 DEF Heal, vars, UpdateSkip
<1> QED BY <1>1, <1>2, <1>3, <1>4, <1>6, <1>7 DEF Next, Update

LEMMA BackoffClockAlways == Spec => [](CacheInv /\ BackoffClock)
<1>1. Init => BackoffClock
  BY DEF Init, UnmappedCache, BackoffClock
<1> QED BY <1>1, CacheInvInit, CacheInvStep, BackoffClockStep, PTL DEF Spec

\* A cache that failed takes attempts again once the longest delay has passed, on
\* either side of the counter's wrap (sysfs.c:267-287).
THEOREM BackoffReopensHolds == Spec => []BackoffReopens
<1>1. CacheInv /\ BackoffClock => BackoffReopens
  <2> SUFFICES ASSUME CacheInv, BackoffClock, cache.fails > 0, BackoffMax <= ago, 2 * ago < Wrap
               PROVE  Due(cache, now)
    BY DEF BackoffReopens
  <2> DEFINE D == Delay(cache.fails)
  <2>1. D \in 0..BackoffMax /\ ago \in Nat
    BY DelayRange, HorizonRange DEF CacheInv, TypeOK
  <2>2. ago < Horizon
    BY <2>1, HorizonRange
  <2>3. Past = IF ago < D THEN ago - D + Wrap ELSE ago - D
    BY <2>2 DEF BackoffClock
  <2> HIDE DEF D
  <2>4. 2 * Past < Wrap
    BY <2>1, <2>3, HorizonRange
  <2> QED BY <2>4 DEF Due, Reached, Past
<1> QED BY <1>1, BackoffClockAlways, PTL

\* Between two attempts at a node that refuses lies the delay of the failures so far,
\* never less, also across the counter's wrap.
THEOREM NoHammeringHolds == Spec => NoHammering
<1>1. CacheInv /\ BackoffClock /\ [Next]_vars =>
        [cache.fails > 0 /\ cache' # cache /\ phase' = "ready" => ago >= Delay(cache.fails)]_vars
  <2> SUFFICES ASSUME CacheInv, BackoffClock, Next,
                      cache.fails > 0, cache' # cache, phase' = "ready"
               PROVE  ago >= Delay(cache.fails)
    OBVIOUS
  <2> DEFINE D == Delay(cache.fails)
  <2>1. D \in 0..BackoffMax /\ ago \in Nat /\ cache.fails # 0
    BY DelayRange, HorizonRange DEF CacheInv, TypeOK, CacheType
  <2>2. phase # "new"
    BY <2>1 DEF CacheInv, Mapped, UnmappedCache
  <2>3. Due(cache, now)
    BY <2>2 DEF Next, Update, UpdateSkip, UpdateOk, UpdateFail, Attempts, CacheInit, Restore,
         RestoreSkip, RestoreOk, RestoreFail, CacheCleanup, Tick, Heal
  <2>4. 2 * Past < Wrap
    BY <2>1, <2>3 DEF Due, Reached, Past
  <2>5. ago < Horizon => Past = IF ago < D THEN ago - D + Wrap ELSE ago - D
    BY DEF BackoffClock
  <2>6. ago >= D
    <3> HIDE DEF D
    <3>1. CASE ago < Horizon
      BY <2>1, <2>4, <2>5, <3>1, HorizonRange
    <3>2. CASE ~(ago < Horizon)
      BY <2>1, <3>2, HorizonRange
    <3> QED BY <3>1, <3>2
  <2> QED BY <2>6
<1> QED BY <1>1, BackoffClockAlways, PTL DEF Spec, NoHammering

=============================================================================
