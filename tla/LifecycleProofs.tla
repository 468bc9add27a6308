---------------------------- MODULE LifecycleProofs ----------------------------
(***************************************************************************)
(* What the lock, the order of the teardown and the crash hook give for    *)
(* any number of instances and nodes, and any values: every node is back   *)
(* once nobody holds the lock, the captured bases are the boot-time        *)
(* values, and a crash hook never writes into another instance's turn.     *)
(***************************************************************************)
EXTENDS Lifecycle, TLAPS

Tuning == {"env", "psi", "sensors", "run"}

Fresh(p) == caches[p] = Unmapped /\ snap[p] = {}

\* What the place of an instance says of the lock, its caches and its hook: the
\* nodes are only tuned under the lock, and what is left of an instance without it
\* has nothing to write any more.
Placed(p) ==
  /\ pc[p] \in {"boot", "map"} \cup Tuning => lock = p
  /\ pc[p] \in {"down", "lock", "close"} => lock # p
  /\ pc[p] \in {"down", "lock", "boot", "map"} => Fresh(p) /\ ~hook[p]
  /\ pc[p] \in {"restore", "clear", "unlock"} /\ lock # p => Fresh(p)
  /\ pc[p] \in {"unlock", "close"} => snap[p] = {}
  /\ pc[p] = "crash" /\ lock # p => snap[p] = {}
  /\ pc[p] \in {"down", "lock", "boot"} => polls[p] <= BootRetryMax

\* What a cache holds of its node.
Captured(p, s) ==
  /\ caches[p][s].active => caches[p][s].fd = s
  /\ caches[p][s].hasBase => caches[p][s].active /\ caches[p][s].base \in Values
  /\ caches[p][s].hasBase /\ s \notin lost => caches[p][s].base = boot[s]
  /\ s \in snap[p] => caches[p][s].hasBase
  /\ pc[p] \in Tuning \cup {"restore"} /\ caches[p][s].hasBase => s \in snap[p]

\* The instance knows what the node holds: untouched, or the last value it wrote.
Known(p, s) ==
  \/ caches[p][s].last = NoValue /\ node[s] = boot[s]
  \/ caches[p][s].hasBase /\ caches[p][s].last = node[s]

\* What the node of a sink holds while p has the lock.
Held(p, s) ==
  /\ pc[p] \in {"boot", "map", "clear", "unlock"} => node[s] = boot[s]
  /\ pc[p] \in Tuning => Known(p, s)
  /\ pc[p] = "restore" => IF s < idx[p] THEN node[s] = boot[s] ELSE Known(p, s)
  /\ pc[p] = "crash" => node[s] = boot[s] \/ (s \in snap[p] /\ idx[p] <= s)

AllPlaced == \A p \in Procs : Placed(p)
AllCaptured == \A p \in Procs, s \in Sinks : Captured(p, s)
NodesHeld == \A p \in Procs, s \in Sinks \ lost : lock = p => Held(p, s)

LifeInv == TypeOK /\ AllPlaced /\ AllCaptured /\ NodesHeld /\ BootValuesBack

-----------------------------------------------------------------------------
(* Types: the records of SysfsOps, and the helpers that move an instance. *)

Places == Startup \cup Teardowns \cup {"crash", "down"}

LEMMA ConstantTypes == Wrap \in Nat /\ Wrap > 0 /\ FailMax \in Nat /\ NSinks \in Nat \ {0}
BY WrapAssumption, BackoffAssumption, SinksAssumption

\* pg_sysfs_cache_init(), when no path opens and when one does.
LEMMA UnmappedType == Unmapped \in [Sinks -> CacheType]
<1>1. UnmappedCache \in CacheType
  BY ConstantTypes DEF UnmappedCache, CacheType
<1> QED BY <1>1 DEF Unmapped

LEMMA MappedType ==
  ASSUME NEW fd \in Sinks, NEW readable \in BOOLEAN, NEW value \in Values
  PROVE  MappedCache(fd, readable, value) \in CacheType
BY ConstantTypes DEF MappedCache, CacheType

\* pg_sysfs_update() and pg_sysfs_restore(), after a write that succeeds.
LEMMA WriteSucceededType ==
  ASSUME NEW c \in CacheType, NEW v \in Values
  PROVE  /\ WriteSucceeded(c, v) \in CacheType
         /\ WriteSucceeded(c, v).last = v
         /\ \A f \in {"active", "hasBase", "base", "fd"} : WriteSucceeded(c, v)[f] = c[f]
<1> DEFINE w == [c EXCEPT !.last = v]
<1>1. w \in CacheType /\ w.last = v
      /\ \A f \in {"active", "hasBase", "base", "fd"} : w[f] = c[f]
  BY DEF CacheType
<1>2. WriteSucceeded(c, v) = [w EXCEPT !.fails = 0]
  BY DEF WriteSucceeded
<1> HIDE DEF w
<1> QED BY <1>1, <1>2, ConstantTypes DEF CacheType

LEMMA RestoreSucceededType ==
  ASSUME NEW c \in CacheType, c.base \in Values
  PROVE  /\ RestoreSucceeded(c) \in CacheType
         /\ \A f \in {"active", "hasBase", "base", "fd"} : RestoreSucceeded(c)[f] = c[f]
BY DEF RestoreSucceeded, CacheType

LEMMA GotoMoves ==
  ASSUME TypeOK, NEW p \in Procs, NEW stage \in Places, Goto(p, stage)
  PROVE  /\ pc' \in [Procs -> Places] /\ idx' \in [Procs -> 1..(NSinks + 1)]
         /\ pc'[p] = stage /\ idx'[p] = 1
         /\ \A q \in Procs \ {p} : pc'[q] = pc[q] /\ idx'[q] = idx[q]
<1>1. pc' \in [Procs -> Places] /\ pc'[p] = stage /\ \A q \in Procs \ {p} : pc'[q] = pc[q]
  BY DEF TypeOK, Goto, Places
<1>2. 1 \in 1..(NSinks + 1)
  BY ConstantTypes
<1>3. idx' \in [Procs -> 1..(NSinks + 1)] /\ idx'[p] = 1
      /\ \A q \in Procs \ {p} : idx'[q] = idx[q]
  BY <1>2 DEF TypeOK, Goto
<1> QED BY <1>1, <1>3

LEMMA NextSinkMoves ==
  ASSUME TypeOK, NEW p \in Procs, idx[p] \in Sinks, NextSink(p)
  PROVE  /\ pc' = pc /\ idx' \in [Procs -> 1..(NSinks + 1)]
         /\ idx'[p] = idx[p] + 1
         /\ \A q \in Procs \ {p} : idx'[q] = idx[q]
<1>1. idx[p] + 1 \in 1..(NSinks + 1)
  BY ConstantTypes DEF Sinks
<1> DEFINE i == idx[p] + 1
<1>2. pc' = pc /\ idx' = [idx EXCEPT ![p] = i]
  BY DEF NextSink
<1>3. i \in 1..(NSinks + 1)
  BY <1>1
<1> HIDE DEF i
<1>4. idx' \in [Procs -> 1..(NSinks + 1)] /\ idx'[p] = i /\ \A q \in Procs \ {p} : idx'[q] = idx[q]
  BY <1>2, <1>3 DEF TypeOK
<1> QED BY <1>2, <1>4 DEF i

-----------------------------------------------------------------------------
(* The frame of a step of one instance: it touches nothing of the others,  *)
(* takes the lock only when nobody has it, and writes only while holding   *)
(* it.  What remains of the invariant is what the step does to its own.    *)

Alone(p) ==
  /\ \A q \in Procs \ {p} :
       /\ pc'[q] = pc[q] /\ idx'[q] = idx[q] /\ hook'[q] = hook[q]
       /\ caches'[q] = caches[q] /\ snap'[q] = snap[q] /\ polls'[q] = polls[q]
       /\ lock' = q <=> lock = q
  /\ boot' = boot /\ lost \subseteq lost'

OwnNodes(p) ==
  /\ lock # p => node' = node
  /\ lock = p /\ lock' = NoProc => \A s \in Sinks \ lost' : node'[s] = boot[s]

LEMMA Frame ==
  ASSUME LifeInv, NEW p \in Procs, Alone(p), OwnNodes(p), TypeOK',
         Placed(p)', \A s \in Sinks : Captured(p, s)',
         lock' = p => \A s \in Sinks \ lost' : Held(p, s)',
         lock' = NoProc => lock \in {p, NoProc}
  PROVE  LifeInv'
<1> USE DEF LifeInv
<1>1. AllPlaced'
  <2>1. ASSUME NEW q \in Procs \ {p} PROVE Placed(q)'
    BY <2>1 DEF AllPlaced, Alone, Placed, Fresh, Tuning
  <2> QED BY <2>1 DEF AllPlaced
<1>2. AllCaptured'
  <2>1. ASSUME NEW q \in Procs \ {p}, NEW s \in Sinks PROVE Captured(q, s)'
    <3>1. Captured(q, s)
      BY DEF AllCaptured
    <3> QED BY <2>1, <3>1 DEF Alone, Captured, Tuning
  <2> QED BY <2>1 DEF AllCaptured
<1>3. NodesHeld'
  <2>1. ASSUME NEW q \in Procs \ {p}, NEW s \in Sinks \ lost', lock' = q PROVE Held(q, s)'
    <3>1. s \in Sinks \ lost /\ lock = q /\ node' = node /\ boot' = boot
      BY <2>1 DEF Alone, OwnNodes
    <3>2. Held(q, s)
      BY <3>1 DEF NodesHeld
    <3> QED BY <3>1, <3>2 DEF Alone, Held, Known, Tuning
  <2> QED BY <2>1 DEF NodesHeld
<1>4. BootValuesBack'
  <2>1. ASSUME lock' = NoProc, NEW s \in Sinks \ lost' PROVE node'[s] = boot'[s]
    <3>1. CASE lock = p
      BY <2>1, <3>1 DEF OwnNodes, Alone
    <3>2. CASE lock = NoProc
      BY <2>1, <3>2, ProcsAssumption DEF OwnNodes, Alone, BootValuesBack
    <3> QED BY <2>1, <3>1, <3>2
  <2> QED BY <2>1 DEF BootValuesBack
<1> QED BY <1>1, <1>2, <1>3, <1>4

LEMMA LifeInvInit == Init => LifeInv
<1> SUFFICES ASSUME Init PROVE LifeInv
  OBVIOUS
<1>1. TypeOK
  <2>1. caches \in [Procs -> [Sinks -> CacheType]]
    BY UnmappedType DEF Init
  <2>2. idx \in [Procs -> 1..(NSinks + 1)] /\ polls \in [Procs -> 0..(BootRetryMax + 1)]
    BY ConstantTypes, BootAssumption DEF Init
  <2>3. node \in [Sinks -> Values] /\ boot \in [Sinks -> Values]
    BY ValuesAssumption DEF Init
  <2>4. hook \in [Procs -> BOOLEAN] /\ booted \in BOOLEAN
    BY DEF Init
  <2> QED BY <2>1, <2>2, <2>3, <2>4 DEF Init, TypeOK, Startup, Teardowns
<1>2. AllPlaced
  BY ProcsAssumption, BootAssumption DEF Init, AllPlaced, Placed, Fresh, Tuning
<1>3. AllCaptured
  BY DEF Init, AllCaptured, Captured, Unmapped, UnmappedCache, Tuning
<1>4. NodesHeld /\ BootValuesBack
  BY ProcsAssumption DEF Init, NodesHeld, BootValuesBack
<1> QED BY <1>1, <1>2, <1>3, <1>4 DEF LifeInv

-----------------------------------------------------------------------------
(* The steps of one instance. *)

Rest == <<hook, caches, snap, lock, node, boot, lost>>

\* A step that only moves the instance on.
LEMMA GotoStep ==
  ASSUME LifeInv, NEW p \in Procs, NEW stage \in Places, Goto(p, stage),
         UNCHANGED Rest, booted' \in BOOLEAN, polls' \in [Procs -> 0..(BootRetryMax + 1)],
         \A q \in Procs \ {p} : polls'[q] = polls[q]
  PROVE  /\ Alone(p) /\ OwnNodes(p) /\ TypeOK'
         /\ pc'[p] = stage /\ idx'[p] = 1
         /\ lock' = NoProc => lock \in {p, NoProc}
<1> USE DEF LifeInv
<1>1. /\ pc' \in [Procs -> Places] /\ idx' \in [Procs -> 1..(NSinks + 1)]
      /\ pc'[p] = stage /\ idx'[p] = 1
      /\ \A q \in Procs \ {p} : pc'[q] = pc[q] /\ idx'[q] = idx[q]
  BY GotoMoves
<1>2. Alone(p)
  BY <1>1 DEF Alone, Rest
<1>3. OwnNodes(p)
  BY ProcsAssumption DEF OwnNodes, Rest
<1>4. TypeOK'
  BY <1>1 DEF TypeOK, Rest, Places
<1> QED BY <1>1, <1>2, <1>3, <1>4 DEF Rest

\* A step that moves nobody and writes nothing.
LEMMA Unmoved ==
  ASSUME LifeInv, TypeOK', UNCHANGED <<pc, idx>>, UNCHANGED Rest,
         \A p \in Procs : pc[p] = "boot" \/ polls'[p] = polls[p],
         \A p \in Procs : pc[p] = "boot" => polls'[p] <= BootRetryMax
  PROVE  LifeInv'
BY DEF LifeInv, AllPlaced, AllCaptured, NodesHeld, BootValuesBack, Placed, Fresh,
       Captured, Held, Known, Tuning, Rest

LEMMA StartStep ==
  ASSUME LifeInv, NEW p \in Procs, Start(p)
  PROVE  LifeInv'
<1>1. pc[p] = "down" /\ Goto(p, "lock") /\ UNCHANGED Rest /\ UNCHANGED <<booted, polls>>
  BY DEF Start, Rest
<1>2. /\ Alone(p) /\ OwnNodes(p) /\ TypeOK' /\ pc'[p] = "lock"
      /\ lock' = NoProc => lock \in {p, NoProc}
  BY <1>1, GotoStep DEF LifeInv, TypeOK, Places, Startup
<1>3. Placed(p) /\ \A s \in Sinks : Captured(p, s)
  BY DEF LifeInv, AllPlaced, AllCaptured
<1>4. lock # p /\ Placed(p)'
  BY <1>1, <1>2, <1>3 DEF Placed, Fresh, Rest, Tuning
<1>5. \A s \in Sinks : Captured(p, s)'
  BY <1>1, <1>2, <1>3 DEF Captured, Rest, Tuning
<1>6. lock' # p
  BY <1>1, <1>4 DEF Rest
<1> QED BY <1>2, <1>4, <1>5, <1>6, Frame

LEMMA LockOkStep ==
  ASSUME LifeInv, NEW p \in Procs, LockOk(p)
  PROVE  LifeInv'
<1>1. /\ pc[p] = "lock" /\ lock = NoProc /\ lock' = p /\ Goto(p, "boot")
      /\ UNCHANGED <<polls, hook, caches, snap, node, booted, boot, lost>>
  BY DEF LockOk, LockFree
<1>2. /\ pc' \in [Procs -> Places] /\ idx' \in [Procs -> 1..(NSinks + 1)]
      /\ pc'[p] = "boot" /\ idx'[p] = 1
      /\ \A q \in Procs \ {p} : pc'[q] = pc[q] /\ idx'[q] = idx[q]
  BY <1>1, GotoMoves DEF LifeInv, Places, Startup
<1>3. Alone(p) /\ OwnNodes(p)
  BY <1>1, <1>2, ProcsAssumption DEF Alone, OwnNodes
<1>4. TypeOK'
  BY <1>1, <1>2 DEF LifeInv, TypeOK, Places
<1>5. Placed(p) /\ \A s \in Sinks : Captured(p, s)
  BY DEF LifeInv, AllPlaced, AllCaptured
<1>6. Placed(p)'
  BY <1>1, <1>2, <1>5 DEF Placed, Fresh, Tuning
<1>7. \A s \in Sinks : Captured(p, s)'
  BY <1>1, <1>2, <1>5 DEF Captured, Tuning
<1>8. \A s \in Sinks \ lost : node[s] = boot[s]
  BY <1>1 DEF LifeInv, BootValuesBack
<1>9. \A s \in Sinks \ lost' : Held(p, s)'
  BY <1>1, <1>2, <1>8 DEF Held, Tuning
<1> QED BY <1>1, <1>3, <1>4, <1>6, <1>7, <1>9, ProcsAssumption, Frame

LEMMA BootPollStep ==
  ASSUME LifeInv, NEW p \in Procs, BootPoll(p)
  PROVE  LifeInv'
<1> USE DEF LifeInv
<1>0. Placed(p) /\ (lock = p => \A s \in Sinks \ lost : Held(p, s))
  BY DEF AllPlaced, NodesHeld
<1>1. pc[p] = "boot" /\ UNCHANGED Rest /\ UNCHANGED booted /\ polls[p] <= BootRetryMax
  BY <1>0 DEF BootPoll, Rest, Placed
<1>2. /\ polls' \in [Procs -> 0..(BootRetryMax + 1)]
      /\ \A q \in Procs \ {p} : polls'[q] = polls[q]
      /\ booted \/ polls'[p] = polls[p] + 1
  <2>1. CASE booted
    BY <2>1 DEF BootPoll, TypeOK
  <2>2. CASE ~booted
    <3> DEFINE n == polls[p] + 1
    <3>1. n \in 0..(BootRetryMax + 1)
      BY <1>1, BootAssumption DEF TypeOK
    <3>2. polls' = [polls EXCEPT ![p] = n]
      BY <2>2 DEF BootPoll
    <3> HIDE DEF n
    <3>3. polls' \in [Procs -> 0..(BootRetryMax + 1)] /\ polls'[p] = n
          /\ \A q \in Procs \ {p} : polls'[q] = polls[q]
      BY <3>1, <3>2 DEF TypeOK
    <3> QED BY <3>3 DEF n
  <2> QED BY <2>1, <2>2
<1>3. ASSUME NEW stage \in {"map", "restore"}, Goto(p, stage)
      PROVE  LifeInv'
  <2>1. /\ Alone(p) /\ OwnNodes(p) /\ TypeOK' /\ pc'[p] = stage /\ idx'[p] = 1
        /\ lock' = NoProc => lock \in {p, NoProc}
    BY <1>1, <1>2, <1>3, GotoStep DEF TypeOK, Places, Startup, Teardowns
  <2>2. lock = p /\ Fresh(p) /\ ~hook[p]
    BY <1>0, <1>1 DEF Placed
  <2>3. Placed(p)'
    BY <1>1, <2>1, <2>2 DEF Placed, Fresh, Rest, Tuning
  <2>4. \A s \in Sinks : caches[p][s] = UnmappedCache
    BY <2>2 DEF Fresh, Unmapped
  <2>5. \A s \in Sinks : Captured(p, s)'
    BY <1>1, <2>1, <2>2, <2>4 DEF Captured, Rest, Tuning, UnmappedCache, Fresh
  <2>6. \A s \in Sinks \ lost : node[s] = boot[s]
    BY <1>0, <1>1, <2>2 DEF Held
  <2>7. \A s \in Sinks \ lost' : Held(p, s)'
    BY <1>1, <2>1, <2>4, <2>6 DEF Held, Known, Rest, Tuning, UnmappedCache
  <2> QED BY <2>1, <2>3, <2>5, <2>7, Frame
<1>4. CASE booted
  BY <1>3, <1>4 DEF BootPoll
<1>5. CASE ~booted /\ ~Retries(p)
  BY <1>3, <1>5 DEF BootPoll, Teardown
<1>6. CASE ~booted /\ Retries(p)
  <2>1. UNCHANGED <<pc, idx>>
    BY <1>6 DEF BootPoll
  <2>2. TypeOK'
    BY <1>1, <1>2, <2>1 DEF TypeOK, Rest
  <2>3. polls'[p] <= BootRetryMax
    BY <1>2, <1>6 DEF Retries
  <2>4. \A q \in Procs : pc[q] = "boot" => polls'[q] <= BootRetryMax
    BY <1>2, <2>3 DEF AllPlaced, Placed
  <2>5. \A q \in Procs : pc[q] = "boot" \/ polls'[q] = polls[q]
    BY <1>1, <1>2
  <2> QED BY <1>1, <2>1, <2>2, <2>4, <2>5, Unmoved
<1> QED BY <1>4, <1>5, <1>6

\* What the invariant says of the instance that steps.
LEMMA Own ==
  ASSUME LifeInv, NEW p \in Procs
  PROVE  /\ Placed(p)
         /\ \A s \in Sinks : Captured(p, s)
         /\ lock = p => \A s \in Sinks \ lost : Held(p, s)
BY DEF LifeInv, AllPlaced, AllCaptured, NodesHeld

LEMMA MapNodesStep ==
  ASSUME LifeInv, NEW p \in Procs, NEW openable \in SUBSET Sinks,
         NEW readable \in SUBSET Sinks, MapNodes(p, openable, readable)
  PROVE  LifeInv'
<1>1. /\ pc[p] = "map" /\ Goto(p, "env")
      /\ caches' = [caches EXCEPT ![p] = Mapped(p, openable, readable)]
      /\ snap' = [snap EXCEPT ![p] = openable \cap readable]
      /\ UNCHANGED <<polls, hook, lock, node, booted, boot, lost>>
  BY DEF MapNodes
<1>2. /\ pc' \in [Procs -> Places] /\ idx' \in [Procs -> 1..(NSinks + 1)]
      /\ pc'[p] = "env" /\ idx'[p] = 1
      /\ \A q \in Procs \ {p} : pc'[q] = pc[q] /\ idx'[q] = idx[q]
  BY <1>1, GotoMoves DEF LifeInv, Places, Startup
<1>3. Mapped(p, openable, readable) \in [Sinks -> CacheType]
  <2>1. ASSUME NEW s \in openable
        PROVE  MappedCache(s, s \in readable, node[s]) \in CacheType
    <3>1. s \in Sinks /\ (s \in readable) \in BOOLEAN /\ node[s] \in Values
      BY DEF LifeInv, TypeOK
    <3> QED BY <3>1, MappedType
  <2>2. ASSUME NEW s \in Sinks PROVE UnmappedCache \in CacheType
    BY UnmappedType DEF Unmapped
  <2> QED BY <2>1, <2>2 DEF Mapped
<1>4. /\ caches' \in [Procs -> [Sinks -> CacheType]] /\ snap' \in [Procs -> SUBSET Sinks]
      /\ caches'[p] = Mapped(p, openable, readable)
      /\ snap'[p] = openable \cap readable
      /\ \A q \in Procs \ {p} : caches'[q] = caches[q] /\ snap'[q] = snap[q]
  BY <1>1, <1>3 DEF LifeInv, TypeOK
<1>5. Alone(p) /\ OwnNodes(p)
  BY <1>1, <1>2, <1>4, ProcsAssumption DEF Alone, OwnNodes
<1>6. TypeOK'
  BY <1>1, <1>2, <1>4 DEF LifeInv, TypeOK, Places
<1>7. lock = p /\ lock' = p /\ Placed(p)'
  BY <1>1, <1>2, Own DEF Placed, Tuning
<1>8. \A s \in Sinks \ lost : node[s] = boot[s]
  BY <1>1, <1>7, Own DEF Held
<1>9. ASSUME NEW s \in Sinks
      PROVE  /\ caches'[p][s].active => caches'[p][s].fd = s
             /\ caches'[p][s].hasBase =>
                  caches'[p][s].active /\ caches'[p][s].base = node[s] /\ s \in snap'[p]
             /\ s \in snap'[p] => caches'[p][s].hasBase
             /\ caches'[p][s].last = NoValue
  <2>1. caches'[p][s] = IF s \in openable THEN MappedCache(s, s \in readable, node[s])
                        ELSE UnmappedCache
    BY <1>4 DEF Mapped
  <2>2. CASE s \in openable
    <3> DEFINE r == s \in readable
    <3>1. r \in BOOLEAN /\ caches'[p][s] = MappedCache(s, r, node[s])
      BY <2>1, <2>2
    <3>2. r <=> s \in snap'[p]
      BY <1>4, <2>2
    <3> HIDE DEF r
    <3>3. /\ caches'[p][s].active = TRUE /\ caches'[p][s].fd = s
          /\ caches'[p][s].hasBase = r /\ caches'[p][s].last = NoValue
          /\ r => caches'[p][s].base = node[s]
      BY <3>1 DEF MappedCache
    <3> QED BY <3>1, <3>2, <3>3
  <2>3. CASE s \notin openable
    BY <1>4, <2>1, <2>3 DEF UnmappedCache
  <2> QED BY <2>2, <2>3
<1>10. \A s \in Sinks : node[s] \in Values
  BY DEF LifeInv, TypeOK
<1>11. \A s \in Sinks : Captured(p, s)'
  BY <1>1, <1>8, <1>9, <1>10 DEF Captured
<1>12. \A s \in Sinks \ lost' : Held(p, s)'
  BY <1>1, <1>2, <1>8, <1>9 DEF Held, Known, Tuning
<1> QED BY <1>5, <1>6, <1>7, <1>11, <1>12, ProcsAssumption, Frame

\* pg_signal_catch_crash() and the steps after it: the place changes, and the hook.
LEMMA TunedStep ==
  ASSUME LifeInv, NEW p \in Procs, pc[p] \in Tuning, NEW stage \in Tuning \cup {"restore"},
         Goto(p, stage), hook' \in [Procs -> BOOLEAN],
         \A q \in Procs \ {p} : hook'[q] = hook[q],
         UNCHANGED <<polls, caches, snap, lock, node, booted, boot, lost>>
  PROVE  LifeInv'
<1>1. stage \in Places
  BY DEF Tuning, Places, Startup, Teardowns
<1>2. /\ pc' \in [Procs -> Places] /\ idx' \in [Procs -> 1..(NSinks + 1)]
      /\ pc'[p] = stage /\ idx'[p] = 1
      /\ \A q \in Procs \ {p} : pc'[q] = pc[q] /\ idx'[q] = idx[q]
  BY <1>1, GotoMoves DEF LifeInv
<1>3. Alone(p) /\ OwnNodes(p)
  BY <1>2, ProcsAssumption DEF Alone, OwnNodes
<1>4. TypeOK'
  BY <1>2 DEF LifeInv, TypeOK, Places
<1>5. lock = p /\ lock' = p /\ Placed(p)'
  BY <1>2, Own DEF Placed, Tuning
<1>6. \A s \in Sinks : Captured(p, s)'
  BY <1>2, Own DEF Captured, Tuning
<1>7. ASSUME NEW s \in Sinks \ lost PROVE Known(p, s)
  BY <1>5, Own DEF Held
<1>8. ASSUME NEW s \in Sinks PROVE ~(s < 1)
  BY DEF Sinks
<1>9. \A s \in Sinks \ lost' : Held(p, s)'
  BY <1>2, <1>7, <1>8 DEF Held, Known, Tuning
<1> QED BY <1>3, <1>4, <1>5, <1>6, <1>9, ProcsAssumption, Frame

LEMMA StopStep ==
  ASSUME LifeInv, NEW p \in Procs, Stop(p)
  PROVE  LifeInv'
<1>1. /\ Goto(p, "restore") /\ UNCHANGED Rest /\ UNCHANGED <<polls, booted>>
      /\ pc[p] \in {"psi", "sensors", "run", "lock"}
  BY DEF Stop, Rest, Teardown
<1>2. CASE pc[p] = "lock"
  <2>1. /\ Alone(p) /\ OwnNodes(p) /\ TypeOK' /\ pc'[p] = "restore"
        /\ lock' = NoProc => lock \in {p, NoProc}
    BY <1>1, GotoStep DEF LifeInv, TypeOK, Places, Teardowns
  <2>2. lock # p /\ Fresh(p)
    BY <1>2, Own DEF Placed
  <2>3. lock' # p /\ Placed(p)'
    BY <1>1, <2>1, <2>2 DEF Placed, Fresh, Rest, Tuning
  <2>4. \A s \in Sinks : caches[p][s] = UnmappedCache /\ s \notin snap[p]
    BY <2>2 DEF Fresh, Unmapped
  <2>5. \A s \in Sinks : Captured(p, s)'
    BY <1>1, <2>1, <2>4 DEF Captured, Rest, UnmappedCache
  <2> QED BY <2>1, <2>3, <2>5, Frame
<1>3. CASE pc[p] # "lock"
  BY <1>1, <1>3, TunedStep DEF Rest, Tuning, LifeInv, TypeOK
<1> QED BY <1>2, <1>3

-----------------------------------------------------------------------------
(* The steps that write a node. *)

LEMMA CacheOf ==
  ASSUME TypeOK, NEW p \in Procs, NEW s \in Sinks, NEW c \in CacheType,
         caches' = [caches EXCEPT ![p][s] = c]
  PROVE  /\ caches' \in [Procs -> [Sinks -> CacheType]]
         /\ \A q \in Procs \ {p} : caches'[q] = caches[q]
         /\ \A t \in Sinks \ {s} : caches'[p][t] = caches[p][t]
         /\ caches'[p][s] = c
<1> DEFINE row == [caches[p] EXCEPT ![s] = c]
<1>1. row \in [Sinks -> CacheType] /\ row[s] = c /\ \A t \in Sinks \ {s} : row[t] = caches[p][t]
  BY DEF TypeOK
<1>2. caches' = [caches EXCEPT ![p] = row]
  OBVIOUS
<1> HIDE DEF row
<1>3. caches' \in [Procs -> [Sinks -> CacheType]] /\ caches'[p] = row
      /\ \A q \in Procs \ {p} : caches'[q] = caches[q]
  BY <1>1, <1>2 DEF TypeOK
<1> QED BY <1>1, <1>3

LEMMA UpdateOkStep ==
  ASSUME LifeInv, NEW p \in Procs, NEW s \in Sinks, NEW v \in Values, UpdateOk(p, s, v)
  PROVE  LifeInv'
<1> DEFINE c == WriteSucceeded(caches[p][s], v)
<1>1. /\ pc[p] = "run" /\ caches[p][s].active
      /\ node' = [node EXCEPT ![s] = v]
      /\ caches' = [caches EXCEPT ![p][s] = c]
      /\ lost' = (IF caches[p][s].hasBase THEN lost ELSE lost \cup {s})
      /\ UNCHANGED <<pc, idx, polls, hook, snap, lock, booted, boot>>
  BY DEF UpdateOk
<1>2. caches[p][s] \in CacheType
  BY DEF LifeInv, TypeOK
<1>3. /\ c \in CacheType /\ c.last = v
      /\ c.active = caches[p][s].active /\ c.hasBase = caches[p][s].hasBase
      /\ c.base = caches[p][s].base /\ c.fd = caches[p][s].fd
  BY <1>2, WriteSucceededType
<1> HIDE DEF c
<1>4. /\ caches' \in [Procs -> [Sinks -> CacheType]]
      /\ \A q \in Procs \ {p} : caches'[q] = caches[q]
      /\ \A t \in Sinks \ {s} : caches'[p][t] = caches[p][t]
      /\ caches'[p][s] = c
  BY <1>1, <1>3, CacheOf DEF LifeInv
<1>5. node' \in [Sinks -> Values] /\ node'[s] = v /\ \A t \in Sinks \ {s} : node'[t] = node[t]
  BY <1>1 DEF LifeInv, TypeOK
<1>6. lock = p /\ Placed(p)'
  BY <1>1, Own DEF Placed, Fresh, Tuning
<1>7. lost \subseteq lost' /\ lost' \subseteq Sinks
  BY <1>1 DEF LifeInv, TypeOK
<1>8. TypeOK'
  BY <1>1, <1>4, <1>5, <1>7 DEF LifeInv, TypeOK
<1>9. Alone(p) /\ OwnNodes(p)
  BY <1>1, <1>4, <1>6, <1>7, ProcsAssumption DEF Alone, OwnNodes
<1>10. \A t \in Sinks : Captured(p, t)'
  <2>1. ASSUME NEW t \in Sinks \ {s} PROVE Captured(p, t)'
    <3>1. Captured(p, t) /\ caches'[p][t] = caches[p][t]
      BY <1>4, Own
    <3> QED BY <1>1, <1>7, <3>1 DEF Captured
  <2>2. Captured(p, s)'
    <3>1. Captured(p, s)
      BY Own
    <3> QED BY <1>1, <1>3, <1>4, <1>7, <3>1 DEF Captured
  <2> QED BY <2>1, <2>2
<1>11. ASSUME NEW t \in Sinks \ lost' PROVE Held(p, t)'
  <2>1. CASE t # s
    <3>1. Held(p, t) /\ caches'[p][t] = caches[p][t] /\ node'[t] = node[t]
      BY <1>4, <1>5, <1>6, <1>7, <2>1, Own
    <3> QED BY <1>1, <3>1 DEF Held, Known, Tuning
  <2>2. CASE t = s
    <3>1. caches[p][s].hasBase
      BY <1>1, <2>2
    <3> QED BY <1>1, <1>3, <1>4, <1>5, <2>2, <3>1 DEF Held, Known, Tuning
  <2> QED BY <2>1, <2>2
<1> QED BY <1>1, <1>6, <1>8, <1>9, <1>10, <1>11, ProcsAssumption, Frame

-----------------------------------------------------------------------------
(* cleanup_context() *)

LEMMA RestoreSinkStep ==
  ASSUME LifeInv, NEW p \in Procs, NEW ok \in BOOLEAN, RestoreSink(p, ok)
  PROVE  LifeInv'
<1> DEFINE s == idx[p]
           c == caches[p][s]
           r == RestoreSucceeded(c)
<1>1. /\ pc[p] = "restore" /\ s \in Sinks /\ NextSink(p)
      /\ UNCHANGED <<polls, hook, snap, lock, booted, boot>>
  BY DEF RestoreSink
<1>2. /\ pc' = pc /\ idx' \in [Procs -> 1..(NSinks + 1)] /\ idx'[p] = s + 1
      /\ \A q \in Procs \ {p} : idx'[q] = idx[q]
  BY <1>1, NextSinkMoves DEF LifeInv
<1>3. Placed(p) /\ c \in CacheType
      /\ (\A t \in Sinks : Captured(p, t))
      /\ (lock = p => \A t \in Sinks \ lost : Held(p, t))
  BY <1>1, Own DEF LifeInv, TypeOK
<1>4. /\ NeedsRestore(c) /\ ok => /\ node' = [node EXCEPT ![s] = c.base]
                                 /\ caches' = [caches EXCEPT ![p][s] = r] /\ lost' = lost
      /\ NeedsRestore(c) /\ ~ok => node' = node /\ caches' = caches /\ lost' = lost \cup {s}
      /\ ~NeedsRestore(c) => node' = node /\ caches' = caches /\ lost' = lost
  BY DEF RestoreSink
<1>5. c.hasBase => c.active /\ c.base \in Values /\ (s \notin lost => c.base = boot[s])
  BY <1>1, <1>3 DEF Captured
<1>6. NeedsRestore(c) => c.hasBase /\ lock = p
  <2>1. lock # p => c = UnmappedCache
    BY <1>1, <1>3 DEF Placed, Fresh, Unmapped
  <2> QED BY <2>1 DEF NeedsRestore, UnmappedCache
<1>7. NeedsRestore(c) => /\ r \in CacheType
                         /\ r.active = c.active /\ r.hasBase = c.hasBase
                         /\ r.base = c.base /\ r.fd = c.fd
  BY <1>3, <1>5, <1>6, RestoreSucceededType
<1> HIDE DEF r
<1>8. /\ caches' \in [Procs -> [Sinks -> CacheType]]
      /\ \A q \in Procs \ {p} : caches'[q] = caches[q]
      /\ \A t \in Sinks \ {s} : caches'[p][t] = caches[p][t]
      /\ \A f \in {"active", "hasBase", "base", "fd"} : caches'[p][s][f] = c[f]
  <2>1. CASE NeedsRestore(c) /\ ok
    <3>1. /\ caches' \in [Procs -> [Sinks -> CacheType]]
          /\ \A q \in Procs \ {p} : caches'[q] = caches[q]
          /\ \A t \in Sinks \ {s} : caches'[p][t] = caches[p][t]
          /\ caches'[p][s] = r
      BY <1>1, <1>4, <1>7, <2>1, CacheOf DEF LifeInv
    <3> QED BY <1>7, <2>1, <3>1
  <2>2. CASE ~(NeedsRestore(c) /\ ok)
    BY <1>4, <2>2 DEF LifeInv, TypeOK
  <2> QED BY <2>1, <2>2
<1>9. /\ node' \in [Sinks -> Values] /\ (\A t \in Sinks \ {s} : node'[t] = node[t])
      /\ NeedsRestore(c) /\ ok => node'[s] = c.base
      /\ ~(NeedsRestore(c) /\ ok) => node'[s] = node[s]
      /\ lost \subseteq lost' /\ lost' \subseteq Sinks
  BY <1>1, <1>4, <1>5, <1>6 DEF LifeInv, TypeOK
<1>10. TypeOK'
  BY <1>1, <1>2, <1>8, <1>9 DEF LifeInv, TypeOK
<1>11. Alone(p) /\ OwnNodes(p)
  <2>1. lock # p => node' = node
    BY <1>4, <1>6
  <2> QED BY <1>1, <1>2, <1>8, <1>9, <2>1, ProcsAssumption DEF Alone, OwnNodes
<1>12. Placed(p)'
  <2>1. lock # p => caches' = caches
    BY <1>4, <1>6
  <2> QED BY <1>1, <1>2, <1>3, <2>1 DEF Placed, Fresh, Tuning
<1>13. ASSUME NEW t \in Sinks PROVE Captured(p, t)'
  <2>1. CASE t # s
    <3>1. Captured(p, t) /\ caches'[p][t] = caches[p][t]
      BY <1>3, <1>8, <2>1
    <3> QED BY <1>1, <1>2, <1>9, <3>1 DEF Captured
  <2>2. CASE t = s
    <3>1. Captured(p, s)
      BY <1>1, <1>3
    <3> QED BY <1>1, <1>2, <1>8, <1>9, <2>2, <3>1 DEF Captured
  <2> QED BY <2>1, <2>2
<1>14. ASSUME lock = p, s \notin lost' PROVE node'[s] = boot[s]
  <2>1. s \in Sinks \ lost /\ Held(p, s)
    BY <1>1, <1>3, <1>9, <1>14
  <2>2. Known(p, s)
    BY <1>1, <2>1 DEF Held, Sinks
  <2>3. CASE NeedsRestore(c)
    <3>1. ok
      BY <1>4, <1>14, <2>3
    <3> QED BY <1>5, <1>6, <1>9, <2>1, <2>3, <3>1
  <2>4. CASE ~NeedsRestore(c)
    <3>1. node[s] # NoValue
      BY <1>1, NoValueAssumption, ValuesAssumption DEF LifeInv, TypeOK
    <3> QED BY <1>5, <1>9, <2>1, <2>2, <2>4, <3>1 DEF NeedsRestore, Known
  <2> QED BY <2>3, <2>4
<1>15. ASSUME lock = p, NEW t \in Sinks \ lost' PROVE Held(p, t)'
  <2>1. CASE t = s
    <3>1. node'[t] = boot'[t] /\ t < idx'[p] /\ pc'[p] = "restore"
      BY <1>1, <1>2, <1>14, <1>15, <2>1 DEF Sinks
    <3> QED BY <3>1 DEF Held, Tuning
  <2>2. CASE t # s
    <3>1. Held(p, t) /\ caches'[p][t] = caches[p][t] /\ node'[t] = node[t]
      BY <1>3, <1>8, <1>9, <1>15, <2>2
    <3>2. t < idx'[p] <=> t < idx[p]
      BY <1>1, <1>2, <2>2 DEF Sinks
    <3> QED BY <1>1, <1>2, <3>1, <3>2 DEF Held, Known, Tuning
  <2> QED BY <2>1, <2>2
<1> QED BY <1>1, <1>10, <1>11, <1>12, <1>13, <1>15, ProcsAssumption, Frame

LEMMA RestoreDoneStep ==
  ASSUME LifeInv, NEW p \in Procs, RestoreDone(p)
  PROVE  LifeInv'
<1>1. /\ pc[p] = "restore" /\ idx[p] \notin Sinks
      /\ Goto(p, "clear") /\ UNCHANGED Rest /\ UNCHANGED <<polls, booted>>
  BY DEF RestoreDone, Rest, Teardown
<1>2. /\ Alone(p) /\ OwnNodes(p) /\ TypeOK' /\ pc'[p] = "clear"
      /\ lock' = NoProc => lock \in {p, NoProc}
  BY <1>1, GotoStep DEF LifeInv, TypeOK, Places, Teardowns
<1>3. Placed(p)'
  BY <1>1, <1>2, Own DEF Placed, Fresh, Rest, Tuning
<1>4. \A s \in Sinks : Captured(p, s)'
  BY <1>1, <1>2, Own DEF Captured, Rest, Tuning
<1>5. \A s \in Sinks : s < idx[p]
  BY <1>1, ConstantTypes DEF LifeInv, TypeOK, Sinks
<1>6. lock = p => \A s \in Sinks \ lost : node[s] = boot[s]
  BY <1>1, <1>5, Own DEF Held
<1>7. lock' = p => \A s \in Sinks \ lost' : Held(p, s)'
  BY <1>1, <1>2, <1>6 DEF Held, Rest, Tuning
<1> QED BY <1>2, <1>3, <1>4, <1>7, Frame

LEMMA ClearSnapshotStep ==
  ASSUME LifeInv, NEW p \in Procs, ClearSnapshot(p)
  PROVE  LifeInv'
<1>1. /\ pc[p] = "clear" /\ Goto(p, "unlock") /\ snap' = [snap EXCEPT ![p] = {}]
      /\ UNCHANGED <<polls, hook, caches, lock, node, booted, boot, lost>>
  BY DEF ClearSnapshot, Teardown
<1>2. /\ pc' \in [Procs -> Places] /\ idx' \in [Procs -> 1..(NSinks + 1)]
      /\ pc'[p] = "unlock"
      /\ \A q \in Procs \ {p} : pc'[q] = pc[q] /\ idx'[q] = idx[q]
  BY <1>1, GotoMoves DEF LifeInv, Places, Teardowns
<1>3. snap' \in [Procs -> SUBSET Sinks] /\ snap'[p] = {}
      /\ \A q \in Procs \ {p} : snap'[q] = snap[q]
  BY <1>1 DEF LifeInv, TypeOK
<1>4. Alone(p) /\ OwnNodes(p)
  BY <1>1, <1>2, <1>3, ProcsAssumption DEF Alone, OwnNodes
<1>5. TypeOK'
  BY <1>1, <1>2, <1>3 DEF LifeInv, TypeOK, Places
<1>6. Placed(p)'
  BY <1>1, <1>2, <1>3, Own DEF Placed, Fresh, Tuning
<1>7. \A s \in Sinks : Captured(p, s)'
  BY <1>1, <1>2, <1>3, Own DEF Captured, Tuning
<1>8. lock' = p => \A s \in Sinks \ lost' : Held(p, s)'
  BY <1>1, <1>2, Own DEF Held, Tuning
<1> QED BY <1>1, <1>4, <1>5, <1>6, <1>7, <1>8, ProcsAssumption, Frame

LEMMA ReleaseFrees ==
  ASSUME TypeOK, NEW p \in Procs, Release(p)
  PROVE  /\ lock' # p /\ lock' \in Procs \cup {NoProc}
         /\ \A q \in Procs \ {p} : lock' = q <=> lock = q
         /\ lock' = NoProc => lock \in {p, NoProc}
BY ProcsAssumption DEF Release, TypeOK

LEMMA UnlockStep ==
  ASSUME LifeInv, NEW p \in Procs, Unlock(p)
  PROVE  LifeInv'
<1>1. /\ pc[p] = "unlock" /\ Goto(p, "close") /\ Release(p)
      /\ UNCHANGED <<polls, hook, caches, snap, node, booted, boot, lost>>
  BY DEF Unlock, Teardown
<1>2. /\ pc' \in [Procs -> Places] /\ idx' \in [Procs -> 1..(NSinks + 1)]
      /\ pc'[p] = "close"
      /\ \A q \in Procs \ {p} : pc'[q] = pc[q] /\ idx'[q] = idx[q]
  BY <1>1, GotoMoves DEF LifeInv, Places, Teardowns
<1>3. /\ lock' # p /\ lock' \in Procs \cup {NoProc}
      /\ \A q \in Procs \ {p} : lock' = q <=> lock = q
      /\ lock' = NoProc => lock \in {p, NoProc}
  BY <1>1, ReleaseFrees DEF LifeInv
<1>4. Alone(p)
  BY <1>1, <1>2, <1>3 DEF Alone
<1>5. OwnNodes(p)
  BY <1>1, Own DEF OwnNodes, Held
<1>6. TypeOK'
  BY <1>1, <1>2, <1>3 DEF LifeInv, TypeOK, Places
<1>7. Placed(p)'
  BY <1>1, <1>2, <1>3, Own DEF Placed, Tuning
<1>8. \A s \in Sinks : Captured(p, s)'
  BY <1>1, <1>2, Own DEF Captured, Tuning
<1> QED BY <1>3, <1>4, <1>5, <1>6, <1>7, <1>8, Frame

LEMMA CloseSinkStep ==
  ASSUME LifeInv, NEW p \in Procs, CloseSink(p)
  PROVE  LifeInv'
<1> DEFINE s == idx[p]
<1>1. /\ pc[p] = "close" /\ s \in Sinks /\ NextSink(p)
      /\ caches' = [caches EXCEPT ![p][s] = UnmappedCache]
      /\ UNCHANGED <<polls, hook, snap, lock, node, booted, boot, lost>>
  BY DEF CloseSink
<1>2. /\ pc' = pc /\ idx' \in [Procs -> 1..(NSinks + 1)]
      /\ \A q \in Procs \ {p} : idx'[q] = idx[q]
  BY <1>1, NextSinkMoves DEF LifeInv
<1>3. UnmappedCache \in CacheType
  BY <1>1, UnmappedType DEF Unmapped
<1>4. /\ caches' \in [Procs -> [Sinks -> CacheType]]
      /\ \A q \in Procs \ {p} : caches'[q] = caches[q]
      /\ \A t \in Sinks \ {s} : caches'[p][t] = caches[p][t]
      /\ caches'[p][s] = UnmappedCache
  BY <1>1, <1>3, CacheOf DEF LifeInv
<1>5. lock # p /\ snap[p] = {} /\ Placed(p)'
  BY <1>1, <1>2, Own DEF Placed, Tuning
<1>6. Alone(p) /\ OwnNodes(p)
  BY <1>1, <1>2, <1>4, <1>5 DEF Alone, OwnNodes
<1>7. TypeOK'
  BY <1>1, <1>2, <1>4 DEF LifeInv, TypeOK
<1>8. ASSUME NEW t \in Sinks PROVE Captured(p, t)'
  <2>1. CASE t # s
    <3>1. Captured(p, t) /\ caches'[p][t] = caches[p][t]
      BY <1>4, <2>1, Own
    <3> QED BY <1>1, <1>2, <3>1 DEF Captured
  <2>2. CASE t = s
    BY <1>1, <1>2, <1>4, <1>5, <2>2 DEF Captured, UnmappedCache, Tuning
  <2> QED BY <2>1, <2>2
<1>9. lock' # p /\ (lock' = NoProc => lock \in {p, NoProc})
  BY <1>1, <1>5
<1> QED BY <1>5, <1>6, <1>7, <1>8, <1>9, Frame

-----------------------------------------------------------------------------
(* The end of a process, in order, after a crash, or by a kill. *)

LEMMA EndStep ==
  ASSUME LifeInv, NEW p \in Procs, End(p), UNCHANGED <<node, booted, boot>>,
         lost \subseteq lost', lost' \subseteq Sinks,
         lock = p => \A s \in Sinks \ lost' : node[s] = boot[s]
  PROVE  LifeInv'
<1>1. /\ pc' \in [Procs -> Places] /\ idx' \in [Procs -> 1..(NSinks + 1)]
      /\ pc'[p] = "down"
      /\ \A q \in Procs \ {p} : pc'[q] = pc[q] /\ idx'[q] = idx[q]
  BY GotoMoves DEF End, LifeInv, Places
<1>2. /\ lock' # p /\ lock' \in Procs \cup {NoProc}
      /\ \A q \in Procs \ {p} : lock' = q <=> lock = q
      /\ lock' = NoProc => lock \in {p, NoProc}
  BY ReleaseFrees DEF End, LifeInv
<1>3. /\ polls' \in [Procs -> 0..(BootRetryMax + 1)] /\ polls'[p] = 0
      /\ \A q \in Procs \ {p} : polls'[q] = polls[q]
  BY BootAssumption DEF End, LifeInv, TypeOK
<1>4. /\ hook' \in [Procs -> BOOLEAN] /\ hook'[p] = FALSE
      /\ \A q \in Procs \ {p} : hook'[q] = hook[q]
  BY DEF End, LifeInv, TypeOK
<1>5. /\ caches' \in [Procs -> [Sinks -> CacheType]] /\ caches'[p] = Unmapped
      /\ \A q \in Procs \ {p} : caches'[q] = caches[q]
  BY UnmappedType DEF End, LifeInv, TypeOK
<1>6. /\ snap' \in [Procs -> SUBSET Sinks] /\ snap'[p] = {}
      /\ \A q \in Procs \ {p} : snap'[q] = snap[q]
  BY DEF End, LifeInv, TypeOK
<1>7. TypeOK'
  BY <1>1, <1>2, <1>3, <1>4, <1>5, <1>6 DEF LifeInv, TypeOK, Places
<1>8. Alone(p) /\ OwnNodes(p)
  BY <1>1, <1>2, <1>3, <1>4, <1>5, <1>6 DEF Alone, OwnNodes
<1>9. Placed(p)'
  BY <1>1, <1>2, <1>3, <1>4, <1>5, <1>6, BootAssumption DEF Placed, Fresh, Tuning, Unmapped
<1>10. \A s \in Sinks : Captured(p, s)'
  BY <1>1, <1>5, <1>6 DEF Captured, Unmapped, UnmappedCache
<1> QED BY <1>2, <1>7, <1>8, <1>9, <1>10, Frame

LEMMA CrashStep ==
  ASSUME LifeInv, NEW p \in Procs, Crash(p)
  PROVE  LifeInv'
<1>1. /\ pc[p] # "down" /\ hook[p] /\ Goto(p, "crash") /\ hook' = [hook EXCEPT ![p] = FALSE]
      /\ UNCHANGED <<polls, caches, snap, lock, node, booted, boot, lost>>
  BY DEF Crash, Alive
<1>2. /\ pc' \in [Procs -> Places] /\ idx' \in [Procs -> 1..(NSinks + 1)]
      /\ pc'[p] = "crash" /\ idx'[p] = 1
      /\ \A q \in Procs \ {p} : pc'[q] = pc[q] /\ idx'[q] = idx[q]
  BY <1>1, GotoMoves DEF LifeInv, Places
<1>3. hook' \in [Procs -> BOOLEAN] /\ \A q \in Procs \ {p} : hook'[q] = hook[q]
  BY <1>1 DEF LifeInv, TypeOK
<1>4. pc[p] \in Tuning \cup Teardowns \cup {"crash"}
  BY <1>1, Own DEF Placed, LifeInv, TypeOK, Startup, Tuning
<1>5. Alone(p) /\ OwnNodes(p)
  BY <1>1, <1>2, <1>3, ProcsAssumption DEF Alone, OwnNodes
<1>6. TypeOK'
  BY <1>1, <1>2, <1>3 DEF LifeInv, TypeOK, Places
<1>7. Placed(p)'
  <2>1. lock # p => snap[p] = {}
    BY <1>4, Own DEF Placed, Fresh, Tuning, Teardowns
  <2> QED BY <1>1, <1>2, <2>1 DEF Placed, Tuning
<1>8. \A s \in Sinks : Captured(p, s)'
  BY <1>1, <1>2, Own DEF Captured, Tuning
<1>9. ASSUME lock = p, NEW s \in Sinks \ lost PROVE node[s] = boot[s] \/ s \in snap[p]
  <2>1. Held(p, s) /\ Captured(p, s) /\ pc[p] # "close"
    BY <1>9, Own DEF Placed
  <2>2. Known(p, s) /\ pc[p] \in Tuning \cup {"restore"} => node[s] = boot[s] \/ s \in snap[p]
    BY <2>1 DEF Known, Captured
  <2> QED BY <1>4, <2>1, <2>2 DEF Held, Teardowns
<1>10. lock' = p => \A s \in Sinks \ lost' : Held(p, s)'
  <2>1. \A s \in Sinks : 1 <= s
    BY DEF Sinks
  <2> QED BY <1>1, <1>2, <1>9, <2>1 DEF Held, Tuning
<1> QED BY <1>1, <1>5, <1>6, <1>7, <1>8, <1>10, ProcsAssumption, Frame

LEMMA CrashWriteStep ==
  ASSUME LifeInv, NEW p \in Procs, NEW ok \in BOOLEAN, CrashWrite(p, ok)
  PROVE  LifeInv'
<1> DEFINE s == idx[p]
           c == caches[p][s]
           reaches == s \in snap[p] /\ c.fd = s
<1>1. /\ pc[p] = "crash" /\ s \in Sinks /\ NextSink(p)
      /\ UNCHANGED <<polls, hook, caches, snap, lock, booted, boot>>
      /\ reaches /\ ok => node' = [node EXCEPT ![s] = c.base] /\ lost' = lost
      /\ reaches /\ ~ok => node' = node /\ lost' = lost \cup {s}
      /\ ~reaches => node' = node /\ lost' = lost
  BY DEF CrashWrite
<1>2. /\ pc' = pc /\ idx' \in [Procs -> 1..(NSinks + 1)] /\ idx'[p] = s + 1
      /\ \A q \in Procs \ {p} : idx'[q] = idx[q]
  BY <1>1, NextSinkMoves DEF LifeInv
<1>3. s \in snap[p] =>
        reaches /\ lock = p /\ c.base \in Values /\ (s \notin lost => c.base = boot[s])
  BY <1>1, Own DEF Placed, Captured
<1>4. /\ node' \in [Sinks -> Values] /\ (\A t \in Sinks \ {s} : node'[t] = node[t])
      /\ reaches /\ ok => node'[s] = c.base
      /\ lost \subseteq lost' /\ lost' \subseteq Sinks
  BY <1>1, <1>3 DEF LifeInv, TypeOK
<1>5. TypeOK'
  BY <1>1, <1>2, <1>4 DEF LifeInv, TypeOK
<1>6. lock # p => node' = node
  BY <1>1, <1>3
<1>7. Alone(p) /\ OwnNodes(p)
  BY <1>1, <1>2, <1>4, <1>6, ProcsAssumption DEF Alone, OwnNodes
<1>8. Placed(p)'
  BY <1>1, <1>2, Own DEF Placed, Fresh, Tuning
<1>9. \A t \in Sinks : Captured(p, t)'
  BY <1>1, <1>2, <1>4, Own DEF Captured, Tuning
<1>10. ASSUME lock = p, NEW t \in Sinks \ lost' PROVE Held(p, t)'
  <2>1. Held(p, t) /\ t \in Sinks \ lost
    BY <1>4, <1>10, Own
  <2>2. CASE t = s
    <3>1. node'[t] = boot[t]
      <4>1. CASE s \in snap[p]
        BY <1>1, <1>3, <1>4, <1>10, <2>1, <2>2, <4>1
      <4>2. CASE s \notin snap[p]
        BY <1>1, <2>1, <2>2, <4>2 DEF Held
      <4> QED BY <4>1, <4>2
    <3> QED BY <1>1, <1>2, <3>1 DEF Held, Tuning
  <2>3. CASE t # s
    <3>1. node'[t] = node[t]
      BY <1>4, <2>3
    <3>2. s <= t => s + 1 <= t
      BY <1>1, <2>3 DEF Sinks
    <3> QED BY <1>1, <1>2, <2>1, <3>1, <3>2 DEF Held, Tuning
  <2> QED BY <2>2, <2>3
<1> QED BY <1>1, <1>5, <1>7, <1>8, <1>9, <1>10, ProcsAssumption, Frame

LEMMA CrashEndStep ==
  ASSUME LifeInv, NEW p \in Procs, CrashEnd(p)
  PROVE  LifeInv'
<1>1. /\ pc[p] = "crash" /\ idx[p] \notin Sinks
      /\ End(p) /\ UNCHANGED <<node, booted, boot, lost>>
  BY DEF CrashEnd
<1>2. \A s \in Sinks : ~(idx[p] <= s)
  BY <1>1, ConstantTypes DEF LifeInv, TypeOK, Sinks
<1>3. lock = p => \A s \in Sinks \ lost : node[s] = boot[s]
  BY <1>1, <1>2, Own DEF Held
<1>4. lost \subseteq Sinks
  BY DEF LifeInv, TypeOK
<1> QED BY <1>1, <1>3, <1>4, EndStep

LEMMA ExitStep ==
  ASSUME LifeInv, NEW p \in Procs, ExitProcess(p)
  PROVE  LifeInv'
<1>1. pc[p] = "close" /\ End(p) /\ UNCHANGED <<node, booted, boot, lost>>
  BY DEF ExitProcess
<1>2. lock # p /\ lost \subseteq Sinks
  BY <1>1, Own DEF Placed, LifeInv, TypeOK
<1> QED BY <1>1, <1>2, EndStep

LEMMA KillStep ==
  ASSUME LifeInv, NEW p \in Procs, Kill(p)
  PROVE  LifeInv'
<1>1. /\ lost' = lost \cup {s \in Sinks : node[s] # boot[s]}
      /\ End(p) /\ UNCHANGED <<node, booted, boot>>
  BY DEF Kill
<1>2. lost \subseteq lost' /\ lost' \subseteq Sinks
  BY <1>1 DEF LifeInv, TypeOK
<1> QED BY <1>1, <1>2, EndStep

-----------------------------------------------------------------------------
(* Every step of the program. *)

LEMMA LifeInvStep == LifeInv /\ [Next]_vars => LifeInv'
<1> SUFFICES ASSUME LifeInv, [Next]_vars PROVE LifeInv'
  OBVIOUS
<1>1. CASE BootCompletes
  <2>1. UNCHANGED <<pc, idx, polls>> /\ UNCHANGED Rest /\ booted' = TRUE
    BY <1>1 DEF BootCompletes, Rest
  <2>2. TypeOK'
    BY <2>1 DEF LifeInv, TypeOK, Rest
  <2>3. \A p \in Procs : pc[p] = "boot" => polls'[p] <= BootRetryMax
    BY <2>1, Own DEF Placed
  <2> QED BY <2>1, <2>2, <2>3, Unmoved
<1>2. CASE UNCHANGED vars
  <2>1. UNCHANGED <<pc, idx, polls>> /\ UNCHANGED Rest /\ TypeOK'
    BY <1>2 DEF vars, Rest, LifeInv, TypeOK
  <2>2. \A p \in Procs : pc[p] = "boot" => polls'[p] <= BootRetryMax
    BY <2>1, Own DEF Placed
  <2> QED BY <2>1, <2>2, Unmoved
<1>3. ASSUME NEW p \in Procs, Step(p) PROVE LifeInv'
  <2>1. CASE Start(p)       BY <2>1, StartStep
  <2>2. CASE LockOk(p)      BY <2>2, LockOkStep
  <2>3. CASE BootPoll(p)    BY <2>3, BootPollStep
  <2>4. ASSUME NEW openable \in SUBSET Sinks, NEW readable \in SUBSET Sinks,
               MapNodes(p, openable, readable)
        PROVE  LifeInv'
    BY <2>4, MapNodesStep
  <2>5. CASE InstallHook(p)
    <3>1. /\ pc[p] = "env" /\ Goto(p, "psi") /\ hook' = [hook EXCEPT ![p] = TRUE]
          /\ UNCHANGED <<polls, caches, snap, lock, node, booted, boot, lost>>
      BY <2>5 DEF InstallHook
    <3>2. hook' \in [Procs -> BOOLEAN] /\ \A q \in Procs \ {p} : hook'[q] = hook[q]
      BY <3>1 DEF LifeInv, TypeOK
    <3> QED BY <3>1, <3>2, TunedStep DEF Tuning
  <2>6. CASE Proceed(p)
    <3>1. /\ pc[p] \in {"psi", "sensors"}
          /\ Goto(p, "sensors") \/ Goto(p, "run")
          /\ UNCHANGED <<polls, hook, caches, snap, lock, node, booted, boot, lost>>
      BY <2>6 DEF Proceed
    <3>2. hook' \in [Procs -> BOOLEAN] /\ \A q \in Procs \ {p} : hook'[q] = hook[q]
      BY <3>1 DEF LifeInv, TypeOK
    <3> QED BY <3>1, <3>2, TunedStep DEF Tuning
  <2>7. CASE Stop(p)        BY <2>7, StopStep
  <2>8. ASSUME NEW s \in Sinks, NEW v \in Values, UpdateOk(p, s, v) PROVE LifeInv'
    BY <2>8, UpdateOkStep
  <2>9. ASSUME NEW ok \in BOOLEAN, RestoreSink(p, ok) PROVE LifeInv'
    BY <2>9, RestoreSinkStep
  <2>10. CASE RestoreDone(p)    BY <2>10, RestoreDoneStep
  <2>11. CASE ClearSnapshot(p)  BY <2>11, ClearSnapshotStep
  <2>12. CASE Unlock(p)         BY <2>12, UnlockStep
  <2>13. CASE CloseSink(p)      BY <2>13, CloseSinkStep
  <2>14. CASE ExitProcess(p)    BY <2>14, ExitStep
  <2>15. CASE Crash(p)          BY <2>15, CrashStep
  <2>16. ASSUME NEW ok \in BOOLEAN, CrashWrite(p, ok) PROVE LifeInv'
    BY <2>16, CrashWriteStep
  <2>17. CASE CrashEnd(p)       BY <2>17, CrashEndStep
  <2>18. CASE Kill(p)           BY <2>18, KillStep
  <2> QED
    BY <1>3, <2>1, <2>2, <2>3, <2>4, <2>5, <2>6, <2>7, <2>8, <2>9, <2>10, <2>11, <2>12,
       <2>13, <2>14, <2>15, <2>16, <2>17, <2>18 DEF Step
<1> QED BY <1>1, <1>2, <1>3 DEF Next

LEMMA LifeInvariant == Spec => []LifeInv
BY LifeInvInit, LifeInvStep, PTL DEF Spec

-----------------------------------------------------------------------------
\* The structs, the lock, rs_tbl and the nodes stay within their types: no loop over
\* the sinks runs past NR_SINKS, whatever the interleaving of the instances.
THEOREM TypeCorrect == Spec => []TypeOK
BY LifeInvariant, PTL DEF LifeInv

\* cleanup_context() and crash_restore(): once the lock is free every node that could be put
\* back is at its boot-time value.
THEOREM BootValuesBackHolds == Spec => []BootValuesBack
BY LifeInvariant, PTL DEF LifeInv

\* pg_sysfs_cache_init(): the base an instance captures is the boot-time value, because it
\* maps the nodes under the lock, after the instance before it has put them back.
THEOREM CapturesBootHolds == Spec => []CapturesBoot
<1>1. LifeInv => CapturesBoot
  BY DEF LifeInv, AllCaptured, Captured, CapturesBoot
<1> QED BY <1>1, LifeInvariant, PTL

\* crash_restore(): what is left of rs_tbl belongs to an instance that holds the lock and
\* has its descriptors open.
THEOREM HookStillOwnsHolds == Spec => []HookStillOwns
<1>1. LifeInv => HookStillOwns
  <2>1. ASSUME LifeInv, NEW p \in Procs, pc[p] = "crash", NEW s \in snap[p]
        PROVE  caches[p][s].fd = s /\ lock = p
    <3>1. s \in Sinks
      BY <2>1 DEF LifeInv, TypeOK
    <3> QED BY <2>1, <3>1, Own DEF Placed, Captured
  <2> QED BY <2>1 DEF HookStillOwns
<1> QED BY <1>1, LifeInvariant, PTL

=============================================================================
