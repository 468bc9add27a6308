------------------------------- MODULE Lifecycle -------------------------------
(***************************************************************************)
(* Instances of the daemon from pg_daemon_init() to the end of             *)
(* cleanup_context(), with the lock file that keeps them apart, the crash  *)
(* hook of src/sys/signal.c and the kernel nodes they tune.                *)
(*                                                                         *)
(* init starts the service again whenever it ends, and service.sh may      *)
(* start one beside it: an instance that is down may start at any time.    *)
(* A crash may come between any two steps, in the teardown too; SIGKILL,   *)
(* or a SIGTERM before pg_signal_init() blocks it, ends an instance at     *)
(* once.  Of a cache only what the teardown depends on moves here; the     *)
(* change detection, the backoff and short writes are in SysfsCache.       *)
(***************************************************************************)
EXTENDS SysfsOps

CONSTANTS
  Procs,         \* instances of the daemon
  NoProc,        \* the lock file is not held
  NSinks,        \* NR_SINKS
  Values,        \* what a node holds
  BootValues,    \* what it may hold before the first instance starts
  BootRetryMax   \* PG_BOOT_RETRY_MAX

ASSUME ProcsAssumption == NoProc \notin Procs
ASSUME SinksAssumption == NSinks \in Nat \ {0}
ASSUME ValuesAssumption == Values \subseteq Nat /\ BootValues \subseteq Values
ASSUME BootAssumption == BootRetryMax \in Nat

Sinks == 1..NSinks

VARIABLES
  pc,      \* where each instance is
  idx,     \* the sink its loop over the sinks has reached
  polls,   \* pg_prop_wait_boot(): reads of sys.boot_completed that failed
  hook,    \* crash_hook is set
  caches,  \* the six caches of ctx
  snap,    \* rs_tbl: the sinks in it; the base of each is the cache's
  lock,    \* who holds the flock
  node,    \* what the kernel holds
  booted,  \* sys.boot_completed = 1
  boot,    \* history: the nodes before any instance ran
  lost     \* history: sinks whose boot-time value nobody can put back any more

vars == <<pc, idx, polls, hook, caches, snap, lock, node, booted, boot, lost>>

CacheType ==
  [active : BOOLEAN, hasBase : BOOLEAN, fails : 0..FailMax, retry : 0..(Wrap - 1),
   last : Values \cup {NoValue}, base : Values \cup {0}, fd : Sinks \cup {NoFd}]

Startup == {"lock", "boot", "map", "env", "psi", "sensors", "run"}
Teardowns == {"restore", "clear", "unlock", "close"}

TypeOK ==
  /\ pc \in [Procs -> Startup \cup Teardowns \cup {"crash", "down"}]
  /\ idx \in [Procs -> 1..(NSinks + 1)]
  /\ polls \in [Procs -> 0..(BootRetryMax + 1)]
  /\ hook \in [Procs -> BOOLEAN]
  /\ caches \in [Procs -> [Sinks -> CacheType]]
  /\ snap \in [Procs -> SUBSET Sinks]
  /\ lock \in Procs \cup {NoProc}
  /\ node \in [Sinks -> Values]
  /\ booted \in BOOLEAN
  /\ boot \in [Sinks -> Values]
  /\ lost \in SUBSET Sinks

Unmapped == [s \in Sinks |-> UnmappedCache]

Init ==
  /\ pc = [p \in Procs |-> "down"]
  /\ idx = [p \in Procs |-> 1]
  /\ polls = [p \in Procs |-> 0]
  /\ hook = [p \in Procs |-> FALSE]
  /\ caches = [p \in Procs |-> Unmapped]
  /\ snap = [p \in Procs |-> {}]
  /\ lock = NoProc
  /\ node \in [Sinks -> BootValues]
  /\ booted = FALSE
  /\ boot = node
  /\ lost = {}

-----------------------------------------------------------------------------
(* cleanup_context(): the order in which it goes through its stages. *)

TeardownUnlockFirst ==
  [start |-> "unlock", unlock |-> "restore", restore |-> "clear", clear |-> "close"]
TeardownWithoutClear ==
  [start |-> "restore", restore |-> "unlock", clear |-> "unlock", unlock |-> "close"]
Teardown ==
  [start |-> "restore", restore |-> "clear", clear |-> "unlock", unlock |-> "close"]

\* An instance goes on to a stage, or to the next sink of its stage.
Goto(p, stage) ==
  /\ pc' = [pc EXCEPT ![p] = stage]
  /\ idx' = [idx EXCEPT ![p] = 1]

NextSink(p) == idx' = [idx EXCEPT ![p] = idx[p] + 1] /\ UNCHANGED pc

-----------------------------------------------------------------------------
(* pg_daemon_init() *)

\* A new process, its statics as init_context_defaults() sets them
Start(p) ==
  /\ pc[p] = "down"
  /\ Goto(p, "lock")
  /\ UNCHANGED <<polls, hook, caches, snap, lock, node, booted, boot, lost>>

\* pg_lockfile_init(): flock(LOCK_EX | LOCK_NB)
LockIgnored == TRUE
LockFree == lock = NoProc

LockOk(p) ==
  /\ pc[p] = "lock" /\ LockFree
  /\ lock' = p
  /\ Goto(p, "boot")
  /\ UNCHANGED <<polls, hook, caches, snap, node, booted, boot, lost>>

\* pg_prop_wait_boot(), one step per read of the property: after a failed read it
\* goes on while retries <= PG_BOOT_RETRY_MAX.
Retries(p) == polls[p] + 1 <= BootRetryMax

BootPoll(p) ==
  /\ pc[p] = "boot"
  /\ IF booted THEN Goto(p, "map") /\ UNCHANGED polls
     ELSE /\ polls' = [polls EXCEPT ![p] = polls[p] + 1]
          /\ IF Retries(p) THEN UNCHANGED <<pc, idx>>
             ELSE Goto(p, Teardown.start)
  /\ UNCHANGED <<hook, caches, snap, lock, node, booted, boot, lost>>

\* init_sysfs_caches() and restore_snapshot(): openable is the set of sinks with a
\* node that opens, readable the set whose value can be captured.
Mapped(p, openable, readable) ==
  [s \in Sinks |-> IF s \in openable THEN MappedCache(s, s \in readable, node[s])
                   ELSE UnmappedCache]

MapNodes(p, openable, readable) ==
  /\ pc[p] = "map"
  /\ caches' = [caches EXCEPT ![p] = Mapped(p, openable, readable)]
  /\ snap' = [snap EXCEPT ![p] = openable \cap readable]
  /\ Goto(p, "env")
  /\ UNCHANGED <<polls, hook, lock, node, booted, boot, lost>>

\* init_os_environment(): pg_signal_catch_crash(crash_restore)
InstallHook(p) ==
  /\ pc[p] = "env"
  /\ hook' = [hook EXCEPT ![p] = TRUE]
  /\ Goto(p, "psi")
  /\ UNCHANGED <<polls, caches, snap, lock, node, booted, boot, lost>>

\* pg_detect_cpu_psi(), the tuning, init_sensors_and_triggers()
Proceed(p) ==
  /\ pc[p] \in {"psi", "sensors"}
  /\ Goto(p, IF pc[p] = "psi" THEN "sensors" ELSE "run")
  /\ UNCHANGED <<polls, hook, caches, snap, lock, node, booted, boot, lost>>

\* Every failure jumps to the cleanup: no root, the lock held by another instance,
\* no PSI, no trigger, no signalfd; a shutdown request, or an error of epoll, does
\* the same once the reactor runs.
Stop(p) ==
  /\ pc[p] \in {"psi", "sensors", "run", "lock"}
  /\ Goto(p, Teardown.start)
  /\ UNCHANGED <<polls, hook, caches, snap, lock, node, booted, boot, lost>>

-----------------------------------------------------------------------------
(* The reactor runs: apply_mapping() updates a sink.  A node without a base *)
(* cannot be put back once it has been written.                             *)

UpdateOk(p, s, v) ==
  /\ pc[p] = "run" /\ caches[p][s].active /\ v # caches[p][s].last
  /\ node' = [node EXCEPT ![s] = v]
  /\ caches' = [caches EXCEPT ![p][s] = WriteSucceeded(caches[p][s], v)]
  /\ lost' = IF caches[p][s].hasBase THEN lost ELSE lost \cup {s}
  /\ UNCHANGED <<pc, idx, polls, hook, snap, lock, booted, boot>>

-----------------------------------------------------------------------------
(* cleanup_context() *)

\* restore_all(): pg_sysfs_restore() of one sink.  A refused write is not tried again.
RestoreSink(p, ok) ==
  /\ pc[p] = "restore" /\ idx[p] \in Sinks
  /\ NextSink(p)
  /\ LET s == idx[p]
         c == caches[p][s]
     IN  IF NeedsRestore(c)
         THEN /\ node' = IF ok THEN [node EXCEPT ![s] = c.base] ELSE node
              /\ caches' = IF ok THEN [caches EXCEPT ![p][s] = RestoreSucceeded(c)]
                           ELSE caches
              /\ lost' = IF ok THEN lost ELSE lost \cup {s}
         ELSE UNCHANGED <<node, caches, lost>>
  /\ UNCHANGED <<polls, hook, snap, lock, booted, boot>>

RestoreDone(p) ==
  /\ pc[p] = "restore" /\ idx[p] \notin Sinks
  /\ Goto(p, Teardown.restore)
  /\ UNCHANGED <<polls, hook, caches, snap, lock, node, booted, boot, lost>>

\* rs_cnt = 0
ClearSnapshot(p) ==
  /\ pc[p] = "clear"
  /\ snap' = [snap EXCEPT ![p] = {}]
  /\ Goto(p, Teardown.clear)
  /\ UNCHANGED <<polls, hook, caches, lock, node, booted, boot, lost>>

Release(p) == lock' = IF lock = p THEN NoProc ELSE lock

\* The end of a process: its memory is gone, the kernel closes what it held.
End(p) ==
  /\ Goto(p, "down")
  /\ Release(p)
  /\ polls' = [polls EXCEPT ![p] = 0]
  /\ hook' = [hook EXCEPT ![p] = FALSE]
  /\ caches' = [caches EXCEPT ![p] = Unmapped]
  /\ snap' = [snap EXCEPT ![p] = {}]

\* pg_lockfile_close(ctx->lock_fd)
Unlock(p) ==
  /\ pc[p] = "unlock"
  /\ Release(p)
  /\ Goto(p, Teardown.unlock)
  /\ UNCHANGED <<polls, hook, caches, snap, node, booted, boot, lost>>

\* pg_sysfs_cache_cleanup() of one sink; nothing reads what it leaves in the struct.
CloseSink(p) ==
  /\ pc[p] = "close" /\ idx[p] \in Sinks
  /\ caches' = [caches EXCEPT ![p][idx[p]] = UnmappedCache]
  /\ NextSink(p)
  /\ UNCHANGED <<polls, hook, snap, lock, node, booted, boot, lost>>

\* The process exits after the last one.
ExitProcess(p) ==
  /\ pc[p] = "close" /\ idx[p] \notin Sinks
  /\ End(p)
  /\ UNCHANGED <<node, booted, boot, lost>>

-----------------------------------------------------------------------------
(* Crashes and kills *)

Alive(p) == pc[p] # "down"

\* pg_crash_handler(): the hook runs once
Crash(p) ==
  /\ Alive(p) /\ hook[p]
  /\ hook' = [hook EXCEPT ![p] = FALSE]
  /\ Goto(p, "crash")
  /\ UNCHANGED <<polls, caches, snap, lock, node, booted, boot, lost>>

\* crash_restore(): one entry of rs_tbl, written through the descriptor it copied
CrashWrite(p, ok) ==
  /\ pc[p] = "crash" /\ idx[p] \in Sinks
  /\ NextSink(p)
  /\ LET s == idx[p]
         reaches == s \in snap[p] /\ caches[p][s].fd = s
     IN  /\ node' = IF reaches /\ ok THEN [node EXCEPT ![s] = caches[p][s].base] ELSE node
         /\ lost' = IF reaches /\ ~ok THEN lost \cup {s} ELSE lost
  /\ UNCHANGED <<polls, hook, caches, snap, lock, booted, boot>>

\* The signal is raised again with its default action.
CrashEnd(p) ==
  /\ pc[p] = "crash" /\ idx[p] \notin Sinks
  /\ End(p)
  /\ UNCHANGED <<node, booted, boot, lost>>

\* SIGKILL, SIGTERM before it is blocked, a crash before the hook is set or within it
Kill(p) ==
  /\ Alive(p)
  /\ lost' = lost \cup {s \in Sinks : node[s] # boot[s]}
  /\ End(p)
  /\ UNCHANGED <<node, booted, boot>>

\* sys.boot_completed is set.
BootCompletes ==
  /\ ~booted /\ booted' = TRUE
  /\ UNCHANGED <<pc, idx, polls, hook, caches, snap, lock, node, boot, lost>>

Step(p) ==
  \/ Start(p) \/ LockOk(p) \/ BootPoll(p)
  \/ (\E openable, readable \in SUBSET Sinks : MapNodes(p, openable, readable))
  \/ InstallHook(p) \/ Proceed(p) \/ Stop(p)
  \/ (\E s \in Sinks, v \in Values : UpdateOk(p, s, v))
  \/ (\E ok \in BOOLEAN : RestoreSink(p, ok)) \/ RestoreDone(p) \/ ClearSnapshot(p)
  \/ Unlock(p) \/ CloseSink(p) \/ ExitProcess(p)
  \/ Crash(p) \/ (\E ok \in BOOLEAN : CrashWrite(p, ok)) \/ CrashEnd(p) \/ Kill(p)

Next == BootCompletes \/ \E p \in Procs : Step(p)

Spec == Init /\ [][Next]_vars

-----------------------------------------------------------------------------
\* Once no instance holds the lock, every node is back at the value it had before
\* the first one started, whichever instances ran, crashed or were stopped half-way
\* through their start or their teardown in between, unless a restoring write was
\* refused, the value could not be read, or an instance was killed.
BootValuesBack ==
  lock = NoProc => \A s \in Sinks \ lost : node[s] = boot[s]

\* An instance captures the boot-time value, never what another one tuned: it maps
\* the nodes only after the other has put them back.
CapturesBoot ==
  \A p \in Procs, s \in Sinks \ lost :
    pc[p] # "down" /\ caches[p][s].hasBase => caches[p][s].base = boot[s]

\* The crash hook writes through open descriptors of an instance that still holds
\* the lock: after the teardown has closed them, or another instance has started
\* tuning, there is nothing left in rs_tbl.
HookStillOwns ==
  \A p \in Procs : pc[p] = "crash" =>
    \A s \in snap[p] : idx[p] <= s => caches[p][s].fd = s /\ lock = p
=============================================================================
