------------------------------- MODULE Reactor -------------------------------
(***************************************************************************)
(* The event reactor of src/core/epoll.c: pg_epoll_run() waits on a signal *)
(* descriptor and on the PSI trigger until next_wake runs out, and runs    *)
(* the handler ctx->on_trigger = ctx->on_timeout in between.  What the     *)
(* handler does is left open here, apart from what it does to the state    *)
(* the reactor shares with it: it may set next_wake, and open, register,   *)
(* remove, close and forget the trigger, one call at a time and in any     *)
(* order, as long as it returns with the trigger whole.  Governor is the   *)
(* handler of this program and refines this module.                        *)
(*                                                                         *)
(* next_wake counts milliseconds, the clock StepsPerMs steps in each.  The *)
(* kernel may wake the thread up to MaxLate steps late in total between    *)
(* two runs of the handler, and MaxIntr waits may end in EINTR.            *)
(***************************************************************************)
EXTENDS Integers, Sequences, FiniteSets

CONSTANTS
  SigFd,      \* ctx->sig_fd
  Fds,        \* descriptors a PSI trigger may get
  NoFd,       \* -1
  FirstWake,  \* next_wake when the reactor starts
  MaxWake,    \* the longest next_wake a handler sets
  StepsPerMs, \* steps of the clock in a millisecond
  MaxLate,    \* bound on the lateness of wake-ups between two runs, in steps
  MaxIntr     \* bound on EINTRs between two runs

ASSUME FdAssumption ==
  IsFiniteSet(Fds) /\ SigFd \notin Fds /\ NoFd \notin Fds \cup {SigFd}
ASSUME WakeAssumption ==
  /\ MaxWake \in Nat /\ FirstWake \in 1..MaxWake
  /\ StepsPerMs \in Nat \ {0} /\ MaxLate \in Nat /\ MaxIntr \in Nat

VARIABLES
  phase,       \* where pg_epoll_run() is
  batch,       \* the events of the last epoll_wait() not handled yet
  shutdown,    \* ctx->shutdown_req
  nextWake,    \* ctx->next_wake
  trg,         \* ctx->trg_fd
  opened,      \* the kernel's open PSI triggers
  registered,  \* the triggers in the epoll set
  fired,       \* the triggers with an edge not delivered yet
  signal,      \* a SIGTERM or SIGINT is pending on the signalfd
  slept,       \* steps since wait_start, while waiting
  planned,     \* history: next_wake as the last run of the handler left it
  asleep,      \* history: steps spent waiting since that run
  intr         \* history: EINTRs since that run

triggerVars == <<trg, opened, registered, fired>>
waitVars == <<slept, planned, asleep, intr>>
vars == <<phase, batch, shutdown, nextWake, trg, opened, registered, fired,
          signal, slept, planned, asleep, intr>>

Forever == -1
Wakes == {Forever} \cup 1..MaxWake

TypeOK ==
  /\ phase \in {"setup", "head", "wait", "dispatch", "run", "done", "failed"}
  /\ batch \in Seq(Fds \cup {SigFd})
  /\ shutdown \in BOOLEAN
  /\ nextWake \in Wakes
  /\ trg \in Fds \cup {NoFd}
  /\ opened \in SUBSET Fds
  /\ registered \in SUBSET Fds
  /\ fired \in SUBSET Fds
  /\ signal \in BOOLEAN
  /\ slept \in Nat /\ asleep \in Nat /\ intr \in 0..MaxIntr
  /\ planned \in Wakes

\* The daemon opens the trigger before it runs the reactor, unless it is dormant.
Init ==
  /\ phase = "setup" /\ batch = <<>> /\ shutdown = FALSE
  /\ nextWake = FirstWake
  /\ trg \in Fds \cup {NoFd}
  /\ opened = {trg} \ {NoFd}
  /\ registered = {} /\ fired = {}
  /\ signal \in BOOLEAN
  /\ slept = 0 /\ asleep = 0 /\ intr = 0
  /\ planned = FirstWake

-----------------------------------------------------------------------------
(* epoll_setup() *)

\* A failing step closes the epoll set again; the trigger is left to the caller.
SetupFails ==
  /\ phase = "setup"
  /\ phase' = "failed"
  /\ UNCHANGED <<batch, shutdown, nextWake, triggerVars, signal, waitVars>>

SetupOk ==
  /\ phase = "setup"
  /\ phase' = "head"
  /\ registered' = {trg} \ {NoFd}
  /\ UNCHANGED <<batch, shutdown, nextWake, trg, opened, fired, signal, waitVars>>

-----------------------------------------------------------------------------
(* Time *)

Steps(ms) == ms * StepsPerMs
Second == Steps(1000)

\* The milliseconds that pg_dt_sec() and the shift by Q16_SHIFT make of t steps.  dt
\* is rounded down to 1/65536 s, and up when the second changes in between, where the
\* nanoseconds to subtract are rounded; the shift rounds down to whole milliseconds.
WholeMs(dt) == (dt * 1000) \div 65536
Measured(t) == {WholeMs((t * 65536) \div Second), WholeMs((t * 65536 + Second - 1) \div Second)}

\* How many steps a measurement may miss, and how many it may add.
MaxMissed == (65535 * StepsPerMs + Second - 1) \div 65536
MaxAdded == (Second - 1) \div 65536

-----------------------------------------------------------------------------
(* The loop of pg_epoll_run() *)

EnterWait ==
  /\ phase = "head" /\ ~shutdown
  /\ phase' = "wait" /\ slept' = 0
  /\ UNCHANGED <<batch, shutdown, nextWake, triggerVars, signal, planned, asleep,
                 intr>>

\* close(ctx->epoll_fd); the trigger and the signalfd stay open
Exit ==
  /\ phase = "head" /\ shutdown
  /\ phase' = "done" /\ registered' = {}
  /\ UNCHANGED <<batch, shutdown, nextWake, trg, opened, fired, signal, waitVars>>

\* What epoll_wait() has to report.
Ready == (IF signal THEN {SigFd} ELSE {}) \cup (fired \cap registered)

\* All orders in which epoll_wait() may report a set of events.
Orders(S) ==
  {s \in [1..Cardinality(S) -> S] :
     /\ \A i, j \in 1..Cardinality(S) : s[i] = s[j] => i = j
     /\ \A e \in S : \E i \in 1..Cardinality(S) : s[i] = e}

WaitReturns ==
  /\ phase = "wait" /\ Ready # {}
  /\ batch' \in Orders(Ready)
  /\ phase' = "dispatch" /\ slept' = 0
  /\ fired' = fired \ registered
  /\ UNCHANGED <<shutdown, nextWake, trg, opened, registered, signal, planned, asleep,
                 intr>>

\* nfds == 0: ctx->on_timeout(ctx)
Timeout ==
  /\ phase = "wait" /\ Ready = {}
  /\ nextWake # Forever /\ slept >= Steps(nextWake)
  /\ phase' = "run" /\ slept' = 0
  /\ UNCHANGED <<batch, shutdown, nextWake, triggerVars, signal, planned, asleep, intr>>

\* epoll_error(), errno == EINTR: what is left of next_wake, at least 1
RemainingUnfloored(wake, elapsed) == IF wake = Forever THEN Forever ELSE wake - elapsed
RemainingWhole(wake, elapsed) == wake
Remaining(wake, elapsed) ==
  IF wake = Forever THEN Forever
  ELSE IF wake - elapsed < 1 THEN 1 ELSE wake - elapsed

Interrupted ==
  /\ phase = "wait" /\ Ready = {} /\ intr < MaxIntr
  /\ phase' = "head"
  /\ \E elapsed \in Measured(slept) : nextWake' = Remaining(nextWake, elapsed)
  /\ slept' = 0 /\ intr' = intr + 1
  /\ UNCHANGED <<batch, shutdown, triggerVars, signal, planned, asleep>>

\* epoll_error(), any other errno
WaitError ==
  /\ phase = "wait"
  /\ phase' = "head" /\ shutdown' = TRUE /\ slept' = 0
  /\ UNCHANGED <<batch, nextWake, triggerVars, signal, planned, asleep, intr>>

\* handle_signal_event(): a signal read from the signalfd requests the shutdown
RequestLost == shutdown
Requested == shutdown \/ signal

HandleSignal ==
  /\ phase = "dispatch" /\ batch # <<>> /\ Head(batch) = SigFd
  /\ shutdown' = Requested
  /\ signal' = FALSE
  /\ batch' = Tail(batch)
  /\ UNCHANGED <<phase, nextWake, triggerVars, waitVars>>

\* handle_trigger_event(): suppressed once a shutdown is requested.  An event of
\* a descriptor that is neither sig_fd nor trg_fd is ignored.
RunsAnyway(fd) == fd = trg
Runs(fd) == fd = trg /\ ~shutdown

HandleTrigger ==
  /\ phase = "dispatch" /\ batch # <<>> /\ Head(batch) # SigFd
  /\ phase' = IF Runs(Head(batch)) THEN "run" ELSE "dispatch"
  /\ batch' = Tail(batch)
  /\ UNCHANGED <<shutdown, nextWake, triggerVars, signal, waitVars>>

BatchDone ==
  /\ phase = "dispatch" /\ batch = <<>>
  /\ phase' = "head"
  /\ UNCHANGED <<batch, shutdown, nextWake, triggerVars, signal, waitVars>>

-----------------------------------------------------------------------------
(* What the handler may do *)

\* The trigger the context holds is the one open trigger, and it is watched.
Whole == opened = {trg} \ {NoFd} /\ registered = opened

\* pg_psi_open_trg() and ctx->trg_fd = fd: not watched yet
OpenTrigger(fd) ==
  /\ fd \notin opened
  /\ trg' = fd /\ opened' = opened \cup {fd}
  /\ UNCHANGED <<registered, fired>>

\* pg_epoll_add_trg() and pg_epoll_rm_trg(), where epoll_ctl() succeeds
RegisterTrigger ==
  /\ trg # NoFd
  /\ registered' = registered \cup {trg}
  /\ UNCHANGED <<trg, opened, fired>>

RemoveTrigger ==
  /\ trg # NoFd
  /\ registered' = registered \ {trg}
  /\ UNCHANGED <<trg, opened, fired>>

\* pg_psi_close_trg(): the kernel drops a closed descriptor from the epoll set as well.
CloseNothing == UNCHANGED <<trg, opened, registered, fired>>
CloseTrigger ==
  /\ opened' = opened \ {trg}
  /\ registered' = registered \ {trg}
  /\ fired' = fired \ {trg}
  /\ UNCHANGED trg

\* ctx->trg_fd = -1
ClearTrigger == trg' = NoFd /\ UNCHANGED <<opened, registered, fired>>

TriggerStep ==
  \/ \E fd \in Fds : OpenTrigger(fd)
  \/ RegisterTrigger \/ RemoveTrigger \/ CloseTrigger \/ ClearTrigger

\* A handler never loses sight of an open trigger.
HandlerStep ==
  /\ phase = "run"
  /\ nextWake' \in Wakes
  /\ TriggerStep \/ UNCHANGED triggerVars
  /\ opened' \subseteq {trg'}
  /\ UNCHANGED <<phase, batch, shutdown, signal, waitVars>>

\* It leaves a wake-up, and a trigger that pg_epoll_run() can wait on, or none.
HandlerReturns ==
  /\ phase = "run" /\ Whole
  /\ nextWake' \in Wakes
  /\ planned' = nextWake' /\ asleep' = 0 /\ intr' = 0
  /\ phase' = "dispatch"
  /\ UNCHANGED <<batch, shutdown, triggerVars, signal, slept>>

-----------------------------------------------------------------------------
(* The environment *)

\* Time passes in epoll_wait(), late wake-ups included.  A wait without a
\* deadline needs no clock.
Elapse ==
  /\ phase = "wait" /\ nextWake # Forever
  /\ slept < Steps(nextWake) \/ asleep < Steps(planned) + MaxLate
  /\ slept' = slept + 1 /\ asleep' = asleep + 1
  /\ UNCHANGED <<phase, batch, shutdown, nextWake, triggerVars, signal, planned,
                 intr>>

\* SIGTERM or SIGINT, blocked and routed to the signalfd
SignalArrives ==
  /\ ~signal /\ phase \notin {"done", "failed"}
  /\ signal' = TRUE
  /\ UNCHANGED <<phase, batch, shutdown, nextWake, triggerVars, waitVars>>

\* The kernel reports pressure on an open trigger.
PressureEdge ==
  /\ phase \notin {"done", "failed"}
  /\ \E fd \in opened \ fired : fired' = fired \cup {fd}
  /\ UNCHANGED <<phase, batch, shutdown, nextWake, trg, opened, registered, signal,
                 waitVars>>

Loop ==
  \/ SetupOk \/ EnterWait \/ Exit \/ WaitReturns \/ Timeout
  \/ HandleSignal \/ HandleTrigger \/ BatchDone

Next ==
  \/ Loop \/ SetupFails \/ Interrupted \/ WaitError
  \/ HandlerStep \/ HandlerReturns
  \/ Elapse \/ SignalArrives \/ PressureEdge

Spec == Init /\ [][Next]_vars

\* The thread is scheduled, the handler returns, time passes.
Fairness ==
  /\ WF_vars(Loop) /\ WF_vars(Elapse)
  /\ []<>(phase # "run")

FairSpec == Spec /\ Fairness

-----------------------------------------------------------------------------
\* An EINTR moves the next timeout by no more than the rounding of the time it
\* measures (epoll.c:27-32): what is left of next_wake makes up for the waits before
\* it, no sooner than the handler asked and at most MaxMissed later for each EINTR,
\* unless the time is over already and the 1 ms floor grants another millisecond.
DeadlineKept ==
  phase \in {"head", "wait"} /\ ~shutdown /\ nextWake # Forever =>
    LET before == IF phase = "wait" THEN asleep - slept ELSE asleep
        due == before + Steps(nextWake)
        asked == Steps(planned)
    IN  /\ due >= asked - intr * MaxAdded
        /\ \/ due <= asked + intr * MaxMissed
           \/ nextWake = 1 /\ before >= asked - intr * MaxAdded

\* However the handler replaces the trigger, and whichever of its calls fail, no open
\* trigger is lost sight of, not even halfway; and the reactor never waits on another
\* descriptor than ctx->trg_fd, nor holds an open one that it does not wait on
\* (gov.c:82-94, gov.c:118-123).
TriggerWatched ==
  /\ opened \subseteq {trg}
  /\ phase # "run" => opened = {trg} \ {NoFd}
  /\ phase \in {"head", "wait", "dispatch"} => registered = opened

\* The handler never starts once a shutdown has been requested, even when the
\* trigger's event comes after the signal's in one epoll_wait() batch.
NoRunAfterShutdown ==
  [][phase # "run" /\ phase' = "run" => ~shutdown]_vars

\* A timeout is never early, whatever EINTRs came before it, but for what rounding
\* up may add to each of them: nothing unless a step is shorter than 1/65536 s.
NoEarlyTimeout ==
  [][phase = "wait" /\ phase' = "run" => asleep >= Steps(planned) - intr * MaxAdded]_vars

\* A signal pending while the reactor runs ends it.
SignalStops == (signal /\ phase # "setup") ~> (phase \in {"done", "failed"})

\* A handler that asked for a wake-up gets one, unless the reactor stops.
WakeArrives ==
  (phase = "wait" /\ nextWake # Forever) ~> (phase \in {"run", "done", "failed"})
=============================================================================
