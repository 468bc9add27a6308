------------------------------- MODULE LogLimiter -------------------------------
(***************************************************************************)
(* should_rate_limit() of src/sys/log.c, which stands before every error   *)
(* the daemon logs.  The credit is refilled at a call only, by the time    *)
(* since the call before.                                                  *)
(*                                                                         *)
(* An operator used nowhere is a mutant of the one that follows it.        *)
(***************************************************************************)
EXTENDS Integers

CONSTANTS
  Burst,     \* LOG_BURST
  RefillMs,  \* LOG_REFILL_MS
  DropMod    \* 2^32: dropped is an uint32_t

ASSUME LogAssumption ==
  Burst \in Nat \ {0} /\ RefillMs \in Nat \ {0} /\ DropMod \in Nat \ {0}

VARIABLES
  credit,   \* credit_ms
  quiet,    \* now_ms - last_ms, as far as the credit can tell; NoCall: last_ms is 0
  dropped   \* dropped

logVars == <<credit, quiet, dropped>>

CreditMax == Burst * RefillMs   \* LOG_CREDIT_MAX
NoCall == -1

LogTypeOK ==
  /\ credit \in 0..CreditMax
  /\ quiet \in {NoCall} \cup 0..CreditMax
  /\ dropped \in 0..(DropMod - 1)

LogInit == credit = CreditMax /\ quiet = NoCall /\ dropped = 0

LogElapse ==
  /\ quiet' = IF quiet # NoCall /\ quiet < CreditMax THEN quiet + 1 ELSE quiet
  /\ UNCHANGED <<credit, dropped>>

\* The credit once a call has refilled it.
RefilledUncapped ==
  IF quiet = NoCall THEN credit ELSE credit + quiet
Refilled ==
  IF quiet # NoCall /\ credit + quiet < CreditMax THEN credit + quiet
  ELSE IF quiet = NoCall THEN credit ELSE CreditMax

LogWritten ==
  /\ Refilled >= RefillMs
  /\ credit' = Refilled - RefillMs /\ quiet' = 0 /\ dropped' = 0

LogSuppressed ==
  /\ Refilled < RefillMs
  /\ credit' = Refilled /\ quiet' = 0 /\ dropped' = (dropped + 1) % DropMod

\* pg_log_err()
LogErr == LogWritten \/ LogSuppressed
=============================================================================
