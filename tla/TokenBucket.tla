------------------------------- MODULE TokenBucket -------------------------------
(***************************************************************************)
(* What src/sys/log.c promises of its errors: a bucket that fills with     *)
(* every millisecond, up to Burst messages, and that each message written  *)
(* takes RefillMs from.  Hence any span of T ms sees at most               *)
(* Burst + T / RefillMs messages, and one that finds enough in the bucket  *)
(* is never suppressed.  LogLimiter refines this module.                   *)
(***************************************************************************)
EXTENDS Integers

CONSTANTS
  Burst,     \* LOG_BURST
  RefillMs   \* LOG_REFILL_MS

VARIABLE tokens

Most == Burst * RefillMs

Init == tokens = Most

Fill == tokens' = IF tokens < Most THEN tokens + 1 ELSE tokens

Written == tokens >= RefillMs /\ tokens' = tokens - RefillMs

Suppressed == tokens < RefillMs /\ UNCHANGED tokens

Next == Fill \/ Written \/ Suppressed

Spec == Init /\ [][Next]_tokens
=============================================================================
