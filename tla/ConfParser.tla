------------------------------- MODULE ConfParser -------------------------------
(***************************************************************************)
(* pg_conf_parse() of src/sys/conf.c: the configuration file is read in    *)
(* blocks that may end anywhere, lines are collected in a buffer of LineSz *)
(* bytes, and each one goes to a callback.  The file is chosen as it is    *)
(* read; a character is a newline or not one.  PropOverrides composes the  *)
(* parser with the callback of src/sys/opt.c.                              *)
(*                                                                         *)
(* An operator used nowhere is a mutant of the one that follows it.        *)
(***************************************************************************)
EXTENDS Integers

CONSTANTS
  LineSz,  \* CONF_LINE_SZ
  BufSz    \* CONF_BUF_SZ

ASSUME SizesAssumption == LineSz \in Nat \ {0} /\ BufSz \in Nat \ {0}

VARIABLES
  file,   \* "closed", "open" while the loop runs, "done"
  left,   \* sz - i: characters of the block not looked at
  l_pos,  \* characters in line[]
  skip,   \* the rest of the line is ignored
  typed   \* history: characters of the current line, counted up to LineSz

parserVars == <<file, left, l_pos, skip, typed>>

ParserTypeOK ==
  /\ file \in {"closed", "open", "done"}
  /\ left \in 0..BufSz
  /\ l_pos \in 0..(LineSz - 1)
  /\ skip \in BOOLEAN
  /\ typed \in 0..LineSz

ParserInit ==
  /\ file = "closed" /\ left = 0 /\ l_pos = 0 /\ skip = FALSE /\ typed = 0

OpenFile == file = "closed" /\ file' = "open" /\ UNCHANGED <<left, l_pos, skip, typed>>
OpenFails == file = "closed" /\ file' = "done" /\ UNCHANGED <<left, l_pos, skip, typed>>

\* refill_buffer(): any short read
LineRestarted == 0
LineKept == l_pos

Refill(n) ==
  /\ file = "open" /\ left = 0
  /\ left' = n /\ l_pos' = LineKept
  /\ UNCHANGED <<file, skip, typed>>

\* a character that is not a newline
Char ==
  /\ file = "open" /\ left > 0
  /\ left' = left - 1
  /\ typed' = IF typed < LineSz THEN typed + 1 ELSE typed
  /\ IF ~skip /\ l_pos < LineSz - 1 THEN l_pos' = l_pos + 1 /\ UNCHANGED skip
                      ELSE skip' = TRUE /\ UNCHANGED l_pos
  /\ UNCHANGED file

\* dispatch_line() hands the line over
Delivers == ~skip /\ l_pos > 0

Newline ==
  /\ file = "open" /\ left > 0
  /\ left' = left - 1
  /\ l_pos' = 0 /\ skip' = FALSE /\ typed' = 0
  /\ UNCHANGED file

\* read() returns 0: a last line without its newline is handed over too
EndOfFile ==
  /\ file = "open" /\ left = 0
  /\ file' = "done"
  /\ UNCHANGED <<left, l_pos, skip, typed>>

\* read() fails: the line being collected is dropped
ReadFails ==
  /\ file = "open" /\ left = 0
  /\ file' = "done"
  /\ UNCHANGED <<left, l_pos, skip, typed>>

-----------------------------------------------------------------------------
\* Whatever the block boundaries, a line of 1 to LineSz - 1 characters is handed to
\* the callback whole, and a longer one not at all: no remainder of it is taken for
\* a line of its own (conf.c:109-145).
LinesWhole ==
  file = "open" => IF typed < LineSz THEN ~skip /\ l_pos = typed ELSE skip
=============================================================================
