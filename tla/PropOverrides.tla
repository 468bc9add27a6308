----------------------------- MODULE PropOverrides -----------------------------
(***************************************************************************)
(* The prop.* overrides of src/sys/opt.c and src/sys/prop.c: the lines the *)
(* parser finds in the configuration file are applied one by one at        *)
(* startup, each successful one taking a slot of props[], and the slots    *)
(* are undone from the last to the first at exit.  The same name may occur *)
(* in several lines, and the property service may refuse any set.          *)
(*                                                                         *)
(* No other process is assumed to set the same properties meanwhile: the   *)
(* code overwrites such a change at exit.                                  *)
(***************************************************************************)
EXTENDS ConfParser, Sequences, FiniteSets, SequencesExt

CONSTANTS
  Names,     \* properties the file may name
  Values,    \* what a property holds
  MaxProps   \* MAX_PROPS

ASSUME MaxPropsAssumption == MaxProps \in Nat \ {0}

VARIABLES
  phase,     \* where the daemon is: pg_opt_init(), the reactor, pg_opt_exit()
  slots,     \* props[0 .. prop_count - 1]
  prop,      \* what the property service holds
  original,  \* history: prop before pg_opt_init()
  refused,   \* history: names whose latest reset was refused
  skipped    \* history: the limit made the last line be ignored

propVars == <<phase, slots, prop, original, refused, skipped>>
vars == <<parserVars, propVars>>

\* struct pg_prop_state
Slot == [name : Names, val : Values, modified : BOOLEAN]

TypeOK ==
  /\ ParserTypeOK
  /\ phase \in {"init", "run", "exit", "done"}
  /\ slots \in Seq(Slot) /\ Len(slots) <= MaxProps
  /\ prop \in [Names -> Values]
  /\ original \in [Names -> Values]
  /\ refused \in SUBSET Names
  /\ skipped \in BOOLEAN

Init ==
  /\ ParserInit
  /\ phase = "init"
  /\ slots = <<>>
  /\ prop \in [Names -> Values]
  /\ original = prop
  /\ refused = {}
  /\ skipped = FALSE

-----------------------------------------------------------------------------
(* parse_cb() for one line of the file *)

Full == Len(slots) >= MaxProps

\* no key, no '=', or another prefix; a sysfs.* line is written once and forgotten
LineIgnored ==
  /\ phase = "init" /\ skipped' = FALSE
  /\ UNCHANGED <<phase, slots, prop, original, refused>>

LineSkipped ==
  /\ phase = "init" /\ Full
  /\ skipped' = TRUE
  /\ UNCHANGED <<phase, slots, prop, original, refused>>

\* The value is already there: the slot is taken, unmodified.  What its val holds
\* then is never read.
LineHolds(n) ==
  /\ phase = "init" /\ ~Full
  /\ slots' = Append(slots, [name |-> n, val |-> prop[n], modified |-> FALSE])
  /\ skipped' = FALSE
  /\ UNCHANGED <<phase, prop, original, refused>>

\* pg_prop_set(): the value found is captured before it is replaced.
Captured(n, v) == [name |-> n, val |-> prop[n], modified |-> TRUE]

LineSets(n, v) ==
  /\ phase = "init" /\ ~Full /\ v # prop[n]
  /\ slots' = Append(slots, Captured(n, v))
  /\ prop' = [prop EXCEPT ![n] = v]
  /\ skipped' = FALSE
  /\ UNCHANGED <<phase, original, refused>>

\* __system_property_set() fails: prop_count stays.
LineRefused(n, v) ==
  /\ phase = "init" /\ ~Full /\ v # prop[n]
  /\ skipped' = FALSE
  /\ UNCHANGED <<phase, slots, prop, original, refused>>

Callback ==
  \/ LineIgnored \/ LineSkipped
  \/ \E n \in Names : LineHolds(n) \/ \E v \in Values : LineSets(n, v) \/ LineRefused(n, v)

\* pg_opt_init(): the callback runs within the step that completes a line.
Parse ==
  \/ /\ OpenFile \/ OpenFails \/ Char \/ ReadFails \/ \E n \in 1..BufSz : Refill(n)
     /\ UNCHANGED propVars
  \/ /\ Newline \/ EndOfFile
     /\ IF Delivers THEN Callback ELSE UNCHANGED propVars

StartupEnds ==
  /\ phase = "init" /\ file = "done" /\ phase' = "run" /\ skipped' = FALSE
  /\ UNCHANGED <<parserVars, slots, prop, original, refused>>

-----------------------------------------------------------------------------
(* pg_opt_exit() *)

ExitBegins ==
  /\ phase = "run" /\ phase' = "exit"
  /\ UNCHANGED <<parserVars, slots, prop, original, refused, skipped>>

\* The slot pg_prop_cleanup() is called for.
AtFirst == 1
AtLast == Len(slots)

UndoSlot(ok) ==
  /\ phase = "exit" /\ slots # <<>>
  /\ LET slot == slots[AtLast]
     IN  /\ prop' = IF slot.modified /\ ok THEN [prop EXCEPT ![slot.name] = slot.val] ELSE prop
         /\ refused' = IF ~slot.modified THEN refused
                       ELSE IF ok THEN refused \ {slot.name} ELSE refused \cup {slot.name}
  /\ slots' = RemoveAt(slots, AtLast)
  /\ UNCHANGED <<parserVars, phase, original, skipped>>

ExitEnds ==
  /\ phase = "exit" /\ slots = <<>> /\ phase' = "done"
  /\ UNCHANGED <<parserVars, slots, prop, original, refused, skipped>>

Next ==
  Parse \/ StartupEnds \/ ExitBegins \/ ExitEnds \/ \E ok \in BOOLEAN : UndoSlot(ok)

Spec == Init /\ [][Next]_vars

-----------------------------------------------------------------------------
\* A property the file overrode, once or several times, is back at the value it
\* had before, unless the very last of its resets was refused: a refused reset of a
\* later line is made good by the reset of an earlier one.
OverridesUndone ==
  phase = "done" => \A n \in Names \ refused : prop[n] = original[n]

\* The oldest value captured for a name is the original, whatever lines for it came
\* later, changed nothing or were refused.
OldestIsOriginal ==
  \A i \in 1..Len(slots) :
    /\ slots[i].modified
    /\ \A j \in 1..(i - 1) : ~(slots[j].modified /\ slots[j].name = slots[i].name)
    => slots[i].val = original[slots[i].name]

Overridden == {n \in Names : prop[n] # original[n]}

\* "Up to 64 properties can be overridden at once. Past that, additional prop.*
\* lines are logged and skipped": the claim of docs/CONFIGURATION.md.
SkipsPastLimit ==
  skipped => Cardinality(Overridden) >= MaxProps
=============================================================================
