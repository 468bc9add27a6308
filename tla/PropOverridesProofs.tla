-------------------------- MODULE PropOverridesProofs --------------------------
(***************************************************************************)
(* The configuration parser and the overrides for every buffer size, file, *)
(* set of properties and number of slots: lines reach the callback whole,  *)
(* and undoing the slots from the last to the first brings back the value  *)
(* each property had, however its lines repeat and are refused.            *)
(***************************************************************************)
EXTENDS PropOverrides, SequenceTheorems, TLAPS

\* The parser holds a line in full or skips it; before the file is opened it holds
\* an empty one.
ParserInv ==
  /\ ParserTypeOK
  /\ LinesWhole
  /\ file = "closed" => l_pos = 0 /\ typed = 0 /\ ~skip

-----------------------------------------------------------------------------
(* Slots: a property without a modified slot holds its original value. *)

Touched(n) == \E i \in 1..Len(slots) : slots[i].modified /\ slots[i].name = n

Untouched == \A n \in Names \ refused : ~Touched(n) => prop[n] = original[n]

\* Resets are refused at exit only, and the exit leaves no slot behind.
Phased ==
  /\ phase = "init" => refused = {}
  /\ phase = "run" => refused = {}
  /\ phase = "done" => slots = <<>>

PropTypeOK ==
  /\ phase \in {"init", "run", "exit", "done"}
  /\ slots \in Seq(Slot) /\ Len(slots) <= MaxProps
  /\ prop \in [Names -> Values]
  /\ original \in [Names -> Values]
  /\ refused \in SUBSET Names
  /\ skipped \in BOOLEAN

PropInv == PropTypeOK /\ OldestIsOriginal /\ Untouched /\ Phased

\* One more slot: it is the oldest for its property only if there was none before.
LEMMA AppendStep ==
  ASSUME PropInv, NEW slot \in Slot, slots' = Append(slots, slot), Len(slots) < MaxProps,
         slot.modified => slot.val = prop[slot.name],
         prop' \in [Names -> Values],
         \A n \in Names : n # slot.name \/ ~slot.modified => prop'[n] = prop[n],
         skipped' \in BOOLEAN, phase = "init", UNCHANGED <<phase, original, refused>>
  PROVE  PropInv'
<1> USE DEF PropInv, PropTypeOK
<1>1. /\ slots' \in Seq(Slot) /\ Len(slots') = Len(slots) + 1
      /\ \A i \in 1..Len(slots) : slots'[i] = slots[i]
      /\ slots'[Len(slots) + 1] = slot
  OBVIOUS
<1>2. Len(slots) \in Nat
  OBVIOUS
<1>3. PropTypeOK'
  <2>1. Len(slots') <= MaxProps
    BY <1>1, <1>2, MaxPropsAssumption
  <2> QED BY <1>1, <2>1
<1>4. OldestIsOriginal'
  <2>1. ASSUME NEW i \in 1..Len(slots'), slots'[i].modified,
               \A j \in 1..(i - 1) : ~(slots'[j].modified /\ slots'[j].name = slots'[i].name)
        PROVE  slots'[i].val = original'[slots'[i].name]
    <3>1. CASE i \in 1..Len(slots)
      <4>1. slots'[i] = slots[i] /\ \A j \in 1..(i - 1) : slots'[j] = slots[j]
        BY <1>1, <1>2, <3>1
      <4> QED BY <2>1, <3>1, <4>1 DEF OldestIsOriginal
    <3>2. CASE i = Len(slots) + 1
      <4>1. slots'[i] = slot /\ \A j \in 1..Len(slots) : slots'[j] = slots[j]
        BY <1>1, <3>2
      <4>2. ~Touched(slot.name)
        BY <1>2, <2>1, <3>2, <4>1 DEF Touched
      <4>3. slot.name \in Names \ refused
        BY DEF Slot, Phased
      <4> QED BY <2>1, <4>1, <4>2, <4>3 DEF Untouched
    <3> QED BY <1>1, <1>2, <3>1, <3>2
  <2> QED BY <2>1 DEF OldestIsOriginal
<1>5. Untouched'
  <2>1. ASSUME NEW n \in Names \ refused, ~Touched(n)' PROVE prop'[n] = original[n]
    <3>1. ~Touched(n)
      BY <1>1, <1>2, <2>1 DEF Touched
    <3>2. n # slot.name \/ ~slot.modified
      BY <1>1, <1>2, <2>1 DEF Touched
    <3> QED BY <2>1, <3>1, <3>2 DEF Untouched
  <2> QED BY <2>1 DEF Untouched
<1>6. Phased'
  BY DEF Phased
<1> QED BY <1>3, <1>4, <1>5, <1>6

\* pg_prop_cleanup() of the last slot.
LEMMA UndoStep ==
  ASSUME PropInv, NEW ok \in BOOLEAN, UndoSlot(ok)
  PROVE  PropInv'
<1> USE DEF PropInv, PropTypeOK
<1> DEFINE len == Len(slots)
           slot == slots[len]
<1>1. /\ phase = "exit" /\ phase' = "exit" /\ slots # <<>>
      /\ UNCHANGED <<original, skipped>>
      /\ prop' = (IF slot.modified /\ ok THEN [prop EXCEPT ![slot.name] = slot.val] ELSE prop)
      /\ refused' = (IF ~slot.modified THEN refused
                     ELSE IF ok THEN refused \ {slot.name} ELSE refused \cup {slot.name})
      /\ slots' = RemoveAt(slots, len)
  BY DEF UndoSlot, AtLast
<1>2. len \in Nat /\ len > 0 /\ slot \in Slot
  BY <1>1
<1>3. /\ slots' \in Seq(Slot) /\ Len(slots') = len - 1
      /\ \A i \in 1..(len - 1) : slots'[i] = slots[i]
  <2>1. /\ 1 \in Int /\ len - 1 \in Int /\ len + 1 \in Int /\ len < len + 1
        /\ (IF 1 <= len - 1 THEN len - 1 - 1 + 1 ELSE 0) = len - 1
        /\ \A i \in 1..(len - 1) : i \in 1..len /\ i \in 1..(len - 1 - 1 + 1) /\ 1 + i - 1 = i
    <3>1. len \in Nat /\ len > 0
      BY <1>2
    <3> HIDE DEF PropInv, PropTypeOK, len, slot
    <3> QED BY <3>1
  <2>2. \A i \in 1..(len - 1) : slots[i] \in Slot
    BY <2>1
  <2> DEFINE rest == SubSeq(slots, 1, len - 1)
  <2>3. /\ rest \in Seq(Slot)
        /\ Len(rest) = IF 1 <= len - 1 THEN len - 1 - 1 + 1 ELSE 0
        /\ \A i \in 1..(len - 1 - 1 + 1) : rest[i] = slots[1 + i - 1]
    <3> HIDE DEF PropInv, PropTypeOK, len
    <3> QED BY <2>1, <2>2, SubSeqProperties
  <2>4. SubSeq(slots, len + 1, len) = <<>>
    BY <1>2, <2>1, SubSeqEmpty
  <2>5. slots' = rest \o <<>>
    BY <1>1, <2>4 DEF RemoveAt
  <2> HIDE DEF slot, rest
  <2>6. slots' = rest
    BY <2>3, <2>5
  <2> HIDE DEF PropInv, PropTypeOK, len
  <2> QED BY <2>1, <2>3, <2>6
<1> HIDE DEF slot
<1>4. slot.name \in Names /\ slot.val \in Values
  BY <1>2 DEF Slot
<1>5. /\ prop' \in [Names -> Values] /\ refused' \subseteq Names
      /\ \A n \in Names \ {slot.name} : prop'[n] = prop[n] /\ (n \in refused' <=> n \in refused)
      /\ ~slot.modified => prop' = prop /\ refused' = refused
      /\ slot.modified /\ slot.name \notin refused' => prop'[slot.name] = slot.val
  BY <1>1, <1>4
<1>6. PropTypeOK'
  <2>1. Len(slots') <= MaxProps
    BY <1>2, <1>3, MaxPropsAssumption
  <2> QED BY <1>1, <1>3, <1>5, <2>1
<1>7. OldestIsOriginal'
  <2>1. ASSUME NEW i \in 1..Len(slots'), slots'[i].modified,
               \A j \in 1..(i - 1) : ~(slots'[j].modified /\ slots'[j].name = slots'[i].name)
        PROVE  slots'[i].val = original'[slots'[i].name]
    <3>1. i \in 1..len /\ slots'[i] = slots[i] /\ \A j \in 1..(i - 1) : slots'[j] = slots[j]
      BY <1>2, <1>3
    <3> QED BY <1>1, <2>1, <3>1 DEF OldestIsOriginal
  <2> QED BY <2>1 DEF OldestIsOriginal
<1>8. ASSUME NEW n \in Names \ refused', ~Touched(n)' PROVE prop'[n] = original[n]
  <2>1. \A i \in 1..(len - 1) : ~(slots[i].modified /\ slots[i].name = n)
    BY <1>2, <1>3, <1>8 DEF Touched
  <2>2. CASE n = slot.name /\ slot.modified
    <3>1. len \in 1..len
      BY <1>2
    <3>2. slot.val = original[n]
      BY <2>1, <2>2, <3>1 DEF OldestIsOriginal, slot
    <3> QED BY <1>5, <1>8, <2>2, <3>2
  <2>3. CASE ~(n = slot.name /\ slot.modified)
    <3>1. ~Touched(n)
      <4>1. \A i \in 1..len : i \in 1..(len - 1) \/ i = len
        BY <1>2
      <4> QED BY <2>1, <2>3, <4>1 DEF Touched, slot
    <3>2. prop'[n] = prop[n] /\ n \notin refused
      BY <1>5, <1>8, <2>3
    <3> QED BY <3>1, <3>2 DEF Untouched
  <2> QED BY <2>2, <2>3
<1>9. Untouched'
  BY <1>1, <1>8 DEF Untouched
<1>10. Phased'
  BY <1>1 DEF Phased
<1> QED BY <1>6, <1>7, <1>9, <1>10

\* Steps that leave the slots and the properties alone.
LEMMA SlotsKept ==
  ASSUME PropTypeOK, OldestIsOriginal, Untouched,
         UNCHANGED <<slots, prop, original, refused>>,
         phase' \in {"init", "run", "exit", "done"}, skipped' \in BOOLEAN
  PROVE  PropTypeOK' /\ OldestIsOriginal' /\ Untouched'
<1>1. PropTypeOK'
  BY DEF PropTypeOK
<1>2. OldestIsOriginal'
  BY DEF OldestIsOriginal
<1>3. Untouched'
  <2>1. ASSUME NEW n PROVE Touched(n)' <=> Touched(n)
    BY DEF Touched
  <2> QED BY <2>1 DEF Untouched
<1> QED BY <1>1, <1>2, <1>3

-----------------------------------------------------------------------------
(* The parser, one lemma for all its steps: they read nothing of the overrides. *)

ParserNext ==
  OpenFile \/ OpenFails \/ Char \/ Newline \/ EndOfFile \/ ReadFails \/ \E n \in 1..BufSz : Refill(n)

LEMMA ParserStep ==
  ASSUME ParserInv, ParserNext
  PROVE  ParserInv'
<1> USE SizesAssumption DEF ParserInv, ParserTypeOK, LinesWhole
<1>1. CASE OpenFile
  BY <1>1 DEF OpenFile
<1>2. CASE OpenFails \/ EndOfFile \/ ReadFails
  BY <1>2 DEF OpenFails, EndOfFile, ReadFails
<1>3. ASSUME NEW n \in 1..BufSz, Refill(n) PROVE ParserInv'
  BY <1>3 DEF Refill, LineKept
<1>4. CASE Char
  <2>1. file = "open" /\ file' = "open" /\ left' \in 0..BufSz
    BY <1>4 DEF Char
  <2>2. CASE ~skip /\ l_pos < LineSz - 1
    <3>1. typed = l_pos
      BY <2>1, <2>2
    <3>2. l_pos' = l_pos + 1 /\ typed' = l_pos + 1 /\ skip' = skip
      BY <1>4, <2>2, <3>1 DEF Char
    <3>3. l_pos' \in 0..(LineSz - 1) /\ typed' \in 0..LineSz /\ typed' < LineSz /\ typed' = l_pos'
      BY <2>2, <3>2
    <3>4. skip' \in BOOLEAN /\ ~skip'
      BY <2>2, <3>2
    <3> QED BY <2>1, <3>3, <3>4
  <2>3. CASE ~(~skip /\ l_pos < LineSz - 1)
    <3>1. typed >= LineSz - 1
      <4>1. CASE skip
        BY <2>1, <4>1
      <4>2. CASE ~skip
        BY <2>1, <2>3, <4>2
      <4> QED BY <4>1, <4>2
    <3>2. typed' = LineSz /\ l_pos' = l_pos
      BY <1>4, <2>3, <3>1 DEF Char
    <3>3. typed' \in 0..LineSz /\ ~(typed' < LineSz) /\ l_pos' \in 0..(LineSz - 1)
      BY <3>2
    <3>4. skip' = TRUE
      BY <1>4, <2>3 DEF Char
    <3> QED BY <2>1, <3>3, <3>4, Zenon
  <2> QED BY <2>2, <2>3
<1>5. CASE Newline
  <2>1. /\ file' = "open" /\ left' \in 0..BufSz
        /\ l_pos' \in 0..(LineSz - 1) /\ typed' \in 0..LineSz
        /\ typed' < LineSz /\ l_pos' = typed'
    BY <1>5 DEF Newline
  <2>2. skip' = FALSE
    BY <1>5 DEF Newline
  <2> QED BY <2>1, <2>2, Zenon
<1> QED BY <1>1, <1>2, <1>3, <1>4, <1>5 DEF ParserNext

LEMMA PropKept ==
  ASSUME PropInv, UNCHANGED <<phase, slots, prop, original, refused>>, skipped' \in BOOLEAN
  PROVE  PropInv'
<1>1. phase' \in {"init", "run", "exit", "done"}
  BY DEF PropInv, PropTypeOK
<1>2. PropTypeOK' /\ OldestIsOriginal' /\ Untouched'
  BY <1>1, SlotsKept DEF PropInv
<1>3. Phased'
  BY DEF PropInv, Phased
<1> QED BY <1>2, <1>3 DEF PropInv

\* One line given to the callback, whatever it says and whatever the service answers.
LEMMA CallbackStep ==
  ASSUME PropInv, Callback
  PROVE  PropInv'
<1>1. CASE LineIgnored \/ LineSkipped \/ \E n \in Names, v \in Values : LineRefused(n, v)
  <2>1. UNCHANGED <<phase, slots, prop, original, refused>> /\ skipped' \in BOOLEAN
    <3>1. CASE LineIgnored
      BY <3>1 DEF LineIgnored
    <3>2. CASE LineSkipped
      BY <3>2 DEF LineSkipped
    <3>3. ASSUME NEW n \in Names, NEW v \in Values, LineRefused(n, v)
          PROVE  UNCHANGED <<phase, slots, prop, original, refused>> /\ skipped' \in BOOLEAN
      BY <3>3 DEF LineRefused
    <3> QED BY <1>1, <3>1, <3>2, <3>3
  <2> QED BY <2>1, PropKept
<1>2. ASSUME NEW n \in Names, LineHolds(n) PROVE PropInv'
  <2> DEFINE slot == [name |-> n, val |-> prop[n], modified |-> FALSE]
  <2>1. slot \in Slot /\ ~slot.modified
    BY DEF Slot, PropInv, PropTypeOK
  <2>2. slots' = Append(slots, slot) /\ ~Full /\ phase = "init" /\ skipped' \in BOOLEAN
        /\ UNCHANGED <<phase, prop, original, refused>>
    BY <1>2 DEF LineHolds
  <2>3. Len(slots) < MaxProps
    BY <2>2, MaxPropsAssumption DEF Full, PropInv, PropTypeOK
  <2>4. prop' \in [Names -> Values] /\ \A m \in Names : prop'[m] = prop[m]
    BY <2>2 DEF PropInv, PropTypeOK
  <2> HIDE DEF slot
  <2> QED BY <2>1, <2>2, <2>3, <2>4, AppendStep
<1>3. ASSUME NEW n \in Names, NEW v \in Values, LineSets(n, v) PROVE PropInv'
  <2> DEFINE slot == [name |-> n, val |-> prop[n], modified |-> TRUE]
  <2>1. slot \in Slot /\ slot.modified /\ slot.val = prop[slot.name] /\ slot.name = n
    BY DEF Slot, PropInv, PropTypeOK
  <2>2. slots' = Append(slots, slot) /\ ~Full /\ phase = "init" /\ skipped' \in BOOLEAN
        /\ prop' = [prop EXCEPT ![n] = v] /\ UNCHANGED <<phase, original, refused>>
    BY <1>3 DEF LineSets, Captured
  <2>3. Len(slots) < MaxProps
    BY <2>2, MaxPropsAssumption DEF Full, PropInv, PropTypeOK
  <2>4. prop' \in [Names -> Values] /\ \A m \in Names : m # n => prop'[m] = prop[m]
    BY <2>2 DEF PropInv, PropTypeOK
  <2> HIDE DEF slot
  <2> QED BY <2>1, <2>2, <2>3, <2>4, AppendStep
<1> QED BY <1>1, <1>2, <1>3 DEF Callback

-----------------------------------------------------------------------------
(* The invariant of the composition *)

Inv == ParserInv /\ PropInv

LEMMA InitInv ==
  Init => Inv
<1> SUFFICES ASSUME Init PROVE Inv
  OBVIOUS
<1>1. ParserInv
  <2>1. /\ file = "closed" /\ left \in 0..BufSz /\ l_pos \in 0..(LineSz - 1)
        /\ typed \in 0..LineSz /\ l_pos = 0 /\ typed = 0
    BY SizesAssumption DEF Init, ParserInit
  <2>2. skip = FALSE
    BY DEF Init, ParserInit
  <2> QED BY <2>1, <2>2, Zenon DEF ParserInv, ParserTypeOK, LinesWhole
<1>2. slots = <<>> /\ slots \in Seq(Slot) /\ Len(slots) = 0
  BY DEF Init
<1>3. PropTypeOK
  <2>1. Len(slots) <= MaxProps
    BY <1>2, MaxPropsAssumption
  <2> QED BY <1>2, <2>1, Zenon DEF Init, PropTypeOK
<1>4. OldestIsOriginal /\ Untouched /\ Phased
  BY <1>2 DEF Init, OldestIsOriginal, Untouched, Phased
<1> QED BY <1>1, <1>3, <1>4 DEF Inv, PropInv

\* Steps of one side leave the other's variables alone.
LEMMA ParserFrame ==
  ASSUME ParserInv, UNCHANGED parserVars PROVE ParserInv'
BY DEF ParserInv, ParserTypeOK, LinesWhole, parserVars

LEMMA PropFrame ==
  ASSUME PropInv, UNCHANGED propVars PROVE PropInv'
<1>1. UNCHANGED <<phase, slots, prop, original, refused>> /\ skipped' = skipped
  BY DEF propVars
<1>2. skipped' \in BOOLEAN
  BY <1>1 DEF PropInv, PropTypeOK
<1> QED BY <1>1, <1>2, PropKept

LEMMA NextInv ==
  Inv /\ [Next]_vars => Inv'
<1> SUFFICES ASSUME Inv, [Next]_vars PROVE Inv'
  OBVIOUS
<1> USE DEF Inv
<1>1. CASE Parse
  <2>1. ParserInv'
    BY <1>1, ParserStep DEF Parse, ParserNext
  <2>2. PropInv'
    BY <1>1, CallbackStep, PropFrame DEF Parse
  <2> QED BY <2>1, <2>2
<1>2. CASE StartupEnds \/ ExitBegins \/ ExitEnds
  <2>1. ParserInv'
    BY <1>2, ParserFrame DEF StartupEnds, ExitBegins, ExitEnds
  <2>2. PropTypeOK' /\ OldestIsOriginal' /\ Untouched'
    <3>1. /\ UNCHANGED <<slots, prop, original, refused>>
          /\ phase' \in {"init", "run", "exit", "done"}
          /\ skipped' = skipped \/ skipped' = FALSE
      BY <1>2 DEF StartupEnds, ExitBegins, ExitEnds
    <3>2. skipped' \in BOOLEAN
      BY <3>1 DEF PropInv, PropTypeOK
    <3> QED BY <3>1, <3>2, SlotsKept DEF PropInv
  <2>3. Phased'
    BY <1>2 DEF StartupEnds, ExitBegins, ExitEnds, PropInv, Phased
  <2> QED BY <2>1, <2>2, <2>3 DEF PropInv
<1>3. ASSUME NEW ok \in BOOLEAN, UndoSlot(ok) PROVE Inv'
  <2>1. ParserInv'
    BY <1>3, ParserFrame DEF UndoSlot
  <2> QED BY <1>3, <2>1, UndoStep
<1>4. CASE UNCHANGED vars
  BY <1>4, ParserFrame, PropFrame DEF vars
<1> QED BY <1>1, <1>2, <1>3, <1>4 DEF Next

LEMMA SpecInv ==
  Spec => []Inv
BY InitInv, NextInv, PTL DEF Spec

-----------------------------------------------------------------------------
\* The variables of the parser and of the overrides stay in their types: the line
\* never outgrows its buffer (conf.c:137-142) and props[] never its 64 slots.
THEOREM TypeCorrect ==
  Spec => []TypeOK
<1>1. Inv => TypeOK
  BY DEF Inv, ParserInv, PropInv, PropTypeOK, TypeOK
<1> QED BY <1>1, SpecInv, PTL

\* A line is handed over whole or not at all, wherever the blocks end (conf.c:109-145).
THEOREM LinesWholeHolds ==
  Spec => []LinesWhole
<1>1. Inv => LinesWhole
  BY DEF Inv, ParserInv
<1> QED BY <1>1, SpecInv, PTL

\* The oldest modified slot of a property holds its value from before the daemon
\* (prop.c:26-70).
THEOREM OldestIsOriginalHolds ==
  Spec => []OldestIsOriginal
<1>1. Inv => OldestIsOriginal
  BY DEF Inv, PropInv
<1> QED BY <1>1, SpecInv, PTL

\* After pg_opt_exit() every property whose last reset was accepted is back at that
\* value (opt.c, prop.c).
THEOREM OverridesUndoneHolds ==
  Spec => []OverridesUndone
<1>1. Inv => OverridesUndone
  <2> SUFFICES ASSUME Inv, phase = "done", NEW n \in Names \ refused PROVE prop[n] = original[n]
    BY DEF OverridesUndone
  <2>1. ~Touched(n)
    BY DEF Inv, PropInv, Phased, Touched
  <2> QED BY <2>1 DEF Inv, PropInv, Untouched
<1> QED BY <1>1, SpecInv, PTL
=============================================================================
