------------------------------ MODULE SweepProofs ------------------------------
(***************************************************************************)
(* The sweep gives way in time: for any tree, any interval between probes  *)
(* and any failures, at most Every entries are examined after the display  *)
(* is lit or the load rises.  Its lists are of the tree, the depth of the  *)
(* walk bounded, which TypeOK says.  And a sweep that runs to its end has  *)
(* left nothing it set out to delete: what is due is always within what    *)
(* remains to be opened, listed or unlinked.                               *)
(***************************************************************************)
EXTENDS Sweep, SequenceTheorems, TLAPS

\* late lags behind the entry counter as long as the sweep goes on: the probe
\* comes before late can reach Every.  Once preempted, the sweep is in no
\* directory and in no listing, so that it checks nothing any more.
CountTyped == nr \in 0..(Every - 1) /\ late \in Nat /\ intr \in BOOLEAN
LateBound == IF intr THEN late <= Every ELSE late <= nr
Withdrawn == intr /\ running => stack = <<>> /\ app = None
PreemptInv == CountTyped /\ LateBound /\ Withdrawn


\* A check keeps the bound, whichever of its reads fail: a probe that could
\* read what is lit or busy preempts the sweep (sweep_chk_intr, sweep.c:53-69).
LEMMA CheckKeepsBound ==
  ASSUME CountTyped, LateBound, ~intr, ChkIntr
  PROVE  CountTyped' /\ LateBound'
<1>1. Every \in Nat \ {0} /\ Readable \subseteq BOOLEAN
  BY BoundAssumption DEF Readable
<1>2. PICK bl \in BOOLEAN, psi \in BOOLEAN :
        /\ intr' = (intr \/ (Probing /\ Spotted(bl, psi)))
        /\ late' = IF (lit \/ busy) /\ ~(Probing /\ ((lit /\ ~bl) \/ (busy /\ ~psi)))
                   THEN (IF late <= Every THEN late + 1 ELSE late) ELSE 0
  BY <1>1 DEF ChkIntr
<1>3. nr' = (nr + 1) % Every
  BY DEF ChkIntr
<1>4. CASE Probing
  <2>1. nr' = 0 /\ nr + 1 = Every
    BY <1>1, <1>3, <1>4 DEF Probing, CountTyped
  <2>2. CASE late' = 0
    BY <2>1, <2>2, <1>1, <1>2 DEF CountTyped, LateBound
  <2>3. CASE late' # 0
    <3>1. Spotted(bl, psi) /\ intr'
      BY <2>3, <1>2, <1>4 DEF Spotted
    <3>2. late' <= Every /\ late' \in Nat
      BY <2>1, <1>2, <1>1 DEF CountTyped, LateBound
    <3> QED BY <3>1, <3>2, <2>1, <1>1, <1>2 DEF CountTyped, LateBound
  <2> QED BY <2>2, <2>3
<1>5. CASE ~Probing
  <2>1. nr' = nr + 1 /\ nr' \in 0..(Every - 1)
    BY <1>1, <1>3, <1>5 DEF Probing, CountTyped
  <2>2. intr' = FALSE
    BY <1>2, <1>5
  <2>3. late' \in Nat /\ late' <= nr'
    BY <2>1, <1>2, <1>1 DEF CountTyped, LateBound
  <2> QED BY <2>1, <2>2, <2>3 DEF CountTyped, LateBound
<1> QED BY <1>4, <1>5

LEMMA PreemptInit == Init => PreemptInv
<1> SUFFICES ASSUME Init PROVE PreemptInv
  OBVIOUS
<1>1. nr = 0 /\ late = 0 /\ intr = FALSE
  BY DEF Init
<1>2. CountTyped
  <2>1. Every \in Nat \ {0}
    BY BoundAssumption
  <2>2. nr \in 0..(Every - 1) /\ late \in Nat
    BY <2>1, <1>1
  <2>3. intr \in BOOLEAN
    BY <1>1
  <2> QED BY <2>2, <2>3 DEF CountTyped
<1>3. LateBound /\ Withdrawn
  BY <1>1 DEF LateBound, Withdrawn
<1> QED BY <1>2, <1>3 DEF PreemptInv

LEMMA PreemptStep == PreemptInv /\ [Next]_vars => PreemptInv'
<1> SUFFICES ASSUME PreemptInv, [Next]_vars PROVE PreemptInv'
  OBVIOUS
<1>0. CountTyped /\ LateBound /\ Withdrawn /\ Every \in Nat \ {0}
  BY BoundAssumption DEF PreemptInv
<1> USE DEF PreemptInv
<1>1. CASE Start
  <2>1. nr' \in {0, Every - 1} /\ late' = 0 /\ intr' \in BOOLEAN /\ (intr' => ~running')
    BY <1>1 DEF Start
  <2>2. nr' \in 0..(Every - 1)
    BY <2>1, <1>0
  <2> QED BY <2>1, <2>2, <1>0 DEF CountTyped, LateBound, Withdrawn
<1>2. CASE OpenAppRoot \/ OpenThumbs
  BY <1>0, <1>2 DEF OpenAppRoot, OpenThumbs, CountTyped, LateBound, Withdrawn
<1>3. CASE OpenRootFails
  BY <1>0, <1>3 DEF OpenRootFails, CountTyped, LateBound, Withdrawn
<1>4. CASE Finish
  BY <1>0, <1>4 DEF Finish, Choosing, CountTyped, LateBound, Withdrawn
<1>5. CASE Package
  <2>1. ~intr /\ ChkIntr
    BY <1>0, <1>5 DEF Package, Listing, Withdrawn
  <2>2. CountTyped' /\ LateBound'
    BY <2>1, <1>0, CheckKeepsBound
  <2>3. intr' => stack' = <<>> /\ app' = None
    BY <1>5 DEF Package, Listing
  <2> QED BY <2>2, <2>3 DEF Withdrawn
<1>6. CASE AppRootEnds
  BY <1>0, <1>6 DEF AppRootEnds, Listing, CountTyped, LateBound, Withdrawn
<1>7. CASE PassOver
  BY <1>0, <1>7 DEF PassOver, Walking, CountTyped, LateBound, Withdrawn
<1>8. CASE VisitStops
  <2>1. ~intr /\ ChkIntr
    BY <1>0, <1>8 DEF VisitStops, Walking, Withdrawn
  <2>2. CountTyped' /\ LateBound'
    BY <2>1, <1>0, CheckKeepsBound
  <2>3. stack' = <<>> /\ app' = None
    BY <1>8 DEF VisitStops, Stopped
  <2> QED BY <2>2, <2>3 DEF Withdrawn
<1>9. CASE VisitDir \/ VisitFile
  <2>1. ~intr /\ ChkIntr /\ ~intr'
    BY <1>0, <1>9 DEF VisitDir, VisitFile, Walking, Withdrawn
  <2>2. CountTyped' /\ LateBound'
    BY <2>1, <1>0, CheckKeepsBound
  <2> QED BY <2>1, <2>2 DEF Withdrawn
<1>10. CASE Unlink
  BY <1>0, <1>10 DEF Unlink, CountTyped, LateBound, Withdrawn
<1>11. CASE LeaveDir \/ ReadFails
  BY <1>0, <1>11 DEF LeaveDir, ReadFails, Walking, CountTyped, LateBound, Withdrawn
<1>12. CASE Surroundings
  BY <1>0, <1>12 DEF Surroundings, CountTyped, LateBound, Withdrawn
<1>13. CASE AppWrites \/ Ages
  BY <1>0, <1>13 DEF AppWrites, Ages, CountTyped, LateBound, Withdrawn
<1>14. CASE UNCHANGED vars
  BY <1>0, <1>14 DEF vars, CountTyped, LateBound, Withdrawn
<1> QED
  BY <1>1, <1>2, <1>3, <1>4, <1>5, <1>6, <1>7, <1>8, <1>9, <1>10, <1>11, <1>12, <1>13, <1>14
  DEF Next, Sweeper

\* Once the display is lit or the load is up, and can be read, the sweep examines
\* at most Every more entries, for every tree and interval (sweep.c:48-72).
THEOREM PreemptsInTimeHolds == Spec => []PreemptsInTime
<1>1. PreemptInv => PreemptsInTime
  BY BoundAssumption DEF PreemptInv, CountTyped, LateBound, PreemptsInTime
<1> QED BY <1>1, PreemptInit, PreemptStep, PTL DEF Spec

-----------------------------------------------------------------------------
(* The lists the sweep works through are of the tree, and the walk is never *)
(* deeper than the one directory past MaxDepth that walk() opens and leaves *)

Frame == [dir : Dirs, left : Seq(Entries)]

MarksOK ==
  /\ running \in BOOLEAN /\ lit \in BOOLEAN /\ busy \in BOOLEAN
  /\ app \in Range(AppRoots) \cup {None}
  /\ victim \in Files \cup {None} /\ due \in SUBSET Files
  /\ clamp \in {"PG_UCLAMP_MAX", "UCLAMP_UNRESTRICTED"}
  /\ age \in [Files -> {"fresh", "stale", "gone"}]

ListsOK ==
  /\ roots \in Seq(Dirs) /\ packages \in Seq(Entries)
  /\ stack \in Seq(Frame) /\ Len(stack) <= MaxDepth + 1

LEMMA TreeTyped ==
  /\ \A d \in Dirs : Contents[d] \in Seq(Entries)
  /\ \A p \in DOMAIN Cache : Cache[p] \in Dirs
  /\ Range(AppRoots) \subseteq Dirs /\ AppRoots \o Thumbs \in Seq(Dirs)
<1>1. AppRoots \o Thumbs \in Seq(Dirs)
  BY TreeAssumption, ConcatProperties
<1>2. Range(AppRoots) \subseteq Dirs
  BY TreeAssumption, RangeOfSeq
<1> QED BY <1>1, <1>2, TreeAssumption

\* a directory that walk() has just opened
LEMMA Opened ==
  ASSUME NEW d \in Dirs
  PROVE  /\ [dir |-> d, left |-> Contents[d]] \in Frame
         /\ <<[dir |-> d, left |-> Contents[d]]>> \in Seq(Frame)
         /\ Len(<<[dir |-> d, left |-> Contents[d]]>>) = 1
<1>1. [dir |-> d, left |-> Contents[d]] \in Frame
  BY TreeTyped DEF Frame
<1> QED BY <1>1

LEMMA PassedTyped ==
  ASSUME stack \in Seq(Frame), stack # <<>>, Top.left # <<>>
  PROVE  /\ Passed \in Seq(Frame) /\ Len(Passed) = Len(stack)
         /\ Entry \in Entries
<1>1. Len(stack) \in 1..Len(stack)
  BY EmptySeq
<1>2. Top \in Frame
  BY <1>1, ElementOfSeq DEF Top, Last
<1>3. Top.left \in Seq(Entries) /\ Top.dir \in Dirs
  BY <1>2 DEF Frame
<1>4. Tail(Top.left) \in Seq(Entries) /\ Entry \in Entries
  BY <1>3, HeadTailProperties DEF Entry
<1>5. [Top EXCEPT !.left = Tail(@)] \in Frame
  BY <1>2, <1>4 DEF Frame
<1>6. Passed = [stack EXCEPT ![Len(stack)] = [Top EXCEPT !.left = Tail(@)]]
  BY DEF Passed, Top, Last
<1> QED BY <1>1, <1>4, <1>5, <1>6, ExceptSeq

LEMMA FrontTyped ==
  ASSUME stack \in Seq(Frame), stack # <<>>
  PROVE  Front(stack) \in Seq(Frame) /\ Len(Front(stack)) = Len(stack) - 1
<1>1. Len(stack) \in Nat \ {0}
  BY EmptySeq
<1>2. \A i \in 1..(Len(stack) - 1) : stack[i] \in Frame
  BY <1>1, ElementOfSeq
<1> DEFINE last == Len(stack) - 1
<1>3. last \in Nat /\ (1 <= last => last - 1 + 1 = last) /\ (~(1 <= last) => last = 0)
  BY <1>1
<1>4. \A i \in 1..last : stack[i] \in Frame
  BY <1>2
<1>5. Front(stack) = SubSeq(stack, 1, last)
  BY DEF Front
<1> HIDE DEF last
<1>6. /\ SubSeq(stack, 1, last) \in Seq(Frame)
      /\ Len(SubSeq(stack, 1, last)) = IF 1 <= last THEN last - 1 + 1 ELSE 0
  BY <1>3, <1>4, SubSeqProperties
<1>7. Len(SubSeq(stack, 1, last)) = last
  BY <1>3, <1>6
<1> QED BY <1>5, <1>6, <1>7 DEF last

LEMMA ListsStep ==
  ASSUME MarksOK, ListsOK, [Next]_vars
  PROVE  ListsOK'
<1>0. MaxDepth \in Nat /\ <<>> \in Seq(Dirs) /\ <<>> \in Seq(Entries)
      /\ <<>> \in Seq(Frame) /\ Len(<<>>) = 0
  BY BoundAssumption
<1>a. roots \in Seq(Dirs) /\ packages \in Seq(Entries)
      /\ stack \in Seq(Frame) /\ Len(stack) <= MaxDepth + 1
  BY DEF ListsOK
<1>1. CASE Start
  <2>1. roots' \in Seq(Dirs)
    BY <1>1, <1>a, TreeTyped DEF Start
  <2>2. packages' = packages /\ stack' = stack
    BY <1>1 DEF Start
  <2> QED BY <2>1, <2>2, <1>a DEF ListsOK
<1>2. CASE OpenAppRoot
  <2>1. roots' \in Seq(Dirs) /\ packages' \in Seq(Entries)
    <3>1. roots # <<>> /\ roots' = Tail(roots) /\ packages' = Contents[Head(roots)]
      BY <1>2 DEF OpenAppRoot
    <3> QED BY <3>1, <1>a, HeadTailProperties, TreeTyped
  <2>2. stack' = stack
    BY <1>2 DEF OpenAppRoot
  <2> QED BY <2>1, <2>2, <1>a DEF ListsOK
<1>3. CASE OpenThumbs
  <2>1. roots # <<>> /\ roots' = Tail(roots) /\ packages' = packages
        /\ stack' = <<[dir |-> Head(roots), left |-> Contents[Head(roots)]]>>
    BY <1>3 DEF OpenThumbs
  <2>2. Head(roots) \in Dirs /\ roots' \in Seq(Dirs)
    BY <2>1, <1>a, HeadTailProperties
  <2>3. stack' \in Seq(Frame) /\ Len(stack') = 1
    BY <2>1, <2>2, Opened
  <2> QED BY <2>1, <2>2, <2>3, <1>0, <1>a DEF ListsOK
<1>4. CASE OpenRootFails
  <2>1. roots # <<>> /\ roots' = Tail(roots) /\ packages' = packages /\ stack' = stack
    BY <1>4 DEF OpenRootFails
  <2> QED BY <2>1, <1>a, HeadTailProperties DEF ListsOK
<1>5. CASE Finish
  BY <1>5, <1>0, <1>a DEF Finish, ListsOK
<1>6. CASE Package
  <2>1. roots' = roots /\ packages # <<>>
    BY <1>6 DEF Package
  <2>2. Tail(packages) \in Seq(Entries)
    BY <2>1, <1>a, HeadTailProperties
  <2>3. packages' \in {<<>>, Tail(packages)}
    BY <1>6 DEF Package
  <2>4. \/ stack' = stack
        \/ \E d \in Dirs : stack' = <<[dir |-> d, left |-> Contents[d]]>>
    BY <1>6, TreeTyped DEF Package
  <2>5. stack' \in Seq(Frame) /\ Len(stack') <= MaxDepth + 1
    <3>1. CASE stack' = stack
      BY <3>1, <1>a
    <3>2. CASE stack' # stack
      <4>1. PICK d \in Dirs : stack' = <<[dir |-> d, left |-> Contents[d]]>>
        BY <2>4, <3>2
      <4>2. stack' \in Seq(Frame) /\ Len(stack') = 1
        BY <4>1, Opened
      <4> QED BY <4>2, <1>0
    <3> QED BY <3>1, <3>2
  <2> QED BY <2>1, <2>2, <2>3, <2>5, <1>0, <1>a DEF ListsOK
<1>7. CASE AppRootEnds
  BY <1>7, <1>0, <1>a DEF AppRootEnds, ListsOK
<1>8. CASE PassOver
  <2>1. stack # <<>> /\ Top.left # <<>> /\ stack' = Passed /\ roots' = roots /\ packages' = packages
    BY <1>8 DEF PassOver, Walking
  <2> QED BY <2>1, <1>a, PassedTyped DEF ListsOK
<1>9. CASE VisitStops
  <2>1. stack' = <<>> /\ roots' = roots /\ packages' \in {<<>>, packages}
    BY <1>9 DEF VisitStops, Stopped
  <2>2. packages' \in Seq(Entries)
    BY <2>1, <1>0, <1>a
  <2>3. stack' \in Seq(Frame) /\ Len(stack') <= MaxDepth + 1
    BY <2>1, <1>0
  <2> QED BY <2>1, <2>2, <2>3, <1>a DEF ListsOK
<1>10. CASE VisitDir
  <2>1. stack # <<>> /\ Top.left # <<>> /\ Entry \in Dirs /\ roots' = roots /\ packages' = packages
    BY <1>10 DEF VisitDir, Walking
  <2>2. Passed \in Seq(Frame) /\ Len(Passed) = Len(stack)
    BY <2>1, <1>a, PassedTyped
  <2>3. CASE stack' = Passed
    BY <2>1, <2>2, <2>3, <1>a DEF ListsOK
  <2>4. CASE stack' # Passed
    <3>1. ~TooDeep(Len(stack)) /\ stack' = Append(Passed, [dir |-> Entry, left |-> Contents[Entry]])
      BY <1>10, <2>4 DEF VisitDir
    <3>2. stack' \in Seq(Frame) /\ Len(stack') = Len(stack) + 1
      BY <3>1, <2>1, <2>2, Opened, AppendProperties
    <3>3. Len(stack) \in Nat /\ Len(stack) <= MaxDepth
      BY <3>1, <1>0, <1>a, LenProperties DEF TooDeep
    <3> QED BY <2>1, <3>2, <3>3, <1>0, <1>a DEF ListsOK
  <2> QED BY <2>3, <2>4
<1>11. CASE VisitFile
  <2>1. stack # <<>> /\ Top.left # <<>> /\ stack' = Passed /\ roots' = roots /\ packages' = packages
    BY <1>11 DEF VisitFile, Walking
  <2> QED BY <2>1, <1>a, PassedTyped DEF ListsOK
<1>12. CASE LeaveDir
  <2>1. stack # <<>> /\ stack' = Front(stack) /\ roots' = roots /\ packages' = packages
    BY <1>12 DEF LeaveDir, Walking
  <2>2. Len(stack) \in Nat
    BY <1>a, LenProperties
  <2> QED BY <2>1, <2>2, <1>0, <1>a, FrontTyped DEF ListsOK
<1>13. CASE ReadFails
  BY <1>13, <1>0, <1>a DEF ReadFails, ListsOK
<1>14. CASE Unlink \/ Surroundings \/ AppWrites \/ Ages \/ UNCHANGED vars
  <2>1. roots' = roots /\ packages' = packages /\ stack' = stack
    BY <1>14 DEF Unlink, Surroundings, AppWrites, Ages, vars
  <2> QED BY <2>1, <1>a DEF ListsOK
<1> QED
  BY <1>1, <1>2, <1>3, <1>4, <1>5, <1>6, <1>7, <1>8, <1>9, <1>10, <1>11, <1>12, <1>13, <1>14
  DEF Next, Sweeper

LEMMA MarksStep ==
  ASSUME MarksOK, ListsOK, [Next]_vars
  PROVE  MarksOK'
<1>0. \A d : Below(d) \in SUBSET Files /\ UnderRoot(d) \in SUBSET Files /\ Held(d) \in SUBSET Files
  BY DEF Below, Under, UnderRoot, Held
<1>1. running' \in BOOLEAN
  BY DEF MarksOK, Next, Sweeper, Start, OpenAppRoot, OpenThumbs, OpenRootFails, Finish, Package,
     AppRootEnds, PassOver, VisitStops, VisitDir, VisitFile, Unlink, LeaveDir, ReadFails,
     Surroundings, AppWrites, Ages, vars
<1>2. lit' \in BOOLEAN /\ busy' \in BOOLEAN
  BY DEF MarksOK, Next, Sweeper, Start, OpenAppRoot, OpenThumbs, OpenRootFails, Finish, Package,
     AppRootEnds, PassOver, VisitStops, VisitDir, VisitFile, Unlink, LeaveDir, ReadFails,
     Surroundings, Display, Load, AppWrites, Ages, world, vars
<1>3. app' \in Range(AppRoots) \cup {None}
  BY DEF MarksOK, Next, Sweeper, Start, OpenAppRoot, OpenThumbs, OpenRootFails, Finish, Package,
     AppRootEnds, PassOver, VisitStops, Stopped, VisitDir, VisitFile, Unlink, LeaveDir, ReadFails,
     Surroundings, AppWrites, Ages, vars
<1>4. victim' \in Files \cup {None}
  BY DEF MarksOK, Next, Sweeper, Start, OpenAppRoot, OpenThumbs, OpenRootFails, Finish, Package,
     AppRootEnds, PassOver, VisitStops, VisitDir, VisitFile, Unlink, LeaveDir, ReadFails,
     Surroundings, AppWrites, Ages, vars
<1>5. due' \in SUBSET Files
  BY <1>0 DEF MarksOK, Next, Sweeper, Start, OpenAppRoot, OpenThumbs, OpenRootFails, Finish, Package,
     AppRootEnds, PassOver, VisitStops, VisitDir, VisitFile, Unlink, LeaveDir, ReadFails,
     Surroundings, AppWrites, Ages, vars
<1>6. clamp' \in {"PG_UCLAMP_MAX", "UCLAMP_UNRESTRICTED"}
  BY DEF MarksOK, Next, Sweeper, Start, OpenAppRoot, OpenThumbs, OpenRootFails, Finish, Restored, Package,
     AppRootEnds, PassOver, VisitStops, VisitDir, VisitFile, Unlink, LeaveDir, ReadFails,
     Surroundings, AppWrites, Ages, vars
<1>7. age' \in [Files -> {"fresh", "stale", "gone"}]
  BY DEF MarksOK, Next, Sweeper, Start, OpenAppRoot, OpenThumbs, OpenRootFails, Finish, Package,
     AppRootEnds, PassOver, VisitStops, VisitDir, VisitFile, Unlink, LeaveDir, ReadFails,
     Surroundings, AppWrites, Ages, world, vars
<1> QED BY <1>1, <1>2, <1>3, <1>4, <1>5, <1>6, <1>7 DEF MarksOK

\* Every list the sweep works through is of the tree, and walk() never nests
\* more than MaxDepth directories below the one it began at, with one more it
\* opens and leaves at once, whatever the tree (fs.c:73).
THEOREM TypeCorrect == Spec => []TypeOK
<1>1. Init => MarksOK /\ ListsOK
  <2>1. Init => MarksOK
    BY DEF Init, MarksOK
  <2>2. Init => ListsOK
    BY BoundAssumption DEF Init, ListsOK
  <2> QED BY <2>1, <2>2
<1>2. MarksOK /\ ListsOK /\ [Next]_vars => (MarksOK /\ ListsOK)'
  BY MarksStep, ListsStep
<1>3. MarksOK /\ ListsOK /\ PreemptInv => TypeOK
  BY BoundAssumption DEF MarksOK, ListsOK, PreemptInv, CountTyped, LateBound, TypeOK, Frame
<1> QED BY <1>1, <1>2, <1>3, PreemptInit, PreemptStep, PTL DEF Spec

-----------------------------------------------------------------------------
(* A sweep that runs to its end has seen every file it set out to see.     *)
(* Nothing that is due is ever out of reach of what is left to do.         *)

LEMMA ReachHere ==
  ASSUME NEW d \in Dirs, NEW n \in Nat
  PROVE  d \in Reach(d, n)
<1> DEFINE way == [i \in 0..0 |-> d]
<1>1. way \in Ways(d, 0) /\ way[0] = d
  BY DEF Ways
<1> QED BY <1>1 DEF Reach

\* A way down begins with a step into a directory that is listed ...
LEMMA ReachStep ==
  ASSUME NEW d \in Dirs, NEW n \in Nat, NEW e \in Reach(d, n), e # d
  PROVE  \E c \in Range(Contents[d]) \cap Dirs : e \in Reach(c, n - 1)
<1>0. PICK m \in 0..n : \E way \in Ways(d, m) : e = way[m]
  BY DEF Reach
<1>1. PICK way \in Ways(d, m) : e = way[m]
  BY <1>0
<1>2. /\ way \in [0..m -> Dirs] /\ way[0] = d
      /\ \A i \in 1..m : way[i] \in Range(Contents[way[i - 1]])
  BY DEF Ways
<1>3. m \in Nat /\ m # 0 /\ m - 1 \in 0..(n - 1)
  BY <1>1, <1>2
<1> DEFINE k == m - 1
           rest == [i \in 0..k |-> way[i + 1]]
<1>4. k \in Nat /\ k + 1 = m /\ k \in 0..(n - 1) /\ 1 \in 1..m /\ 1 \in 0..m /\ 0 \in 0..k
  BY <1>3
<1> HIDE DEF k
<1>5. way[1] \in Dirs /\ way[1] \in Range(Contents[d])
  <2>1. way[1] \in Range(Contents[way[1 - 1]])
    BY <1>2, <1>4
  <2>2. 1 - 1 = 0
    OBVIOUS
  <2> QED BY <1>2, <1>4, <2>1, <2>2
<1>6. rest \in Ways(way[1], k)
  <2>1. rest \in [0..k -> Dirs]
    <3>1. \A i \in 0..k : i + 1 \in 0..m
      BY <1>4
    <3> QED BY <1>2, <3>1
  <2>2. rest[0] = way[1]
    BY <1>4
  <2>3. ASSUME NEW i \in 1..k PROVE rest[i] \in Range(Contents[rest[i - 1]])
    <3>1. i + 1 \in 1..m /\ (i + 1) - 1 = i /\ (i - 1) + 1 = i /\ i \in 0..k /\ i - 1 \in 0..k
      BY <1>4
    <3>2. way[i + 1] \in Range(Contents[way[i]])
      BY <1>2, <3>1
    <3> QED BY <3>1, <3>2
  <2> QED BY <2>1, <2>2, <2>3 DEF Ways
<1>7. rest[k] = e
  BY <1>1, <1>4
<1>8. e \in Reach(way[1], n - 1)
  BY <1>4, <1>6, <1>7 DEF Reach
<1> QED BY <1>5, <1>8

\* ... and every such step begins one.
LEMMA ReachFrom ==
  ASSUME NEW d \in Dirs, NEW n \in Nat, NEW c \in Range(Contents[d]) \cap Dirs,
         NEW e \in Reach(c, n - 1)
  PROVE  e \in Reach(d, n)
<1>0. PICK m \in 0..(n - 1) : \E way \in Ways(c, m) : e = way[m]
  BY DEF Reach
<1>1. PICK way \in Ways(c, m) : e = way[m]
  BY <1>0
<1>2. /\ way \in [0..m -> Dirs] /\ way[0] = c
      /\ \A i \in 1..m : way[i] \in Range(Contents[way[i - 1]])
  BY DEF Ways
<1> DEFINE k == m + 1
           whole == [i \in 0..k |-> IF i = 0 THEN d ELSE way[i - 1]]
<1>3. /\ k \in 0..n /\ k \in 0..k /\ 0 \in 0..k /\ k # 0 /\ k - 1 = m
      /\ \A i \in 1..k : i - 1 \in 0..m /\ i \in 0..k /\ i # 0
      /\ \A i \in 0..k : i = 0 \/ i - 1 \in 0..m
  BY <1>1
<1> HIDE DEF k
<1>4. whole \in [0..k -> Dirs]
  BY <1>2, <1>3
<1>5. ASSUME NEW i \in 1..k PROVE whole[i] \in Range(Contents[whole[i - 1]])
  <2>1. CASE i = 1
    <3>1. i \in 0..k /\ i - 1 = 0
      BY <1>3, <2>1
    <3>2. whole[i] = way[0] /\ whole[i - 1] = d
      BY <1>3, <2>1, <3>1
    <3> QED BY <1>2, <3>2
  <2>2. CASE i # 1
    <3>1. i - 1 \in 1..m /\ i - 1 \in 1..k /\ i - 1 \in 0..k /\ i - 1 # 0 /\ i \in 0..k /\ i # 0
      BY <1>1, <1>3, <2>2
    <3>2. whole[i] = way[i - 1] /\ whole[i - 1] = way[(i - 1) - 1]
      BY <3>1
    <3> QED BY <1>2, <3>1, <3>2
  <2> QED BY <2>1, <2>2
<1>6. whole \in Ways(d, k) /\ whole[k] = e
  BY <1>1, <1>3, <1>4, <1>5 DEF Ways
<1> QED BY <1>3, <1>6 DEF Reach

LEMMA ReachDeeper ==
  ASSUME NEW d, NEW n \in Int, NEW k \in Int, n <= k
  PROVE  Under(d, n) \subseteq Under(d, k)
<1>1. 0..n \subseteq 0..k
  OBVIOUS
<1>2. Reach(d, n) \subseteq Reach(d, k)
  BY <1>1 DEF Reach
<1> QED BY <1>2 DEF Under

\* What the rest of a listing leads to: its files, and what is at most n steps below
\* its directories.
Rest(list, n) ==
  (Files \cap Range(list)) \cup UNION {Under(c, n) : c \in Range(list) \cap Dirs}

\* Opening a directory shows all that is below it.
LEMMA OpenShows ==
  ASSUME NEW d \in Dirs, NEW n \in Nat
  PROVE  Under(d, n) = Rest(Contents[d], n - 1)
<1>1. ASSUME NEW f \in Under(d, n) PROVE f \in Rest(Contents[d], n - 1)
  <2>1. PICK e \in Reach(d, n) : f \in Files /\ f \in Range(Contents[e])
    BY DEF Under
  <2>2. CASE e = d
    BY <2>1, <2>2 DEF Rest
  <2>3. CASE e # d
    <3>1. PICK c \in Range(Contents[d]) \cap Dirs : e \in Reach(c, n - 1)
      BY <2>3, ReachStep
    <3>2. f \in Under(c, n - 1)
      BY <2>1, <3>1 DEF Under
    <3> QED BY <3>2 DEF Rest
  <2> QED BY <2>2, <2>3
<1>2. ASSUME NEW f \in Rest(Contents[d], n - 1) PROVE f \in Under(d, n)
  <2>1. CASE f \in Files \cap Range(Contents[d])
    BY <2>1, ReachHere DEF Under
  <2>2. CASE \E c \in Range(Contents[d]) \cap Dirs : f \in Under(c, n - 1)
    <3>1. PICK c \in Range(Contents[d]) \cap Dirs : f \in Under(c, n - 1)
      BY <2>2
    <3>2. PICK e \in Reach(c, n - 1) : f \in Files /\ f \in Range(Contents[e])
      BY <3>1 DEF Under
    <3>3. e \in Reach(d, n)
      BY ReachFrom
    <3> QED BY <3>2, <3>3 DEF Under
  <2> QED BY <2>1, <2>2 DEF Rest
<1> QED BY <1>1, <1>2

LEMMA HeadTail ==
  ASSUME NEW S, NEW list \in Seq(S), list # <<>>
  PROVE  Range(list) = {Head(list)} \cup Range(Tail(list))
<1>1. Len(list) \in Nat \ {0} /\ DOMAIN list = 1..Len(list)
  BY EmptySeq, LenProperties
<1>2. /\ Len(Tail(list)) = Len(list) - 1 /\ DOMAIN Tail(list) = 1..(Len(list) - 1)
      /\ \A i \in 1..(Len(list) - 1) : Tail(list)[i] = list[i + 1]
      /\ Head(list) = list[1]
  BY <1>1, HeadTailProperties
<1>3. ASSUME NEW x \in Range(list) PROVE x \in {Head(list)} \cup Range(Tail(list))
  <2>1. PICK i \in 1..Len(list) : x = list[i]
    BY <1>1 DEF Range
  <2>2. CASE i = 1
    BY <2>1, <2>2, <1>2
  <2>3. CASE i # 1
    <3>1. i - 1 \in 1..(Len(list) - 1) /\ (i - 1) + 1 = i
      BY <2>3, <1>1
    <3>2. x = Tail(list)[i - 1]
      BY <3>1, <2>1, <1>2
    <3> QED BY <3>1, <3>2, <1>2 DEF Range
  <2> QED BY <2>2, <2>3
<1>4. ASSUME NEW x \in {Head(list)} \cup Range(Tail(list)) PROVE x \in Range(list)
  <2>1. CASE x = Head(list)
    BY <2>1, <1>1, <1>2 DEF Range
  <2>2. CASE x \in Range(Tail(list))
    <3>1. PICK i \in 1..(Len(list) - 1) : x = Tail(list)[i]
      BY <2>2, <1>2 DEF Range
    <3>2. i + 1 \in 1..Len(list) /\ x = list[i + 1]
      BY <3>1, <1>1, <1>2
    <3> QED BY <3>2, <1>1 DEF Range
  <2> QED BY <1>4, <2>1, <2>2
<1> QED BY <1>3, <1>4

LEMMA RestOfTail ==
  ASSUME NEW list \in Seq(Entries), list # <<>>, NEW n
  PROVE  /\ Rest(Tail(list), n) \subseteq Rest(list, n)
         /\ Head(list) \in Dirs => Under(Head(list), n) \subseteq Rest(list, n)
         /\ \A f \in Rest(list, n) :
              \/ f \in Rest(Tail(list), n)
              \/ f = Head(list) /\ f \in Files
              \/ Head(list) \in Dirs /\ f \in Under(Head(list), n)
<1>1. Range(list) = {Head(list)} \cup Range(Tail(list))
  BY HeadTail
<1> QED BY <1>1 DEF Rest

LEMMA HeldByTail ==
  ASSUME NEW list \in Seq(Entries), list # <<>>
  PROVE  Held(list) \subseteq Held(Tail(list)) \cup Held(<<Head(list)>>)
<1>1. Range(list) = {Head(list)} \cup Range(Tail(list))
  BY HeadTail
<1>2. Range(<<Head(list)>>) = {Head(list)}
  BY DEF Range
<1> QED BY <1>1, <1>2 DEF Held

LEMMA HeldByOne ==
  ASSUME NEW p
  PROVE  Held(<<p>>) = IF p \in DOMAIN Cache THEN Below(Cache[p]) ELSE {}
<1>1. Range(<<p>>) = {p}
  BY DEF Range
<1> QED BY <1>1 DEF Held

-----------------------------------------------------------------------------
(* What the directories walk() is in still lead to                         *)

Pending(st) == UNION {Rest(st[i].left, MaxDepth - i) : i \in 1..Len(st)}

LEMMA PendingPassed ==
  ASSUME stack \in Seq(Frame), stack # <<>>, Top.left # <<>>
  PROVE  /\ Pending(Passed) \subseteq Pending(stack)
         /\ Entry \in Dirs => Under(Entry, MaxDepth - Len(stack)) \subseteq Pending(stack)
         /\ Passed # <<>> /\ Passed[1].dir = stack[1].dir
         /\ \A f \in Pending(stack) :
              \/ f \in Pending(Passed)
              \/ f = Entry /\ f \in Files
              \/ Entry \in Dirs /\ f \in Under(Entry, MaxDepth - Len(stack))
<1> DEFINE last == Len(stack)
<1>1. last \in Nat \ {0} /\ last \in 1..last /\ 1 \in 1..last /\ DOMAIN stack = 1..last
  BY EmptySeq, LenProperties
<1>2. Top \in Frame /\ Top = stack[last]
  BY <1>1, ElementOfSeq DEF Top, Last
<1>3. Top.left \in Seq(Entries)
  BY <1>2 DEF Frame
<1>4. Passed \in Seq(Frame) /\ Len(Passed) = last
  BY PassedTyped
<1>5. \A i \in 1..last : i # last => Passed[i] = stack[i]
  BY <1>1 DEF Passed
<1>6. Passed[last].left = Tail(Top.left) /\ Passed[last].dir = Top.dir
  <2>1. Passed[last] = [Top EXCEPT !.left = Tail(@)]
    BY <1>1, <1>2 DEF Passed
  <2>2. [Top EXCEPT !.left = Tail(@)].left = Tail(Top.left)
        /\ [Top EXCEPT !.left = Tail(@)].dir = Top.dir
    BY <1>2 DEF Frame
  <2> QED BY <2>1, <2>2
<1>7. /\ Rest(Tail(Top.left), MaxDepth - last) \subseteq Rest(Top.left, MaxDepth - last)
      /\ Entry \in Dirs => Under(Entry, MaxDepth - last) \subseteq Rest(Top.left, MaxDepth - last)
      /\ \A f \in Rest(Top.left, MaxDepth - last) :
           \/ f \in Rest(Tail(Top.left), MaxDepth - last)
           \/ f = Entry /\ f \in Files
           \/ Entry \in Dirs /\ f \in Under(Entry, MaxDepth - last)
  BY <1>3, RestOfTail DEF Entry
<1>8. Passed # <<>> /\ Passed[1].dir = stack[1].dir
  <2>1. Passed # <<>>
    BY <1>1, <1>4, EmptySeq
  <2>2. last = 1 => Passed[1].dir = stack[1].dir
    BY <1>2, <1>6
  <2>3. last # 1 => Passed[1].dir = stack[1].dir
    BY <1>1, <1>5
  <2> QED BY <2>1, <2>2, <2>3
<1> HIDE DEF last
<1>9. Pending(Passed) = UNION {Rest(Passed[i].left, MaxDepth - i) : i \in 1..last}
      /\ Pending(stack) = UNION {Rest(stack[i].left, MaxDepth - i) : i \in 1..last}
  BY <1>4 DEF Pending, last
<1>10. Rest(Top.left, MaxDepth - last) \subseteq Pending(stack)
  BY <1>1, <1>2, <1>9
<1>11. ASSUME NEW f \in Pending(Passed) PROVE f \in Pending(stack)
  <2>1. PICK i \in 1..last : f \in Rest(Passed[i].left, MaxDepth - i)
    BY <1>9
  <2>2. CASE i = last
    BY <2>1, <2>2, <1>6, <1>7, <1>10
  <2>3. CASE i # last
    BY <2>1, <2>3, <1>5, <1>9
  <2> QED BY <2>2, <2>3
<1>12. ASSUME NEW f \in Pending(stack)
       PROVE  \/ f \in Pending(Passed)
              \/ f = Entry /\ f \in Files
              \/ Entry \in Dirs /\ f \in Under(Entry, MaxDepth - last)
  <2>1. PICK i \in 1..last : f \in Rest(stack[i].left, MaxDepth - i)
    BY <1>9
  <2>2. CASE i = last
    <3>1. f \in Rest(Top.left, MaxDepth - last)
      BY <2>1, <2>2, <1>2
    <3>2. Rest(Tail(Top.left), MaxDepth - last) \subseteq Pending(Passed)
      BY <1>1, <1>6, <1>9
    <3> QED BY <3>1, <3>2, <1>7
  <2>3. CASE i # last
    BY <2>1, <2>3, <1>5, <1>9
  <2> QED BY <2>2, <2>3
<1>13. Entry \in Dirs => Under(Entry, MaxDepth - last) \subseteq Pending(stack)
  BY <1>7, <1>10
<1> QED BY <1>8, <1>11, <1>12, <1>13 DEF last

LEMMA PendingPushed ==
  ASSUME NEW st \in Seq(Frame), st # <<>>, NEW d \in Dirs, Len(st) <= MaxDepth
  PROVE  LET more == Append(st, [dir |-> d, left |-> Contents[d]])
         IN  /\ Pending(more) = Pending(st) \cup Under(d, MaxDepth - Len(st))
             /\ more # <<>> /\ more[1] = st[1]
<1> DEFINE more == Append(st, [dir |-> d, left |-> Contents[d]])
           last == Len(st)
<1>1. last \in Nat \ {0} /\ MaxDepth \in Nat
  BY EmptySeq, LenProperties, BoundAssumption
<1>2. [dir |-> d, left |-> Contents[d]] \in Frame
  BY Opened
<1>3. /\ more \in Seq(Frame) /\ Len(more) = last + 1
      /\ \A i \in 1..last : more[i] = st[i]
      /\ more[last + 1] = [dir |-> d, left |-> Contents[d]]
  BY <1>2, AppendProperties
<1>4. 1..(last + 1) = 1..last \cup {last + 1} /\ 1 \in 1..last /\ last + 1 # 0
      /\ MaxDepth - last \in Nat /\ (MaxDepth - last) - 1 = MaxDepth - (last + 1)
  BY <1>1
<1>5. Under(d, MaxDepth - last) = Rest(Contents[d], MaxDepth - (last + 1))
  BY <1>4, OpenShows
<1>6. more # <<>>
  BY <1>3, <1>4, EmptySeq
<1>7. more[1] = st[1]
  BY <1>3, <1>4
<1> HIDE DEF more, last
<1>8. Pending(more) = UNION {Rest(more[i].left, MaxDepth - i) : i \in 1..last \cup {last + 1}}
      /\ Pending(st) = UNION {Rest(st[i].left, MaxDepth - i) : i \in 1..last}
  BY <1>3, <1>4 DEF Pending, last
<1>9. more[last + 1].left = Contents[d]
  BY <1>3
<1>10. UNION {Rest(more[i].left, MaxDepth - i) : i \in 1..last \cup {last + 1}}
       = (UNION {Rest(more[i].left, MaxDepth - i) : i \in 1..last})
         \cup Rest(more[last + 1].left, MaxDepth - (last + 1))
  OBVIOUS
<1>11. UNION {Rest(more[i].left, MaxDepth - i) : i \in 1..last} = Pending(st)
  BY <1>3, <1>8
<1>12. Pending(more) = Pending(st) \cup Under(d, MaxDepth - last)
  BY <1>5, <1>8, <1>9, <1>10, <1>11
<1> QED BY <1>6, <1>7, <1>12 DEF more, last

LEMMA PendingPopped ==
  ASSUME stack \in Seq(Frame), stack # <<>>, Top.left = <<>>
  PROVE  /\ Pending(Front(stack)) = Pending(stack)
         /\ Front(stack) # <<>> => Front(stack)[1] = stack[1]
<1> DEFINE last == Len(stack)
<1>1. last \in Nat \ {0}
  BY EmptySeq, LenProperties
<1>2. Front(stack) \in Seq(Frame) /\ Len(Front(stack)) = last - 1
  BY FrontTyped
<1>3. \A i \in 1..(last - 1) : Front(stack)[i] = stack[i]
  BY <1>1 DEF Front
<1>4. Front(stack) # <<>> => Front(stack)[1] = stack[1]
  <2>1. SUFFICES ASSUME Front(stack) # <<>> PROVE Front(stack)[1] = stack[1]
    OBVIOUS
  <2>2. 1 \in 1..(last - 1)
    BY <2>1, <1>1, <1>2, EmptySeq
  <2> QED BY <2>2, <1>3
<1>5. 1..last = 1..(last - 1) \cup {last}
  BY <1>1
<1>6. stack[last].left = <<>>
  BY DEF Top, Last
<1>7. Rest(<<>>, MaxDepth - last) = {}
  BY DEF Rest, Range
<1> HIDE DEF last
<1>8. Pending(Front(stack)) = UNION {Rest(Front(stack)[i].left, MaxDepth - i) : i \in 1..(last - 1)}
      /\ Pending(stack) = UNION {Rest(stack[i].left, MaxDepth - i) : i \in 1..(last - 1) \cup {last}}
  BY <1>2, <1>5 DEF Pending, last
<1>9. UNION {Rest(stack[i].left, MaxDepth - i) : i \in 1..(last - 1) \cup {last}}
      = (UNION {Rest(stack[i].left, MaxDepth - i) : i \in 1..(last - 1)})
        \cup Rest(stack[last].left, MaxDepth - last)
  OBVIOUS
<1>10. UNION {Rest(stack[i].left, MaxDepth - i) : i \in 1..(last - 1)}
       = UNION {Rest(Front(stack)[i].left, MaxDepth - i) : i \in 1..(last - 1)}
  BY <1>3
<1> QED BY <1>4, <1>6, <1>7, <1>8, <1>9, <1>10

LEMMA PendingBegun ==
  ASSUME NEW d \in Dirs
  PROVE  Pending(<<[dir |-> d, left |-> Contents[d]]>>) = Below(d)
<1> DEFINE st == <<[dir |-> d, left |-> Contents[d]]>>
<1>1. Len(st) = 1 /\ st[1].left = Contents[d] /\ 1..1 = {1}
  OBVIOUS
<1>2. Under(d, MaxDepth) = Rest(Contents[d], MaxDepth - 1)
  BY BoundAssumption, OpenShows
<1> HIDE DEF st
<1>3. Pending(st) = Rest(Contents[d], MaxDepth - 1)
  BY <1>1 DEF Pending
<1> QED BY <1>2, <1>3 DEF Below, st

-----------------------------------------------------------------------------
(* The invariant: what is due is stale and within what remains to be done  *)

Ahead == UNION {UnderRoot(r) : r \in Range(roots)}
Remaining == Ahead \cup Held(packages) \cup Pending(stack) \cup ({victim} \ {None})

\* outside the listing of an application root nothing is left of it, and a file is
\* only held between its examination and its unlinking
Idle == (app = None => packages = <<>>) /\ (victim # None => stack # <<>>)
DueStale == \A f \in due : age[f] = "stale"
Owed == ~intr => due \subseteq (IF running THEN Remaining ELSE {})
\* a failed getdents64() gives up the whole walk, and so no more than it began with
UnderTop == stack # <<>> => Pending(stack) \subseteq Below(stack[1].dir)
CleanInv == Idle /\ DueStale /\ Owed /\ UnderTop

LEMMA AheadByTail ==
  ASSUME roots \in Seq(Dirs), roots # <<>>, roots' = Tail(roots)
  PROVE  Ahead \subseteq Ahead' \cup UnderRoot(Head(roots))
<1>1. Range(roots) = {Head(roots)} \cup Range(Tail(roots))
  BY HeadTail
<1> QED BY <1>1 DEF Ahead, UnderRoot, Held, Below

LEMMA NothingHeld == Held(<<>>) = {} /\ Pending(<<>>) = {}
<1>1. Range(<<>>) = {} /\ 1..Len(<<>>) = {}
  BY DEF Range
<1> QED BY <1>1 DEF Held, Pending

\* An entry of the tree is one thing only.
LEMMA OneKind ==
  /\ \A e : ~(e \in Files /\ e \in Dirs) /\ ~(e \in Links /\ e \in Files) /\ ~(e \in Links /\ e \in Dirs)
  /\ None \notin Files /\ None \notin Dirs
  /\ \A r : ~(r \in Range(AppRoots) /\ r \in Range(Thumbs))
BY TreeAssumption DEF Entries

LEMMA IdleStep ==
  ASSUME ListsOK, Idle, [Next]_vars
  PROVE  Idle'
<1>1. (app = None => packages = <<>>) /\ (victim # None => stack # <<>>)
  BY DEF Idle
<1>2. app' = None => packages' = <<>>
  <2>1. CASE OpenAppRoot
    <3>1. app' = Head(roots) /\ roots # <<>>
      BY <2>1 DEF OpenAppRoot
    <3>2. app' \in Dirs
      BY <3>1, HeadTailProperties DEF ListsOK
    <3> QED BY <3>2, OneKind
  <2>2. CASE ~OpenAppRoot
    BY <1>1, <2>2 DEF Next, Sweeper, Start, OpenThumbs, OpenRootFails, Finish, Package, Listing,
       AppRootEnds, PassOver, VisitStops, Stopped, VisitDir, VisitFile, Unlink, LeaveDir, ReadFails,
       Surroundings, AppWrites, Ages, vars
  <2> QED BY <2>1, <2>2
<1>3. victim' # None => stack' # <<>>
  <2>1. CASE VisitFile
    <3>1. stack # <<>> /\ Top.left # <<>> /\ stack' = Passed
      BY <2>1 DEF VisitFile, Walking
    <3> QED BY <3>1, PendingPassed DEF ListsOK
  <2>2. CASE Start \/ OpenAppRoot \/ OpenRootFails \/ Finish \/ AppRootEnds \/ Unlink
             \/ Surroundings \/ AppWrites \/ Ages \/ UNCHANGED vars
    BY <1>1, <2>2 DEF Start, OpenAppRoot, OpenRootFails, Finish, AppRootEnds, Unlink,
       Surroundings, AppWrites, Ages, vars
  <2>3. CASE OpenThumbs \/ Package
    BY <1>1, <2>3 DEF OpenThumbs, Package, Choosing, Listing
  <2>4. CASE PassOver \/ VisitStops \/ VisitDir \/ LeaveDir \/ ReadFails
    BY <2>4 DEF PassOver, VisitStops, VisitDir, LeaveDir, ReadFails, Walking
  <2> QED BY <2>1, <2>2, <2>3, <2>4 DEF Next, Sweeper
<1> QED BY <1>2, <1>3 DEF Idle

LEMMA DueStaleStep ==
  ASSUME MarksOK, DueStale, [Next]_vars
  PROVE  DueStale'
<1>1. age \in [Files -> {"fresh", "stale", "gone"}] /\ due \in SUBSET Files
      /\ \A f \in due : age[f] = "stale"
  BY DEF MarksOK, DueStale
<1>2. CASE Start
  BY <1>1, <1>2 DEF Start, world, DueStale
<1>3. CASE Unlink
  <2>1. due' = due \ {victim} /\ (age' = [age EXCEPT ![victim] = "gone"] \/ age' = age)
    BY <1>3 DEF Unlink
  <2> QED BY <1>1, <2>1 DEF DueStale
<1>4. CASE AppWrites
  BY <1>1, <1>4 DEF AppWrites, DueStale
<1>5. CASE Ages
  BY <1>1, <1>5 DEF Ages, DueStale
<1>6. CASE ~(Start \/ Unlink \/ AppWrites \/ Ages)
  <2>1. due' \subseteq due /\ age' = age
    BY <1>6 DEF Next, Sweeper, OpenAppRoot, OpenThumbs, OpenRootFails, Finish, Package, AppRootEnds,
       PassOver, VisitStops, VisitDir, VisitFile, LeaveDir, ReadFails, Surroundings, world, vars
  <2> QED BY <1>1, <2>1 DEF DueStale
<1> QED BY <1>2, <1>3, <1>4, <1>5, <1>6

LEMMA UnderTopStep ==
  ASSUME ListsOK, UnderTop, [Next]_vars
  PROVE  UnderTop'
<1>0. roots \in Seq(Dirs) /\ stack \in Seq(Frame) /\ MaxDepth \in Nat /\ Len(stack) \in Nat
  BY BoundAssumption, LenProperties DEF ListsOK
<1>1. stack # <<>> => Pending(stack) \subseteq Below(stack[1].dir)
  BY DEF UnderTop
<1>2. CASE OpenThumbs \/ Package
  <2>1. stack' = stack \/ \E d \in Dirs : stack' = <<[dir |-> d, left |-> Contents[d]]>>
    <3>1. CASE OpenThumbs
      <4>1. roots # <<>> /\ stack' = <<[dir |-> Head(roots), left |-> Contents[Head(roots)]]>>
        BY <3>1 DEF OpenThumbs
      <4> QED BY <4>1, <1>0, HeadTailProperties
    <3>2. CASE Package
      BY <3>2, TreeTyped DEF Package
    <3> QED BY <1>2, <3>1, <3>2
  <2>2. CASE stack' = stack
    BY <1>1, <2>2 DEF UnderTop
  <2>3. CASE \E d \in Dirs : stack' = <<[dir |-> d, left |-> Contents[d]]>>
    <3>1. PICK d \in Dirs : stack' = <<[dir |-> d, left |-> Contents[d]]>>
      BY <2>3
    <3>2. Pending(stack') = Below(d) /\ stack'[1].dir = d
      BY <3>1, PendingBegun
    <3> QED BY <3>2 DEF UnderTop
  <2> QED BY <2>1, <2>2, <2>3
<1>3. CASE PassOver \/ VisitFile \/ VisitDir
  <2>1. stack # <<>> /\ Top.left # <<>>
    BY <1>3 DEF PassOver, VisitFile, VisitDir, Walking
  <2>2. /\ Pending(Passed) \subseteq Pending(stack) /\ Passed # <<>> /\ Passed[1].dir = stack[1].dir
        /\ Entry \in Dirs => Under(Entry, MaxDepth - Len(stack)) \subseteq Pending(stack)
        /\ Passed \in Seq(Frame) /\ Len(Passed) = Len(stack)
    BY <1>0, <2>1, PendingPassed, PassedTyped
  <2>3. CASE stack' = Passed
    BY <1>1, <2>1, <2>2, <2>3 DEF UnderTop
  <2>4. CASE stack' # Passed
    <3>1. /\ Entry \in Dirs /\ ~TooDeep(Len(stack))
          /\ stack' = Append(Passed, [dir |-> Entry, left |-> Contents[Entry]])
      BY <1>3, <2>4 DEF PassOver, VisitFile, VisitDir
    <3>2. Len(Passed) <= MaxDepth
      BY <3>1, <2>2, <1>0 DEF TooDeep
    <3>3. Pending(stack') = Pending(Passed) \cup Under(Entry, MaxDepth - Len(stack))
          /\ stack'[1] = Passed[1]
      BY <2>2, <3>1, <3>2, PendingPushed
    <3> QED BY <1>1, <2>1, <2>2, <3>1, <3>3 DEF UnderTop
  <2> QED BY <2>3, <2>4
<1>4. CASE LeaveDir
  <2>1. stack # <<>> /\ Top.left = <<>> /\ stack' = Front(stack)
    BY <1>4 DEF LeaveDir, Walking
  <2>2. Pending(stack') = Pending(stack) /\ (stack' # <<>> => stack'[1] = stack[1])
    BY <1>0, <2>1, PendingPopped
  <2> QED BY <1>1, <2>1, <2>2 DEF UnderTop
<1>5. CASE VisitStops \/ ReadFails
  BY <1>5 DEF VisitStops, Stopped, ReadFails, UnderTop
<1>6. CASE Start \/ OpenAppRoot \/ OpenRootFails \/ Finish \/ AppRootEnds \/ Unlink
           \/ Surroundings \/ AppWrites \/ Ages \/ UNCHANGED vars
  <2>1. stack' = stack
    BY <1>6 DEF Start, OpenAppRoot, OpenRootFails, Finish, AppRootEnds, Unlink, Surroundings,
       AppWrites, Ages, vars
  <2> QED BY <1>1, <2>1 DEF UnderTop
<1> QED BY <1>2, <1>3, <1>4, <1>5, <1>6 DEF Next, Sweeper

\* One step keeps what is due within reach.  f stands for any file still due after it.
LEMMA OwedStep ==
  ASSUME MarksOK, ListsOK, CleanInv, [Next]_vars, ~intr', NEW f \in due'
  PROVE  running' /\ f \in Remaining'
<1>0. /\ roots \in Seq(Dirs) /\ packages \in Seq(Entries) /\ stack \in Seq(Frame)
      /\ MaxDepth \in Nat /\ Len(stack) \in Nat /\ due \in SUBSET Files
  BY BoundAssumption, LenProperties DEF ListsOK, MarksOK
<1>1. /\ app = None => packages = <<>>
      /\ victim # None => stack # <<>>
      /\ \A g \in due : age[g] = "stale"
      /\ stack # <<>> => Pending(stack) \subseteq Below(stack[1].dir)
  BY DEF CleanInv, Idle, DueStale, UnderTop
<1>2. ~Start => f \in due /\ ~intr
  BY DEF Next, Sweeper, OpenAppRoot, OpenThumbs, OpenRootFails, Finish, Package, AppRootEnds,
     PassOver, VisitStops, VisitDir, VisitFile, Unlink, LeaveDir, ReadFails, ChkIntr, Surroundings,
     AppWrites, Ages, vars
<1>3. ~Start => running /\ f \in Ahead \cup Held(packages) \cup Pending(stack) \cup ({victim} \ {None})
  BY <1>2 DEF CleanInv, Owed, Remaining
<1>4. Remaining' = Ahead' \cup Held(packages') \cup Pending(stack') \cup ({victim'} \ {None})
  BY DEF Remaining, Held, Below, Pending, Rest, Under, Reach, Ways
<1>5. f \in Files => f # None
  BY OneKind
<1> HIDE DEF Remaining
<1>6. CASE Start
  <2>1. /\ running' = TRUE /\ f \in UNION {UnderRoot(r) : r \in Range(roots')}
    BY <1>6 DEF Start
  <2>2. Ahead' = UNION {UnderRoot(r) : r \in Range(roots')}
    BY DEF Ahead, UnderRoot, Held, Below, Under, Reach, Ways
  <2> QED BY <2>1, <2>2, <1>4
<1>7. CASE OpenAppRoot
  <2>1. /\ roots # <<>> /\ roots' = Tail(roots) /\ Head(roots) \in Range(AppRoots)
        /\ app = None /\ packages' = Contents[Head(roots)]
        /\ stack' = stack /\ victim' = victim /\ running' = running
    BY <1>7 DEF OpenAppRoot, Choosing
  <2>2. Ahead \subseteq Ahead' \cup Held(packages')
    BY <2>1, <1>0, AheadByTail DEF UnderRoot
  <2>3. Held(packages) = {}
    BY <2>1, <1>1, NothingHeld
  <2>4. running /\ f \in Ahead \cup Pending(stack) \cup ({victim} \ {None})
    BY <1>3, <1>7, <2>3 DEF OpenAppRoot, Start, Choosing
  <2> QED BY <2>1, <2>2, <2>4, <1>4
<1>8. CASE OpenThumbs
  <2>1. /\ roots # <<>> /\ roots' = Tail(roots) /\ Head(roots) \in Range(Thumbs)
        /\ stack = <<>> /\ packages' = packages /\ victim' = victim /\ running' = running
        /\ stack' = <<[dir |-> Head(roots), left |-> Contents[Head(roots)]]>>
    BY <1>8 DEF OpenThumbs, Choosing
  <2>2. Head(roots) \in Dirs
    BY <2>1, <1>0, HeadTailProperties
  <2>3. UnderRoot(Head(roots)) = Pending(stack')
    BY <2>1, <2>2, OneKind, PendingBegun DEF UnderRoot
  <2>4. Ahead \subseteq Ahead' \cup Pending(stack')
    BY <2>1, <2>3, <1>0, AheadByTail
  <2>5. Pending(stack) = {}
    BY <2>1, NothingHeld
  <2>6. running /\ f \in Ahead \cup Held(packages) \cup ({victim} \ {None})
    BY <1>3, <1>8, <2>5 DEF OpenThumbs, Start, Choosing
  <2> QED BY <2>1, <2>4, <2>6, <1>4
<1>9. CASE OpenRootFails
  <2>1. /\ roots # <<>> /\ roots' = Tail(roots) /\ f \notin UnderRoot(Head(roots))
        /\ stack' = stack /\ packages' = packages /\ victim' = victim /\ running' = running
    BY <1>9 DEF OpenRootFails
  <2>2. Ahead \subseteq Ahead' \cup UnderRoot(Head(roots))
    BY <2>1, <1>0, AheadByTail
  <2>3. ~Start
    BY <1>9 DEF OpenRootFails, Choosing, Start
  <2> QED BY <2>1, <2>2, <2>3, <1>3, <1>4
<1>10. CASE Finish
  <2>1. /\ stack = <<>> /\ app = None /\ intr' = intr /\ (intr \/ roots = <<>>) /\ running
    BY <1>10 DEF Finish, Choosing
  <2>2. roots = <<>> /\ packages = <<>> /\ victim = None /\ ~Start
    BY <2>1, <1>1 DEF Start
  <2>3. Ahead = {} /\ Held(packages) = {} /\ Pending(stack) = {}
    <3>1. Range(<<>>) = {}
      BY DEF Range
    <3> QED BY <2>1, <2>2, <3>1, NothingHeld DEF Ahead
  <2> QED BY <2>2, <2>3, <1>3
<1>11. CASE Package
  <2>1. /\ packages # <<>> /\ stack = <<>> /\ running
        /\ roots' = roots /\ victim' = victim /\ running' = running
    BY <1>11 DEF Package, Listing
  <2>2. Held(packages) \subseteq Held(Tail(packages)) \cup Held(<<Head(packages)>>)
    BY <2>1, <1>0, HeldByTail
  <2>3. Ahead' = Ahead
    BY <2>1 DEF Ahead, UnderRoot, Held, Below, Under, Reach, Ways
  <2>4. Pending(stack) = {} /\ ~Start
    BY <2>1, NothingHeld DEF Start
  <2>5. packages' = Tail(packages)
    BY <1>11 DEF Package
  <2>6. f \in Held(<<Head(packages)>>) => f \in Pending(stack')
    <3>1. CASE Head(packages) \notin DOMAIN Cache
      BY <3>1, HeldByOne
    <3>2. CASE stack' = stack /\ Head(packages) \in DOMAIN Cache
      <4>1. Cache[Head(packages)] \in Dirs
        BY <3>2, TreeTyped
      <4>2. f \notin Held(<<Head(packages)>>)
        BY <1>11, <3>2, <2>1, <4>1 DEF Package
      <4> QED BY <4>2
    <3>3. CASE stack' # stack
      <4>1. Head(packages) \in DOMAIN Cache
            /\ stack' = <<[dir |-> Cache[Head(packages)], left |-> Contents[Cache[Head(packages)]]]>>
        BY <1>11, <3>3 DEF Package
      <4> QED BY <4>1, TreeTyped, PendingBegun, HeldByOne
    <3> QED BY <3>1, <3>2, <3>3
  <2> QED BY <2>1, <2>2, <2>3, <2>4, <2>5, <2>6, <1>3, <1>4
<1>12. CASE AppRootEnds
  <2>1. /\ f \notin Held(packages) /\ roots' = roots /\ stack' = stack
        /\ victim' = victim /\ running' = running /\ ~Start
    BY <1>12 DEF AppRootEnds, Listing, Start
  <2>2. Ahead' = Ahead
    BY <2>1 DEF Ahead, UnderRoot, Held, Below, Under, Reach, Ways
  <2> QED BY <2>1, <2>2, <1>3, <1>4
<1>13. CASE PassOver \/ VisitDir \/ VisitFile
  <2>1. /\ stack # <<>> /\ Top.left # <<>> /\ victim = None /\ ~Start
        /\ roots' = roots /\ packages' = packages /\ running' = running
    BY <1>13 DEF PassOver, VisitDir, VisitFile, Walking, Start
  <2>2. Ahead' = Ahead
    BY <2>1 DEF Ahead, UnderRoot, Held, Below, Under, Reach, Ways
  <2>3. f \in Pending(stack) =>
          \/ f \in Pending(Passed)
          \/ f = Entry /\ f \in Files
          \/ Entry \in Dirs /\ f \in Under(Entry, MaxDepth - Len(stack))
    BY <2>1, <1>0, PendingPassed
  <2>4. f \in Pending(stack) => f \in Pending(stack') \cup ({victim'} \ {None})
    <3>1. CASE PassOver
      <4>1. stack' = Passed /\ Entry \in Links \cup {g \in Files : age[g] = "gone"}
        BY <3>1 DEF PassOver
      <4>2. f # Entry /\ Entry \notin Dirs
        BY <4>1, <2>1, <1>0, <1>1, <1>2, OneKind
      <4> QED BY <4>1, <4>2, <2>3
    <3>2. CASE VisitFile
      <4>1. stack' = Passed /\ Entry \in Files
        BY <3>2 DEF VisitFile
      <4>2. f = Entry => victim' = f
        <5>1. SUFFICES ASSUME f = Entry PROVE victim' = f
          OBVIOUS
        <5>2. age[Entry] = "stale"
          BY <5>1, <2>1, <1>1, <1>2
        <5> QED BY <3>2, <5>1, <5>2 DEF VisitFile, Takes
      <4> QED BY <4>1, <4>2, <2>3, OneKind
    <3>3. CASE VisitDir
      <4>1. Entry \in Dirs /\ f # Entry
        BY <3>3, <2>1, <1>0, <1>2, OneKind DEF VisitDir
      <4>2. CASE stack' = Passed /\ due' = due \ Below(Entry)
        <5>1. Under(Entry, MaxDepth - Len(stack)) \subseteq Below(Entry)
          BY <1>0, ReachDeeper DEF Below
        <5> QED BY <4>1, <4>2, <5>1, <2>3
      <4>3. CASE TooDeep(Len(stack)) /\ stack' = Passed
        <5>1. 0..(MaxDepth - Len(stack)) = {}
          BY <4>3, <1>0 DEF TooDeep
        <5>2. Under(Entry, MaxDepth - Len(stack)) = {}
          BY <5>1 DEF Under, Reach
        <5> QED BY <4>1, <4>3, <5>2, <2>3
      <4>4. CASE /\ ~TooDeep(Len(stack))
                 /\ stack' = Append(Passed, [dir |-> Entry, left |-> Contents[Entry]])
        <5>1. Passed \in Seq(Frame) /\ Len(Passed) = Len(stack) /\ Passed # <<>>
          BY <2>1, <1>0, PassedTyped, PendingPassed
        <5>2. Len(Passed) <= MaxDepth
          BY <4>4, <5>1, <1>0 DEF TooDeep
        <5>3. Pending(stack') = Pending(Passed) \cup Under(Entry, MaxDepth - Len(stack))
          BY <4>1, <4>4, <5>1, <5>2, PendingPushed
        <5> QED BY <4>1, <5>3, <2>3
      <4> QED BY <3>3, <4>2, <4>3, <4>4 DEF VisitDir
    <3> QED BY <1>13, <3>1, <3>2, <3>3
  <2> QED BY <2>1, <2>2, <2>4, <1>3, <1>4
<1>14. CASE VisitStops
  BY <1>14 DEF VisitStops
<1>15. CASE Unlink
  <2>1. /\ f # victim /\ roots' = roots /\ packages' = packages /\ stack' = stack
        /\ running' = running
    BY <1>15 DEF Unlink
  <2>2. Ahead' = Ahead /\ ~Start
    <3>1. ~Start
      BY <1>15 DEF Unlink, Start
    <3> QED BY <2>1, <3>1 DEF Ahead, UnderRoot, Held, Below, Under, Reach, Ways
  <2> QED BY <2>1, <2>2, <1>3, <1>4
<1>16. CASE LeaveDir
  <2>1. /\ stack # <<>> /\ Top.left = <<>> /\ stack' = Front(stack) /\ ~Start
        /\ roots' = roots /\ packages' = packages /\ victim' = victim /\ running' = running
    BY <1>16 DEF LeaveDir, Walking, Start
  <2>2. Ahead' = Ahead
    BY <2>1 DEF Ahead, UnderRoot, Held, Below, Under, Reach, Ways
  <2>3. Pending(stack') = Pending(stack)
    BY <2>1, <1>0, PendingPopped
  <2> QED BY <2>1, <2>2, <2>3, <1>3, <1>4
<1>17. CASE ReadFails
  <2>1. /\ stack # <<>> /\ f \notin Below(stack[1].dir) /\ ~Start
        /\ roots' = roots /\ packages' = packages /\ victim' = victim /\ running' = running
    BY <1>17 DEF ReadFails, Walking, Start
  <2>2. Ahead' = Ahead
    BY <2>1 DEF Ahead, UnderRoot, Held, Below, Under, Reach, Ways
  <2>3. f \notin Pending(stack)
    BY <2>1, <1>1
  <2> QED BY <2>1, <2>2, <2>3, <1>3, <1>4
<1>18. CASE Surroundings \/ AppWrites \/ Ages \/ UNCHANGED vars
  <2>1. /\ roots' = roots /\ packages' = packages /\ stack' = stack
        /\ victim' = victim /\ running' = running
    BY <1>18 DEF Surroundings, AppWrites, Ages, vars
  <2>2. Ahead' = Ahead
    BY <2>1 DEF Ahead, UnderRoot, Held, Below, Under, Reach, Ways
  <2>3. CASE Start
    BY <1>6, <2>3
  <2>4. CASE ~Start
    BY <2>1, <2>2, <2>4, <1>3, <1>4
  <2> QED BY <2>3, <2>4
<1> QED
  BY <1>6, <1>7, <1>8, <1>9, <1>10, <1>11, <1>12, <1>13, <1>14, <1>15, <1>16, <1>17, <1>18
  DEF Next, Sweeper

\* A sweep that was not preempted has deleted every file it set out to delete, but
\* those an application wrote meanwhile and those a failed call hid, whatever the
\* tree and however the walk is nested: an error in one cache directory costs that
\* directory only (sweep.c:115-210, fs.c:57-161).
THEOREM SweptCleanHolds == Spec => []SweptClean
<1> DEFINE Inv == MarksOK /\ ListsOK /\ CleanInv
<1>1. Init => Inv
  <2>1. Init => MarksOK
    BY DEF Init, MarksOK
  <2>2. Init => ListsOK
    BY BoundAssumption DEF Init, ListsOK
  <2>3. Init => CleanInv
    BY DEF Init, CleanInv, Idle, DueStale, Owed, UnderTop
  <2> QED BY <2>1, <2>2, <2>3
<1>2. Inv /\ [Next]_vars => Inv'
  <2> SUFFICES ASSUME Inv, [Next]_vars PROVE Inv'
    OBVIOUS
  <2>1. MarksOK' /\ ListsOK'
    BY MarksStep, ListsStep
  <2>2. Idle' /\ DueStale' /\ UnderTop'
    BY IdleStep, DueStaleStep, UnderTopStep DEF CleanInv
  <2>3. Owed'
    BY OwedStep DEF Owed
  <2> QED BY <2>1, <2>2, <2>3 DEF CleanInv
<1>3. Inv => SweptClean
  BY DEF CleanInv, Owed, SweptClean
<1> QED BY <1>1, <1>2, <1>3, PTL DEF Spec
=============================================================================
