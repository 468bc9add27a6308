--------------------------------- MODULE Sweep ---------------------------------
(***************************************************************************)
(* The idle cache sweep: pg_sweep_run() of src/core/sweep.c over the       *)
(* directory walker of src/sys/fs.c.  The governor calls it in the reactor *)
(* thread while the display is off; it lists two application roots, walks  *)
(* the cache directory of every package and then the thumbnail             *)
(* directories, and deletes the stale regular files it meets.  Meanwhile   *)
(* the user may light the display, the load may rise and applications      *)
(* write the very files that are being examined.                           *)
(*                                                                         *)
(* The tree of directories is fixed, the files in it come and go.  Every   *)
(* call into the file system may fail when Faulty is TRUE.                 *)
(*                                                                         *)
(* Definitions that are used nowhere (TooDeepEarly, RestoredIfDone,        *)
(* StopsHere) are plausible bugs, each a variant of the definition after   *)
(* it.                                                                     *)
(***************************************************************************)
EXTENDS Integers, Sequences, FiniteSets, SequencesExt

CONSTANTS
  Files, Dirs, Links,  \* the entries of the tree; links include . and ..
  Contents,  \* what each directory lists, in the order of getdents64()
  Cache,     \* the cache directory of each package
  AppRoots, Thumbs,  \* APP_ROOTS and TEMP_PATHS
  MaxDepth,  \* MAX_DEPTH
  Every,     \* INTR_MASK + 1
  Faulty,    \* may calls into the file system fail?
  None

Entries == Files \cup Dirs \cup Links

ASSUME TreeAssumption ==
  /\ Contents \in [Dirs -> Seq(Entries)]
  /\ \A p \in DOMAIN Cache : p \in Dirs /\ Cache[p] \in Dirs
  /\ AppRoots \in Seq(Dirs) /\ Thumbs \in Seq(Dirs) /\ Range(AppRoots) \cap Range(Thumbs) = {}
  /\ Files \cap Dirs = {} /\ Links \cap (Files \cup Dirs) = {}
  /\ None \notin Entries
ASSUME BoundAssumption == MaxDepth \in Nat /\ Every \in Nat \ {0} /\ Faulty \in BOOLEAN

VARIABLES
  running,   \* inside pg_sweep_run()
  roots,     \* the roots still to open
  app,       \* the application root being listed, or None
  packages,  \* what is left of its listing
  stack,     \* the directories walk() is in: [dir, left], the innermost last
  victim,    \* the file found stale and not yet unlinked, or None
  nr,        \* nr_files, modulo Every
  intr,      \* sctx.intr of the current or the last sweep
  clamp,     \* the daemon's uclamp_max
  age,       \* files: "stale" is older than AGE_LIMIT
  lit, busy, \* the backlight is on, avg10 is over the limit
  due,       \* history: the files this sweep still has to delete
  late       \* history: entries since the sweep should have noticed lit or busy

world == <<age, lit, busy>>
vars == <<running, roots, app, packages, stack, victim, nr, intr, clamp,
          age, lit, busy, due, late>>

TypeOK ==
  /\ running \in BOOLEAN /\ intr \in BOOLEAN /\ lit \in BOOLEAN /\ busy \in BOOLEAN
  /\ roots \in Seq(Dirs)
  /\ app \in Range(AppRoots) \cup {None} /\ packages \in Seq(Entries)
  /\ stack \in Seq([dir : Dirs, left : Seq(Entries)]) /\ Len(stack) <= MaxDepth + 1
  /\ victim \in Files \cup {None} /\ due \in SUBSET Files
  /\ nr \in 0..(Every - 1) /\ late \in 0..(Every + 1)
  /\ clamp \in {"PG_UCLAMP_MAX", "UCLAMP_UNRESTRICTED"}
  /\ age \in [Files -> {"fresh", "stale", "gone"}]

Init ==
  /\ running = FALSE /\ intr = FALSE /\ roots = <<>> /\ app = None /\ packages = <<>>
  /\ stack = <<>> /\ victim = None /\ nr = 0 /\ clamp = "PG_UCLAMP_MAX"
  /\ age \in [Files -> {"fresh", "stale"}]
  /\ lit = FALSE /\ busy = FALSE
  /\ due = {} /\ late = 0

-----------------------------------------------------------------------------
(* The files a walk has to reach, by the tree alone *)

\* the ways down from d, and where those of at most n steps lead
Ways(d, m) == {way \in [0..m -> Dirs] :
                 way[0] = d /\ \A i \in 1..m : way[i] \in Range(Contents[way[i - 1]])}
Reach(d, n) == UNION {{way[m] : way \in Ways(d, m)} : m \in 0..n}

Under(d, n) == Files \cap UNION {Range(Contents[x]) : x \in Reach(d, n)}
Below(d) == Under(d, MaxDepth)

\* what the packages of a listing hold
Held(list) == UNION {Below(Cache[p]) : p \in Range(list) \cap DOMAIN Cache}

UnderRoot(r) == IF r \in Range(AppRoots) THEN Held(Contents[r]) ELSE Below(r)

-----------------------------------------------------------------------------
(* sweep_chk_intr(): one entry of Every asks the backlight and the pressure *)

Readable == IF Faulty THEN BOOLEAN ELSE {TRUE}

Probing == nr = Every - 1

Spotted(bl, psi) == (bl /\ lit) \/ (psi /\ busy)

ChkIntr ==
  /\ nr' = IF intr THEN nr ELSE (nr + 1) % Every
  /\ \E bl, psi \in Readable :
       /\ intr' = (intr \/ (Probing /\ Spotted(bl, psi)))
       /\ late' = IF (lit \/ busy) /\ ~(Probing /\ ((lit /\ ~bl) \/ (busy /\ ~psi)))
                  THEN (IF late <= Every THEN late + 1 ELSE late) ELSE 0

-----------------------------------------------------------------------------
(* pg_sweep_run() *)

\* With a clock from before the epoch a sweep ends before it asks anything.
Start ==
  /\ ~running /\ late' = 0
  /\ \/ nr' = Every - 1 /\ intr' = FALSE /\ due' = {} /\ UNCHANGED <<running, roots, clamp>>
     \/ /\ nr' = 0
        /\ \E bl, psi \in Readable :
             IF Spotted(bl, psi)
             THEN intr' = TRUE /\ UNCHANGED <<running, roots, clamp, due>>
             ELSE /\ intr' = FALSE /\ running' = TRUE
                  /\ roots' = AppRoots \o Thumbs /\ clamp' = "UCLAMP_UNRESTRICTED"
                  /\ due' = {f \in UNION {UnderRoot(r) : r \in Range(roots')} : age[f] = "stale"}
  /\ UNCHANGED <<app, packages, stack, victim, world>>

Choosing == running /\ stack = <<>> /\ app = None

OpenAppRoot ==
  /\ Choosing /\ ~intr /\ roots # <<>> /\ Head(roots) \in Range(AppRoots)
  /\ roots' = Tail(roots)
  /\ app' = Head(roots) /\ packages' = Contents[Head(roots)]
  /\ UNCHANGED <<running, stack, victim, nr, intr, clamp, due, late, world>>

\* pg_fs_walk()
OpenThumbs ==
  /\ Choosing /\ ~intr /\ roots # <<>> /\ Head(roots) \in Range(Thumbs)
  /\ roots' = Tail(roots)
  /\ stack' = <<[dir |-> Head(roots), left |-> Contents[Head(roots)]]>>
  /\ UNCHANGED <<running, app, packages, victim, nr, intr, clamp, due, late, world>>

OpenRootFails ==
  /\ Faulty /\ Choosing /\ ~intr /\ roots # <<>>
  /\ roots' = Tail(roots) /\ due' = due \ UnderRoot(Head(roots))
  /\ UNCHANGED <<running, app, packages, stack, victim, nr, intr, clamp, late, world>>

RestoredIfDone == IF intr THEN clamp ELSE "PG_UCLAMP_MAX"
Restored == "PG_UCLAMP_MAX"

Finish ==
  /\ Choosing /\ (intr \/ roots = <<>>)
  /\ running' = FALSE /\ clamp' = Restored /\ roots' = <<>> /\ late' = 0
  /\ UNCHANGED <<app, packages, stack, victim, nr, intr, due, world>>

-----------------------------------------------------------------------------
(* sweep_app_data() and sweep_package() *)

Listing == running /\ stack = <<>> /\ app # None

\* opening the package or its cache directory may fail, and is then skipped
Package ==
  /\ Listing /\ packages # <<>>
  /\ ChkIntr
  /\ LET p == Head(packages)
         skip == UNCHANGED <<app, stack>> /\ packages' = Tail(packages)
     IN  \/ intr' /\ app' = None /\ packages' = <<>> /\ UNCHANGED <<stack, due>>
         \/ ~intr' /\ p \notin DOMAIN Cache /\ skip /\ UNCHANGED due
         \/ ~intr' /\ p \in DOMAIN Cache /\ Faulty /\ skip /\ due' = due \ Held(<<p>>)
         \/ /\ ~intr' /\ p \in DOMAIN Cache
            /\ stack' = <<[dir |-> Cache[p], left |-> Contents[Cache[p]]]>>
            /\ packages' = Tail(packages) /\ UNCHANGED <<app, due>>
  /\ UNCHANGED <<running, roots, victim, clamp, world>>

\* the listing ends, or getdents64() fails
AppRootEnds ==
  /\ Listing /\ (packages = <<>> \/ Faulty)
  /\ app' = None /\ packages' = <<>> /\ due' = due \ Held(packages)
  /\ UNCHANGED <<running, roots, stack, victim, nr, intr, clamp, late, world>>

-----------------------------------------------------------------------------
(* walk(), dirent() and sweep_cb() *)

Walking == running /\ stack # <<>> /\ victim = None
Top == Last(stack)
Entry == Head(Top.left)
Passed == [stack EXCEPT ![Len(stack)].left = Tail(@)]

TooDeepEarly(depth) == depth >= MaxDepth
TooDeep(depth) == depth > MaxDepth

\* FS_STOP comes back through every level of walk(), and ends the listing
StopsHere == [stack |-> Front(stack), app |-> app]
Stopped == [stack |-> <<>>, app |-> None]

\* a directory entry dirent() does not show to the callback
PassOver ==
  /\ Walking /\ Top.left # <<>>
  /\ Entry \in Links \cup {f \in Files : age[f] = "gone"}
  /\ stack' = Passed
  /\ UNCHANGED <<running, roots, app, packages, victim, nr, intr, clamp, due, late, world>>

VisitStops ==
  /\ Walking /\ Top.left # <<>> /\ Entry \notin Links
  /\ (Entry \in Files => age[Entry] # "gone")
  /\ ChkIntr /\ intr'
  /\ stack' = Stopped.stack /\ app' = Stopped.app
  /\ packages' = IF app' = None THEN <<>> ELSE packages
  /\ UNCHANGED <<running, roots, victim, clamp, due, world>>

\* opening the directory may fail, and is then skipped
VisitDir ==
  /\ Walking /\ Top.left # <<>> /\ Entry \in Dirs
  /\ ChkIntr /\ ~intr'
  /\ \/ Faulty /\ stack' = Passed /\ due' = due \ Below(Entry)
     \/ /\ stack' = IF TooDeep(Len(stack)) THEN Passed
                    ELSE Append(Passed, [dir |-> Entry, left |-> Contents[Entry]])
        /\ UNCHANGED due
  /\ UNCHANGED <<running, roots, app, packages, victim, clamp, world>>

Takes(a) == a = "stale"

\* fstatat() may fail, and the file is then kept
VisitFile ==
  /\ Walking /\ Top.left # <<>> /\ Entry \in Files /\ age[Entry] # "gone"
  /\ ChkIntr /\ ~intr'
  /\ stack' = Passed
  /\ \/ Faulty /\ due' = due \ {Entry} /\ UNCHANGED victim
     \/ victim' = (IF Takes(age[Entry]) THEN Entry ELSE None) /\ UNCHANGED due
  /\ UNCHANGED <<running, roots, app, packages, clamp, world>>

Unlink ==
  /\ victim # None
  /\ \/ age' = [age EXCEPT ![victim] = "gone"]
     \/ Faulty /\ UNCHANGED age
  /\ due' = due \ {victim} /\ victim' = None
  /\ UNCHANGED <<running, roots, app, packages, stack, nr, intr, clamp, late, lit, busy>>

LeaveDir ==
  /\ Walking /\ Top.left = <<>>
  /\ stack' = Front(stack)
  /\ UNCHANGED <<running, roots, app, packages, victim, nr, intr, clamp, due, late, world>>

\* a getdents64() error at any depth ends the walk from the top
ReadFails ==
  /\ Faulty /\ Walking
  /\ stack' = <<>> /\ due' = due \ Below(stack[1].dir)
  /\ UNCHANGED <<running, roots, app, packages, victim, nr, intr, clamp, late, world>>

Sweeper ==
  \/ Start \/ OpenAppRoot \/ OpenThumbs \/ OpenRootFails \/ Finish
  \/ Package \/ AppRootEnds
  \/ PassOver \/ VisitStops \/ VisitDir \/ VisitFile \/ Unlink \/ LeaveDir \/ ReadFails

-----------------------------------------------------------------------------
(* The display, the load and the applications *)

Display == lit' = ~lit /\ UNCHANGED busy
Load == busy' = ~busy /\ UNCHANGED lit

Surroundings ==
  /\ Display \/ Load
  /\ late' = 0
  /\ UNCHANGED <<running, roots, app, packages, stack, victim, nr, intr, clamp, age, due>>

\* an application writes a file, or creates it anew
AppWrites ==
  \E f \in Files :
    /\ age[f] # "fresh" /\ age' = [age EXCEPT ![f] = "fresh"] /\ due' = due \ {f}
    /\ UNCHANGED <<running, roots, app, packages, stack, victim, nr, intr, clamp, lit, busy, late>>

\* now_sec is read once a sweep: nothing gets older during one
Ages ==
  \E f \in Files :
    /\ ~running /\ age[f] = "fresh" /\ age' = [age EXCEPT ![f] = "stale"]
    /\ UNCHANGED <<running, roots, app, packages, stack, victim, nr, intr, clamp, lit, busy, due, late>>

Next == Sweeper \/ Surroundings \/ AppWrites \/ Ages

Spec == Init /\ [][Next]_vars

\* the sweep never blocks: the reactor thread runs it to its end
FairSpec == Spec /\ WF_vars(running /\ Sweeper)

-----------------------------------------------------------------------------

\* Once the display is lit or the load is up, and the nodes that say so can be
\* read, the sweep examines at most Every more entries (INTR_MASK, sweep.c:53),
\* those of the levels it is unwinding included.
PreemptsInTime == late <= Every

\* A sweep that was not preempted leaves no file that was stale when it began,
\* except those an application wrote meanwhile and those a failed call hid: an
\* error in one cache directory costs that directory only.
SweptClean == ~running /\ ~intr => due = {}

\* Every sweep ends, preempted or not, and the clamp it lifted is back
\* (pg_task_set_uclamp(PG_UCLAMP_MAX), sweep.c:207).
SweepEnds == running ~> (~running /\ clamp = "PG_UCLAMP_MAX")
=============================================================================
