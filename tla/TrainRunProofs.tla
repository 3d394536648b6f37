--------------------------- MODULE TrainRunProofs ---------------------------
(***************************************************************************)
(* For every number of processes, launches and faults, every set of recipes, *)
(* targets and flags, and a crash or a fault between any two renames: what a *)
(* checkpoint directory publishes.                                          *)
(***************************************************************************)
EXTENDS TrainRun, FiniteSetTheorems, SequenceTheorems, TLAPS

(* What the files and the locals hold. *)
Flags == InitFlags \cup {"fresh_run_overwrite", "force_history_reset", "allow_bridge_mismatch",
                         "accept_legacy_unpinned_state"}

SavedRecipe == [target : Targets, echo : Echoes]
RunRec == [id : Launches \cup {0}, by : Launches \cup {0}, opts : SUBSET Flags,
           target : Targets \cup {0}, i : 0 .. MaxIter + 1, traj : Weights, rows : Rows,
           pending : SUBSET (1 .. MaxIter), pin : Libs \cup {None}, from : {None, State},
           backup : Launches \cup {0}, recipe : Recipes \cup {None},
           saved : SavedRecipe \cup {None}, init : SUBSET InitFlags]

Comparing == {"bridge", "snapshot", "echo"}
Accepted == {"quarantine", "truncate"}
Within == {"collect", "verify", "save", "unstale", "history", "keep", "swap", "gate"}
Publishing == {"loop"} \cup Within
Bound == Comparing \cup {"lineage"} \cup Accepted \cup Publishing
Empty == {"scan", "build", "move", "copylib"}
Stages == {"idle", "load"} \cup Bound \cup Empty

DiskTypes ==
    /\ disk = [n \in Names |-> disk[n]]
    /\ disk[Hist] \in HistFile \cup {None}
    /\ disk[State] \in StateFile \cup {None, Corrupt}
    /\ disk[Prev] \in StateFile \cup {None}
    /\ \A n \in 1 .. MaxIter : disk[Iter(n)] \in IterFile \cup {None}
    /\ \A l \in Libs : disk[Snapshot(l)] \in [content : Libs] \cup {None}

AtStage(p) ==
    /\ pc[p] # "idle" => /\ lock = p
                         /\ run[p].by \in Launches /\ run[p].by = launches
                         /\ run[p].target \in Targets /\ run[p].recipe \in Recipes
    /\ pc[p] \in Bound => run[p].id \in Launches /\ run[p].i \in 1 .. MaxIter + 1
    /\ pc[p] \in Bound \cup {"move", "copylib"} => run[p].pin \in Libs
    /\ pc[p] \in Comparing => run[p].saved \in SavedRecipe
    /\ pc[p] \in {"lineage"} \cup Accepted \cup Within => run[p].i <= run[p].target

TypeInv ==
    /\ DiskTypes
    /\ lib \in Libs \cup {None} /\ copy \in StateFile \cup {None}
    /\ lock \in Procs \cup {None}
    /\ pc \in [Procs -> Stages] /\ run \in [Procs -> RunRec]
    /\ launches \in 0 .. MaxLaunches /\ faults \in 0 .. MaxFaults
    /\ \A p \in Procs : AtStage(p)

-----------------------------------------------------------------------------
(* What each step does, name by name and local by local. *)

SameHist == disk'[Hist] = disk[Hist]
SameGens == disk'[State] = disk[State] /\ disk'[Prev] = disk[Prev]
SameIters == \A n \in 1 .. MaxIter : disk'[Iter(n)] = disk[Iter(n)]
SameSnaps == \A l \in Libs : disk'[Snapshot(l)] = disk[Snapshot(l)]
SameDisk == disk' = disk

Writes(n, v) == n \in Names /\ disk'[n] = v /\ \A m \in Names \ {n} : disk'[m] = disk[m]

(* A process that holds the lock goes on; the others do nothing. *)
Passes(p, a, b) ==
    /\ pc[p] = a /\ pc'[p] = b /\ a # "idle"
    /\ \A q \in Procs \ {p} : pc[q] = "idle" /\ pc'[q] = "idle"
    /\ launches' = launches /\ copy' = copy
    /\ disk' = [n \in Names |-> disk'[n]]
    /\ pc' \in [Procs -> Stages] /\ run' \in [Procs -> RunRec]
    /\ lib' = lib /\ lock' = IF b = "idle" THEN None ELSE p

Quits(p) == Passes(p, pc[p], "idle") /\ waived' = waived

Moves(p, a, b) == Passes(p, a, b) /\ run'[p] = run[p] /\ disk' = disk /\ waived' = waived

Starts(p, l) ==
    /\ pc'[p] = l
    /\ \A q \in Procs : pc[q] = "idle" /\ (q # p => pc'[q] = "idle")
    /\ launches' = launches + 1 /\ disk' = disk /\ copy' = copy /\ waived' = waived
    /\ launches < MaxLaunches /\ lib' = lib /\ lock' = p
    /\ pc' \in [Procs -> Stages] /\ run' \in [Procs -> RunRec]
    /\ run'[p].by = launches' /\ run'[p].recipe \in Recipes /\ run'[p].target \in Targets
    /\ run'[p].traj = <<>> /\ run'[p].rows = <<>> /\ run'[p].backup = 0
    /\ "force_history_reset" \in run'[p].opts => \E opts \in Options : "force_history_reset" \in opts

StartsFresh(p) ==
    /\ Starts(p, "scan")
    /\ run'[p].recipe.head_lr => "init_from_bc" \in run'[p].opts /\ run'[p].recipe.head_lr_iters > 0

StartsAgain(p) == Starts(p, "load") /\ run'[p].from = State

StartsCopy(p) ==
    /\ Starts(p, "load") /\ run'[p].from = None /\ copy # None
    /\ Rewind \/ \A n \in {State, Prev} : Readable(disk[n]) => disk[n].run # copy.run

Loads(p) ==
    LET g == Generation(run[p].from) IN
    /\ Passes(p, "load", "bridge") /\ disk' = disk
    /\ Readable(g) /\ g \in StateFile /\ g.seed = run[p].recipe.base_seed
    /\ g.pin = None => lib \in Libs
    /\ run'[p] = [run[p] EXCEPT !.id = g.run, !.i = g.next, !.traj = g.traj,
                                !.pin = IF g.pin = None THEN lib ELSE g.pin,
                                !.opts = run[p].opts \ {"accept_legacy_unpinned_state"},
                                !.saved = [target |-> g.target, echo |-> g.echo],
                                !.init = g.init]
    /\ waived' = IF Mismatch(p) \/ g.pin = None THEN waived \cup {g.run} ELSE waived

Binds(p) ==
    /\ Passes(p, "snapshot", "echo") /\ waived' = waived
    /\ \E bound \in Libs : /\ Writes(Snapshot(bound), [content |-> bound])
                           /\ bound # run[p].pin => Mismatch(p)
                           /\ run'[p] = [run[p] EXCEPT !.pin = bound]

Compares(p) ==
    /\ Passes(p, "echo", "lineage") /\ disk' = disk /\ waived' = waived
    /\ SameRecipe(Echo(run[p].recipe), run[p].saved.echo) /\ run[p].i <= run[p].target
    /\ run'[p] = [run[p] EXCEPT !.saved = None]

Reads(p) ==
    /\ Passes(p, "lineage", "quarantine") /\ disk' = disk /\ waived' = waived
    /\ "force_history_reset" \in run[p].opts \/ OneLineageOnDisk(run[p].id, run[p].from)
    /\ disk[Hist] # None => disk[Hist].run = run[p].id
    /\ run'[p] = [run[p] EXCEPT !.rows = IF disk[Hist] = None THEN <<>>
                                         ELSE RowsBefore(disk[Hist].rows, run[p].i)]

SetsAside(p) ==
    /\ Passes(p, "quarantine", "quarantine") /\ waived' = waived
    /\ \E n \in 1 .. MaxIter :
          /\ disk[Iter(n)] # None
          /\ disk'[Stale(n)] = disk[Iter(n)] /\ disk'[Iter(n)] = None
          /\ \A m \in Names \ {Stale(n), Iter(n)} : disk'[m] = disk[m]
          /\ run'[p] = [run[p] EXCEPT !.pending = @ \cup {n}]

Truncates(p) ==
    /\ Passes(p, "truncate", "loop") /\ run'[p] = run[p] /\ waived' = waived
    /\ Writes(Hist, [run |-> run[p].id, rows |-> run[p].rows])

Builds(p) ==
    /\ Passes(p, "build", "move") /\ disk' = disk /\ waived' = waived
    /\ lib \in Libs
    /\ run'[p] = [run[p] EXCEPT !.pin = lib, !.backup = IF Managed = {} THEN 0 ELSE run[p].by]

MovesAway(p) ==
    /\ Passes(p, "move", "move") /\ run'[p] = run[p] /\ waived' = waived
    /\ \E n \in Names : /\ disk[n] # None /\ run[p].backup # 0
                        /\ \A m \in Names : disk[m] # None => Rank(n) <= Rank(m)
                        /\ Writes(n, None)

StartsRun(p) ==
    /\ Passes(p, "copylib", "loop")
    /\ Writes(Snapshot(run[p].pin), [content |-> run[p].pin])
    /\ run'[p] = [run[p] EXCEPT !.id = run[p].by, !.i = 1, !.opts = @ \cap {"allow_bridge_mismatch"},
                                !.init = run[p].opts \cap {"scratch", "champion", "init_from_bc"}]
    /\ waived' = IF Mismatch(p) THEN waived \cup {run[p].by} ELSE waived

Collects(p) ==
    /\ Passes(p, "collect", "verify") /\ disk' = disk /\ waived' = waived
    /\ disk[Snapshot(run[p].pin)] # None
    /\ \E moved \in BOOLEAN :
          run'[p] = [run[p] EXCEPT !.traj =
                       Append(@, [by |-> run[p].by, lib |-> Loaded(p).content, recipe |-> run[p].recipe,
                                  rate |-> Rate(p), moved |-> moved])]

Saves(p) ==
    /\ Passes(p, "save", "unstale") /\ run'[p] = run[p] /\ waived' = waived
    /\ Writes(Iter(run[p].i), [run |-> run[p].id, traj |-> run[p].traj, init |-> run[p].init])

Unstales(p) ==
    /\ Passes(p, "unstale", "history") /\ waived' = waived
    /\ SameHist /\ SameGens /\ SameIters /\ SameSnaps
    /\ \E b \in {0, run[p].backup} :
          run'[p] = [run[p] EXCEPT !.pending = @ \ {run[p].i}, !.backup = b]

Records(p) ==
    LET rows == Append(run[p].rows, [iteration |-> run[p].i, traj |-> run[p].traj]) IN
    /\ \E l \in {"keep", "gate"} : Passes(p, "history", l)
    /\ waived' = waived
    /\ run'[p] = [run[p] EXCEPT !.rows = rows]
    /\ Writes(Hist, [run |-> run[p].id, rows |-> rows])

Keeps(p) ==
    /\ Passes(p, "keep", "swap") /\ run'[p] = run[p] /\ waived' = waived
    /\ SameHist /\ SameIters /\ SameSnaps
    /\ \/ ~Readable(disk[State]) /\ SameGens
       \/ Readable(disk[State]) /\ disk'[Prev] = disk[State] /\ disk'[State] = None

Swaps(p) ==
    /\ Passes(p, "swap", "gate") /\ waived' = waived
    /\ run'[p] = [run[p] EXCEPT !.backup = 0]
    /\ Writes(State, [run |-> run[p].id, next |-> run[p].i + 1, traj |-> run[p].traj,
                      pin |-> run[p].pin, target |-> run[p].target, init |-> run[p].init,
                      seed |-> run[p].recipe.base_seed, echo |-> Echo(run[p].recipe)])

Advances(p) ==
    /\ Passes(p, "gate", "loop") /\ disk' = disk /\ waived' = waived /\ ~Halted(p)
    /\ run'[p] = [run[p] EXCEPT !.i = @ + 1]

Finishes(p) ==
    /\ Passes(p, "loop", "idle") /\ waived' = waived
    /\ SameHist /\ SameGens /\ SameIters /\ SameSnaps

Does(p) ==
    \/ StartsFresh(p) \/ StartsAgain(p) \/ StartsCopy(p)
    \/ Quits(p) /\ disk' = disk
    \/ Loads(p) \/ Moves(p, "bridge", "snapshot") \/ Binds(p) \/ Compares(p) \/ Reads(p)
    \/ SetsAside(p) \/ Truncates(p)
    \/ Moves(p, "quarantine", "truncate") /\ Outdated(p) = {}
    \/ Moves(p, "scan", "build") \/ Builds(p) \/ MovesAway(p)
    \/ Moves(p, "move", "copylib") /\ (Managed = {} \/ run[p].backup = 0)
    \/ StartsRun(p)
    \/ Moves(p, "loop", "collect") /\ run[p].i <= run[p].target /\ Unchanged(p)
    \/ Collects(p)
    \/ Moves(p, "verify", "save") /\ Unchanged(p)
    \/ Saves(p) \/ Unstales(p) \/ Records(p) \/ Keeps(p) \/ Swaps(p) \/ Advances(p) \/ Finishes(p)

(* What the surroundings do: at most one file is worse than before. *)
Suffers ==
    /\ pc' = pc /\ run' = run /\ launches' = launches /\ waived' = waived /\ lock' = lock
    /\ lib' \in Libs \cup {None}
    /\ disk' = [n \in Names |-> disk'[n]]
    /\ SameHist /\ SameIters /\ disk'[Prev] = disk[Prev]
    /\ \/ disk' = disk /\ copy' = copy
       \/ /\ Readable(disk[State]) /\ Readable(disk[Prev]) /\ disk'[State] = Corrupt
          /\ SameSnaps /\ copy' = copy /\ \A n \in Names \ {State} : disk'[n] = disk[n]
       \/ /\ SameGens /\ copy' = copy
          /\ \A n \in Names : disk'[n] # None => disk[n] # None
          /\ \E l \in Libs : /\ \/ disk'[Snapshot(l)] = None
                                \/ \E m \in Libs \ {l} : disk'[Snapshot(l)] = [content |-> m]
                             /\ \A m \in Libs \ {l} : disk'[Snapshot(m)] = disk[Snapshot(m)]
       \/ disk' = disk /\ Readable(disk[State]) /\ copy = None /\ copy' = disk[State]

-----------------------------------------------------------------------------
(* Facts about the constants and the names. *)

LEMMA MaxIterFacts == MaxIter \in Targets /\ MaxIter \in Nat \ {0} /\ \A t \in Targets : t \in 1 .. MaxIter
<1>1. PICK t \in Targets : \A u \in Targets : u <= t
  BY TrainAssumption
<1>2. MaxIter \in Targets /\ \A u \in Targets : u <= MaxIter
  BY <1>1 DEF MaxIter
<1> QED
  BY <1>2, TrainAssumption

LEMMA NameFacts ==
    /\ Hist \in Names /\ State \in Names /\ Prev \in Names
    /\ \A n \in 1 .. MaxIter : Iter(n) \in Names /\ Stale(n) \in Names
    /\ \A l \in Libs : Snapshot(l) \in Names
    /\ Hist # State /\ Hist # Prev /\ State # Prev
    /\ \A n \in 1 .. MaxIter : Iter(n) \notin {Hist, State, Prev} /\ Stale(n) \notin {Hist, State, Prev}
    /\ \A l \in Libs : Snapshot(l) \notin {Hist, State, Prev}
    /\ \A m, n \in 1 .. MaxIter : Iter(m) # Stale(n) /\ (Iter(m) = Iter(n) => m = n)
    /\ \A l \in Libs : \A n \in 1 .. MaxIter : Iter(n) # Snapshot(l) /\ Stale(n) # Snapshot(l)
    /\ \A l, m \in Libs : Snapshot(l) = Snapshot(m) => l = m
    /\ State # None
<1>1. Hist \in Names /\ State \in Names /\ Prev \in Names
  BY DEF Names
<1>2. /\ \A n \in 1 .. MaxIter : Iter(n) \in Names /\ Stale(n) \in Names
      /\ \A l \in Libs : Snapshot(l) \in Names
  BY DEF Names
<1>3. Hist # State /\ Hist # Prev /\ State # Prev
  BY DEF Hist, State, Prev
<1>4. \A n \in 1 .. MaxIter : Iter(n) \notin {Hist, State, Prev} /\ Stale(n) \notin {Hist, State, Prev}
  BY DEF Hist, State, Prev, Iter, Stale
<1>5. \A l \in Libs : Snapshot(l) \notin {Hist, State, Prev}
  BY DEF Hist, State, Prev, Snapshot
<1>6. \A m, n \in 1 .. MaxIter : Iter(m) # Stale(n) /\ (Iter(m) = Iter(n) => m = n)
  BY DEF Iter, Stale
<1>7. \A l \in Libs : \A n \in 1 .. MaxIter : Iter(n) # Snapshot(l) /\ Stale(n) # Snapshot(l)
  BY DEF Iter, Stale, Snapshot
<1>8. \A l, m \in Libs : Snapshot(l) = Snapshot(m) => l = m
  BY DEF Snapshot
<1>9. State # None
  BY <1>1, NoneIsNoName
<1> QED
  BY ONLY <1>1, <1>2, <1>3, <1>4, <1>5, <1>6, <1>7, <1>8, <1>9

(* One write changes one name. *)
LEMMA Written ==
    ASSUME NEW n \in Names, NEW v, disk = [m \in Names |-> disk[m]], disk' = [disk EXCEPT ![n] = v]
    PROVE  disk' = [m \in Names |-> disk'[m]] /\ Writes(n, v)
  BY DEF Writes

LEMMA RecipeFacts ==
    \A r \in Recipes :
        /\ r.head_lr \in BOOLEAN /\ r.head_lr_iters \in Nat
        /\ {"base_seed", "head_lr", "head_lr_iters"} \subseteq DOMAIN r
        /\ \A q \in Recipes : DOMAIN r = DOMAIN q
<1> SUFFICES ASSUME NEW v \in Invocations
             PROVE  /\ v.recipe.head_lr \in BOOLEAN /\ v.recipe.head_lr_iters \in Nat
                    /\ {"base_seed", "head_lr", "head_lr_iters"} \subseteq DOMAIN v.recipe
                    /\ \A w \in Invocations : DOMAIN v.recipe = DOMAIN w.recipe
  BY DEF Recipes
<1> QED
  BY TrainAssumption

(* Whoever holds the lock is alone. *)
LEMMA Alone ==
    ASSUME TypeInv, NEW p \in Procs, pc[p] # "idle"
    PROVE  /\ lock = p /\ \A q \in Procs \ {p} : pc[q] = "idle"
           /\ run[p] \in RunRec /\ run[p].by \in Launches /\ run[p].by = launches
           /\ run[p].target \in Targets /\ run[p].recipe \in Recipes
  BY DEF TypeInv, AtStage

LEMMA BoundFacts ==
    ASSUME TypeInv, NEW p \in Procs, pc[p] \in Bound
    PROVE  /\ run[p].id \in Launches /\ run[p].i \in 1 .. MaxIter + 1 /\ run[p].pin \in Libs
           /\ Snapshot(run[p].pin) \in Names
           /\ disk[Snapshot(run[p].pin)] \in [content : Libs] \cup {None}
<1>1. run[p].id \in Launches /\ run[p].i \in 1 .. MaxIter + 1 /\ run[p].pin \in Libs
  BY DEF TypeInv, AtStage
<1> QED
  BY <1>1, NameFacts DEF TypeInv, DiskTypes

(* A launch that ends leaves the directory as it is. *)
LEMMA RaiseDoes ==
    ASSUME TypeInv, NEW p \in Procs, pc[p] # "idle", Raise(p)
    PROVE  Quits(p) /\ disk' = disk
<1>1. lock = p /\ \A q \in Procs \ {p} : pc[q] = "idle"
  BY Alone
<1>2. NoRun \in RunRec
  <2>1. <<>> \in Weights /\ <<>> \in Rows
    BY DEF Weights, Rows
  <2>2. MaxIter \in Nat
    BY MaxIterFacts
  <2> QED
    BY <2>1, <2>2 DEF NoRun, RunRec
<1>3. pc' = [pc EXCEPT ![p] = "idle"] /\ run' = [run EXCEPT ![p] = NoRun] /\ lock' = None
      /\ disk' = disk /\ copy' = copy /\ lib' = lib /\ launches' = launches /\ waived' = waived
  BY <1>1 DEF Raise, Release, Goto, files, ghosts
<1>4. pc \in [Procs -> Stages] /\ run \in [Procs -> RunRec] /\ disk = [n \in Names |-> disk[n]]
      /\ "idle" \in Stages
  BY DEF TypeInv, DiskTypes, Stages
<1> QED
  BY <1>1, <1>2, <1>3, <1>4 DEF Quits, Passes

(* A step that only goes on. *)
LEMMA GotoDoes ==
    ASSUME TypeInv, NEW p \in Procs, pc[p] # "idle", NEW l \in Stages, l # "idle", Goto(p, l),
           UNCHANGED <<files, lock, run, ghosts>>
    PROVE  Moves(p, pc[p], l)
<1>1. lock = p /\ \A q \in Procs \ {p} : pc[q] = "idle"
  BY Alone
<1>2. pc' = [pc EXCEPT ![p] = l] /\ run' = run /\ lock' = lock
      /\ disk' = disk /\ copy' = copy /\ lib' = lib /\ launches' = launches /\ waived' = waived
  BY DEF Goto, files, ghosts
<1>3. pc \in [Procs -> Stages] /\ run \in [Procs -> RunRec] /\ disk = [n \in Names |-> disk[n]]
  BY DEF TypeInv, DiskTypes
<1> QED
  BY <1>1, <1>2, <1>3 DEF Moves, Passes

(* A step that changes the locals and at most the directory. *)
LEMMA LocalDoes ==
    ASSUME TypeInv, NEW p \in Procs, pc[p] # "idle", NEW l \in Stages, l # "idle", Goto(p, l),
           NEW r \in RunRec, run' = [run EXCEPT ![p] = r],
           disk' = [n \in Names |-> disk'[n]],
           copy' = copy, lib' = lib, lock' = lock, launches' = launches
    PROVE  Passes(p, pc[p], l) /\ run'[p] = r
<1>1. lock = p /\ \A q \in Procs \ {p} : pc[q] = "idle"
  BY Alone
<1>3. pc \in [Procs -> Stages] /\ run \in [Procs -> RunRec]
  BY DEF TypeInv
<1> QED
  BY <1>1, <1>3 DEF Passes, Goto

LEMMA OptionFacts == \A opts \in Options : opts \subseteq Flags
  BY TrainAssumption DEF Flags

LEMMA RecordFacts ==
    /\ NoRun.i = 0 /\ NoRun \in RunRec /\ <<>> \in Weights /\ <<>> \in Rows
    /\ MaxIter \in Nat \ {0}
<1>1. <<>> \in Weights /\ <<>> \in Rows
  BY DEF Weights, Rows
<1> QED
  BY <1>1, MaxIterFacts DEF NoRun, RunRec

LEMMA LaunchedRecord ==
    ASSUME NEW r \in RunRec, NEW b \in Launches \cup {0}, NEW o \in SUBSET Flags,
           NEW t \in Targets \cup {0}, NEW c \in Recipes \cup {None}, NEW f \in {None, State}
    PROVE  [r EXCEPT !.by = b, !.opts = o, !.target = t, !.recipe = c, !.from = f] \in RunRec
  BY ZenonT(60) DEF RunRec

LEMMA LaunchDoes ==
    ASSUME TypeInv, NEW p \in Procs, NEW l \in {"scan", "load"}, NEW flags \in SUBSET Flags,
           NEW recipe \in Recipes, NEW from \in {None, State}, Launch(p, l, flags, recipe, from),
           "force_history_reset" \in flags => \E opts \in Options : "force_history_reset" \in opts
    PROVE  Starts(p, l) /\ run'[p].from = from /\ run'[p].recipe = recipe /\ run'[p].opts = flags
<1>1. PICK t \in Targets :
          run' = [run EXCEPT ![p] = [NoRun EXCEPT !.by = launches + 1, !.opts = flags, !.target = t,
                                                  !.recipe = recipe, !.from = from]]
  BY DEF Launch
<1>2. /\ pc[p] = "idle" /\ launches < MaxLaunches /\ lock = None /\ lock' = p
      /\ launches' = launches + 1 /\ pc' = [pc EXCEPT ![p] = l]
      /\ disk' = disk /\ copy' = copy /\ lib' = lib /\ waived' = waived
  BY DEF Launch, LockFree, Goto, files
<1>3. \A q \in Procs : pc[q] = "idle"
  BY <1>2, TrainAssumption DEF TypeInv, AtStage
<1> DEFINE r == [NoRun EXCEPT !.by = launches + 1, !.opts = flags, !.target = t,
                              !.recipe = recipe, !.from = from]
<1>4. launches + 1 \in Launches
  BY <1>2, TrainAssumption DEF TypeInv, Launches
<1>5. r \in RunRec
  BY <1>4, RecordFacts, LaunchedRecord
<1>6. /\ r.by = launches + 1 /\ r.recipe = recipe /\ r.target = t /\ r.traj = <<>> /\ r.rows = <<>>
      /\ r.opts = flags /\ r.from = from /\ r.backup = 0
  BY DEF NoRun
<1>7. l \in Stages /\ pc \in [Procs -> Stages] /\ run \in [Procs -> RunRec]
  BY DEF TypeInv, Stages, Empty
<1>8. run' \in [Procs -> RunRec] /\ run'[p] = r
  BY <1>1, <1>5, <1>7
<1>9. pc' \in [Procs -> Stages] /\ pc'[p] = l /\ \A q \in Procs \ {p} : pc'[q] = "idle"
  BY <1>2, <1>3, <1>7
<1> HIDE DEF r
<1> QED
  BY <1>2, <1>3, <1>6, <1>8, <1>9 DEF Starts

LEMMA LaunchFreshDoes ==
    ASSUME TypeInv, NEW p \in Procs, LaunchFresh(p)
    PROVE  StartsFresh(p)
<1>1. PICK v \in Invocations, opts \in Options :
          /\ Constructible(v.flags, v.recipe)
          /\ opts \subseteq {"fresh_run_overwrite", "allow_bridge_mismatch"}
          /\ Launch(p, "scan", opts \cup InitMeta(v.flags), v.recipe, None)
  BY DEF LaunchFresh
<1> DEFINE flags == opts \cup InitMeta(v.flags)
<1>2. v.recipe \in Recipes
  BY DEF Recipes
<1>3. flags \in SUBSET Flags /\ "force_history_reset" \notin flags
  BY <1>1 DEF Flags, InitFlags, InitMeta
<1>4. v.recipe.head_lr => "init_from_bc" \in flags /\ v.recipe.head_lr_iters > 0
  BY <1>1, <1>2, RecipeFacts DEF Constructible, InitMeta
<1> HIDE DEF flags
<1>5. Launch(p, "scan", flags, v.recipe, None)
  BY <1>1 DEF flags
<1>6. Starts(p, "scan") /\ run'[p].recipe = v.recipe /\ run'[p].opts = flags
  BY <1>2, <1>3, <1>5, LaunchDoes
<1> QED
  BY <1>4, <1>6 DEF StartsFresh

LEMMA ResumeDoes ==
    ASSUME TypeInv, NEW p \in Procs, NEW from \in {None, State}, Resume(p, from)
    PROVE  Starts(p, "load") /\ run'[p].from = from
<1>1. PICK v \in Invocations, opts \in Options : Launch(p, "load", opts, v.recipe, from)
  BY DEF Resume
<1>2. v.recipe \in Recipes /\ opts \in SUBSET Flags
  BY OptionFacts DEF Recipes
<1>3. "force_history_reset" \in opts => \E o \in Options : "force_history_reset" \in o
  OBVIOUS
<1> QED
  BY <1>1, <1>2, <1>3, LaunchDoes

LEMMA LaunchesDo ==
    ASSUME TypeInv, NEW p \in Procs
    PROVE  /\ LaunchResume(p) => StartsAgain(p)
           /\ LaunchResumeCopy(p) => StartsCopy(p)
<1>1. ASSUME LaunchResume(p) PROVE StartsAgain(p)
  BY <1>1, ResumeDoes DEF LaunchResume, StartsAgain
<1>2. ASSUME LaunchResumeCopy(p) PROVE StartsCopy(p)
  BY <1>2, ResumeDoes DEF LaunchResumeCopy, StartsCopy
<1> QED
  BY <1>1, <1>2

LEMMA LoadDoes ==
    ASSUME TypeInv, NEW p \in Procs, LoadState(p)
    PROVE  Loads(p) \/ (Quits(p) /\ disk' = disk)
<1> DEFINE g == Generation(run[p].from)
           l == IF g.pin = None THEN lib ELSE g.pin
           o == run[p].opts \ {"accept_legacy_unpinned_state"}
           c == [target |-> g.target, echo |-> g.echo]
           r == [run[p] EXCEPT !.id = g.run, !.i = g.next, !.traj = g.traj, !.pin = l, !.opts = o,
                               !.saved = c, !.init = g.init]
<1>1. pc[p] = "load"
  BY DEF LoadState
<1>2. CASE Raise(p)
  BY <1>1, <1>2, RaiseDoes
<1>3. CASE ~Raise(p)
  <2>1. /\ Readable(g) /\ g.seed = run[p].recipe.base_seed /\ (g.pin = None => lib # None)
        /\ run' = [run EXCEPT ![p].id = g.run, ![p].i = g.next, ![p].traj = g.traj,
                              ![p].pin = IF g.pin = None THEN lib ELSE g.pin,
                              ![p].opts = @ \ {"accept_legacy_unpinned_state"},
                              ![p].saved = [target |-> g.target, echo |-> g.echo],
                              ![p].init = g.init]
        /\ waived' = IF Mismatch(p) \/ g.pin = None THEN waived \cup {g.run} ELSE waived
        /\ Goto(p, "bridge")
        /\ UNCHANGED <<files, lock, launches>>
    BY <1>3 DEF LoadState
  <2>2. g \in StateFile
    BY <2>1 DEF Generation, Readable, TypeInv, DiskTypes
  <2>3. run[p] \in RunRec /\ lib \in Libs \cup {None}
    BY DEF TypeInv
  <2> HIDE DEF g
  <2>4. /\ g.run \in Launches /\ g.next \in 0 .. MaxIter + 1 /\ g.traj \in Weights
        /\ g.pin \in Libs \cup {None} /\ g.target \in Targets /\ g.echo \in Echoes
        /\ g.init \in SUBSET InitFlags
    BY <2>2, MaxIterFacts DEF StateFile
  <2>5. r \in RunRec
    <3>1. o \in SUBSET Flags
      BY <2>3 DEF RunRec
    <3>2. c \in SavedRecipe \cup {None}
      BY <2>4 DEF SavedRecipe
    <3>3. l \in Libs \cup {None}
      BY <2>3, <2>4
    <3>4. g.run \in Launches \cup {0}
      BY <2>4
    <3> HIDE DEF l, o, c
    <3> QED
      BY <2>3, <2>4, <3>1, <3>2, <3>3, <3>4, ZenonT(60) DEF RunRec
  <2>6. run' = [run EXCEPT ![p] = r]
    BY <2>1 DEF TypeInv
  <2>7. disk' = [n \in Names |-> disk'[n]] /\ disk' = disk /\ copy' = copy /\ lib' = lib
    BY <2>1 DEF TypeInv, DiskTypes, files
  <2> HIDE DEF r
  <2>8. Passes(p, "load", "bridge") /\ run'[p] = r
    <3>1. "bridge" \in Stages /\ "bridge" # "idle"
      BY DEF Stages, Bound, Comparing
    <3>2. Goto(p, "bridge") /\ lock' = lock /\ launches' = launches
      BY <2>1
    <3>3. pc[p] # "idle"
      BY <1>1
    <3>4. Passes(p, pc[p], "bridge") /\ run'[p] = r
      BY <2>5, <2>6, <2>7, <3>1, <3>2, <3>3, LocalDoes
    <3> QED
      BY <1>1, <3>4
  <2> QED
    BY <2>1, <2>2, <2>3, <2>7, <2>8 DEF Loads, g, r, l, o, c
<1> QED
  BY <1>2, <1>3

LEMMA BridgeDoes ==
    ASSUME TypeInv, NEW p \in Procs, CheckBridge(p)
    PROVE  Moves(p, "bridge", "snapshot") \/ (Quits(p) /\ disk' = disk)
<1>1. pc[p] = "bridge" /\ (Raise(p) \/ (Goto(p, "snapshot") /\ UNCHANGED <<files, lock, run, ghosts>>))
  BY DEF CheckBridge
<1> QED
  BY <1>1, RaiseDoes, GotoDoes DEF Stages, Bound, Comparing

(* A step that writes the directory and keeps the locals. *)
LEMMA WriteDoes ==
    ASSUME TypeInv, NEW p \in Procs, pc[p] # "idle", NEW l \in Stages, l # "idle", Goto(p, l),
           run' = run, disk' = [n \in Names |-> disk'[n]],
           copy' = copy, lib' = lib, lock' = lock, launches' = launches
    PROVE  Passes(p, pc[p], l) /\ run'[p] = run[p]
<1>1. lock = p /\ \A q \in Procs \ {p} : pc[q] = "idle"
  BY Alone
<1>2. pc \in [Procs -> Stages] /\ run \in [Procs -> RunRec]
  BY DEF TypeInv
<1> QED
  BY <1>1, <1>2 DEF Passes, Goto

LEMMA StageFacts ==
    /\ Stages = {"idle", "load", "bridge", "snapshot", "echo", "lineage", "quarantine", "truncate",
                 "scan", "build", "move", "copylib", "loop", "collect", "verify", "save", "unstale",
                 "history", "keep", "swap", "gate"}
    /\ Bound = {"bridge", "snapshot", "echo", "lineage", "quarantine", "truncate", "loop", "collect",
                "verify", "save", "unstale", "history", "keep", "swap", "gate"}
  BY DEF Stages, Bound, Comparing, Accepted, Publishing, Within, Empty

LEMMA BindDoes ==
    ASSUME TypeInv, NEW p \in Procs, BindSnapshot(p)
    PROVE  Binds(p) \/ (Quits(p) /\ disk' = disk)
<1> DEFINE pin == run[p].pin
           snap == disk[Snapshot(pin)]
           bound == IF snap # None THEN pin ELSE lib
           r == [run[p] EXCEPT !.pin = bound]
<1>1. pc[p] = "snapshot"
  BY DEF BindSnapshot
<1>2. CASE Raise(p)
  BY <1>1, <1>2, RaiseDoes
<1>3. CASE ~Raise(p)
  <2>1. /\ snap = None => lib # None
        /\ bound # pin => Mismatch(p)
        /\ disk' = [disk EXCEPT ![Snapshot(bound)] = [content |-> bound]]
        /\ run' = [run EXCEPT ![p].pin = bound]
        /\ Goto(p, "echo") /\ UNCHANGED <<backups, lib, copy, lock, ghosts>>
    BY <1>3 DEF BindSnapshot
  <2>2. pin \in Libs /\ run[p] \in RunRec /\ lib \in Libs \cup {None}
    BY <1>1, BoundFacts, StageFacts DEF TypeInv
  <2>3. bound \in Libs
    BY <2>1, <2>2
  <2> HIDE DEF bound, pin, snap
  <2>4. r \in RunRec
    BY <2>2, <2>3 DEF RunRec
  <2>5. run' = [run EXCEPT ![p] = r]
    BY <2>1 DEF TypeInv
  <2>6. disk' = [n \in Names |-> disk'[n]] /\ Writes(Snapshot(bound), [content |-> bound])
    <3>1. Snapshot(bound) \in Names /\ disk = [n \in Names |-> disk[n]]
      BY <2>3, NameFacts DEF TypeInv, DiskTypes
    <3> QED
      BY <2>1, <3>1, Written
  <2>7. lib' = lib /\ copy' = copy /\ lock' = lock /\ launches' = launches /\ waived' = waived
    BY <2>1 DEF ghosts
  <2> HIDE DEF r
  <2>8. Passes(p, pc[p], "echo") /\ run'[p] = r
    BY <1>1, <2>1, <2>4, <2>5, <2>6, <2>7, LocalDoes, StageFacts
  <2> QED
    BY <1>1, <2>1, <2>3, <2>6, <2>7, <2>8 DEF Binds, pin, r
<1> QED
  BY <1>2, <1>3

LEMMA TargetDoes ==
    ASSUME TypeInv, NEW p \in Procs, CheckTarget(p)
    PROVE  Compares(p) \/ (Quits(p) /\ disk' = disk)
<1> DEFINE r == [run[p] EXCEPT !.saved = None]
<1>1. pc[p] = "echo"
  BY DEF CheckTarget
<1>2. CASE Raise(p)
  BY <1>1, <1>2, RaiseDoes
<1>3. CASE ~Raise(p)
  <2>1. /\ SameRecipe(Echo(run[p].recipe), run[p].saved.echo)
        /\ ~(run[p].i > run[p].target) /\ run' = [run EXCEPT ![p].saved = None]
        /\ Goto(p, "lineage") /\ UNCHANGED <<files, lock, ghosts>>
    BY <1>3 DEF CheckTarget
  <2>2. run[p].i \in 1 .. MaxIter + 1 /\ run[p] \in RunRec /\ run[p].target \in Targets
    BY <1>1, BoundFacts, Alone, StageFacts
  <2>3. r \in RunRec
    BY <2>2 DEF RunRec
  <2>4. run' = [run EXCEPT ![p] = r]
    BY <2>1 DEF TypeInv
  <2>5. disk' = [n \in Names |-> disk'[n]] /\ disk' = disk /\ lib' = lib /\ copy' = copy /\ lock' = lock
        /\ launches' = launches /\ waived' = waived
    BY <2>1 DEF ghosts, files, TypeInv, DiskTypes
  <2>6. run[p].i <= run[p].target
    BY <2>1, <2>2, MaxIterFacts, TrainAssumption
  <2> HIDE DEF r
  <2>8. Passes(p, pc[p], "lineage") /\ run'[p] = r
    BY <1>1, <2>1, <2>3, <2>4, <2>5, LocalDoes, StageFacts
  <2> QED
    BY <1>1, <2>1, <2>5, <2>6, <2>8 DEF Compares, r
<1> QED
  BY <1>2, <1>3

-----------------------------------------------------------------------------
(* What RowsBefore keeps. *)

InRow(rows) == \A k \in DOMAIN rows : rows[k].iteration = rows[1].iteration + k - 1
LastRow(rows) == rows[Len(rows)].iteration
Reaches(rows, n) == rows # <<>> => n <= LastRow(rows) + 1
EndsBefore(rows, n) == InRow(rows) /\ (rows # <<>> => LastRow(rows) = n - 1)

LEMMA SubsetOfInterval ==
    ASSUME NEW n \in Nat, NEW S \in SUBSET (1 .. n)
    PROVE  IsFiniteSet(S) /\ Cardinality(S) \in Nat
<1>1. IsFiniteSet(1 .. n)
  BY FS_Interval
<1>2. IsFiniteSet(S)
  BY <1>1, FS_Subset
<1> QED
  BY <1>2, FS_CardinalityType

(* The j-th of a finite set of indices is one of them. *)
LEMMA NthOf ==
    ASSUME NEW n \in Nat, NEW S \in SUBSET (1 .. n)
    PROVE  \A j \in 1 .. Cardinality(S) : \E k \in S : Cardinality({m \in S : m <= k}) = j
<1> DEFINE upTo(k) == {m \in S : m <= k}
           f == [k \in S |-> Cardinality(upTo(k))]
           T == 1 .. Cardinality(S)
<1>1. IsFiniteSet(S) /\ Cardinality(S) \in Nat
  BY SubsetOfInterval
<1>2. \A k \in S : IsFiniteSet(upTo(k)) /\ Cardinality(upTo(k)) \in Nat
  <2> TAKE k \in S
  <2>1. upTo(k) \in SUBSET (1 .. n)
    OBVIOUS
  <2> HIDE DEF upTo
  <2> QED
    BY <2>1, SubsetOfInterval
<1>3. \A k \in S : Cardinality(upTo(k)) \in T
  <2> TAKE k \in S
  <2>1. upTo(k) \in SUBSET S /\ k \in upTo(k)
    OBVIOUS
  <2>2. Cardinality(upTo(k)) <= Cardinality(S)
    <3> HIDE DEF upTo
    <3> QED
      BY <1>1, <2>1, FS_Subset
  <2>3. Cardinality(upTo(k)) # 0
    <3> HIDE DEF upTo
    <3> QED
      BY <1>2, <2>1, FS_EmptySet
  <2> HIDE DEF upTo
  <2> QED
    BY <1>1, <1>2, <2>2, <2>3
<1>4. \A k, l \in S : k < l => Cardinality(upTo(k)) < Cardinality(upTo(l))
  <2> TAKE k, l \in S
  <2> HAVE k < l
  <2>1. upTo(k) \in SUBSET upTo(l) /\ l \in upTo(l) /\ l \notin upTo(k)
    <3>1. \A m \in S : m \in Int
      OBVIOUS
    <3>2. \A m \in S : m <= k => m <= l
      BY <3>1
    <3>3. ~(l <= k) /\ l <= l
      BY <3>1
    <3>4. upTo(k) \in SUBSET upTo(l)
      BY <3>2
    <3>5. l \in upTo(l)
      BY <3>3
    <3>6. l \notin upTo(k)
      BY <3>3
    <3> QED
      BY <3>4, <3>5, <3>6
  <2> HIDE DEF upTo
  <2>2. Cardinality(upTo(k)) <= Cardinality(upTo(l)) /\ Cardinality(upTo(k)) # Cardinality(upTo(l))
    BY <1>2, <2>1, FS_Subset
  <2> QED
    BY <1>2, <2>2
<1> HIDE DEF upTo
<1>5. f \in Injection(S, T)
  <2>1. f \in [S -> T]
    BY <1>3
  <2>2. ASSUME NEW k \in S, NEW l \in S, f[k] = f[l] PROVE k = l
    <3>1. Cardinality(upTo(k)) = Cardinality(upTo(l))
      BY <2>2
    <3>2. k \in Int /\ l \in Int /\ Cardinality(upTo(k)) \in Nat
      BY <1>2
    <3>3. ~(k < l) /\ ~(l < k)
      BY <1>2, <1>4, <3>1
    <3> QED
      BY <3>2, <3>3
  <2> HIDE DEF f
  <2> QED
    BY <2>1, <2>2 DEF Injection, IsInjective
<1>6. IsFiniteSet(T) /\ Cardinality(T) = Cardinality(S)
  BY <1>1, FS_Interval
<1>7. f \in Surjection(S, T)
  <2> HIDE DEF f, T
  <2> QED
    BY <1>5, <1>6, FS_Injection
<1>8. \A j \in T : \E k \in S : f[k] = j
  <2> HIDE DEF f, T
  <2> QED
    BY <1>7 DEF Surjection
<1> QED
  BY <1>8 DEF upTo

LEMMA RowFacts ==
    /\ \A rows \in Rows : /\ Len(rows) \in Nat /\ DOMAIN rows = 1 .. Len(rows)
                         /\ \A k \in 1 .. Len(rows) : rows[k] \in Row
                         /\ rows = <<>> <=> Len(rows) = 0
    /\ \A r \in Row : r.iteration \in 1 .. MaxIter /\ r.iteration \in Nat
    /\ \A n \in Nat : \A f \in [1 .. n -> Row] : f \in Rows /\ Len(f) = n
<1>1. \A r \in Row : r.iteration \in 1 .. MaxIter
  BY DEF Row
<1>2. MaxIter \in Nat
  BY MaxIterFacts
<1>3. \A n \in Nat : \A f \in [1 .. n -> Row] : f \in Rows /\ Len(f) = n
  BY DEF Rows
<1>4. \A rows \in Rows : /\ Len(rows) \in Nat /\ DOMAIN rows = 1 .. Len(rows)
                         /\ \A k \in 1 .. Len(rows) : rows[k] \in Row
                         /\ rows = <<>> <=> Len(rows) = 0
  BY DEF Rows
<1> QED
  BY <1>1, <1>2, <1>3, <1>4

LEMMA RowsBeforeType ==
    ASSUME NEW rows \in Rows, NEW n \in Int
    PROVE  RowsBefore(rows, n) \in Rows
<1> DEFINE kept == {k \in DOMAIN rows : rows[k].iteration < n}
           nth(j) == CHOOSE k \in kept : Cardinality({m \in kept : m <= k}) = j
<1>0. Len(rows) \in Nat /\ DOMAIN rows = 1 .. Len(rows)
  BY RowFacts
<1>1. Len(rows) \in Nat /\ kept \in SUBSET (1 .. Len(rows))
      /\ \A k \in 1 .. Len(rows) : rows[k] \in Row
  <2>1. \A k \in 1 .. Len(rows) : rows[k] \in Row
    BY ElementOfSeq DEF Rows
  <2>2. kept \in SUBSET (1 .. Len(rows))
    BY <1>0
  <2> QED
    BY <1>0, <2>1, <2>2
<1> HIDE DEF kept
<1>2. Cardinality(kept) \in Nat
  BY <1>1, SubsetOfInterval
<1>3. \A j \in 1 .. Cardinality(kept) : nth(j) \in kept
  BY <1>1, NthOf
<1> HIDE DEF nth
<1>4. [j \in 1 .. Cardinality(kept) |-> rows[nth(j)]] \in Rows
  <2>1. \A j \in 1 .. Cardinality(kept) : nth(j) \in 1 .. Len(rows)
    BY <1>1, <1>3
  <2>2. [j \in 1 .. Cardinality(kept) |-> rows[nth(j)]] \in [1 .. Cardinality(kept) -> Row]
    BY <1>1, <2>1
  <2> QED
    BY <1>2, <2>2, RowFacts
<1> QED
  BY <1>4 DEF RowsBefore, kept, nth

(* Of consecutive rows that reach the resume point, those before it remain. *)
LEMMA RowsBeforeEnds ==
    ASSUME NEW rows \in Rows, NEW n \in Nat, InRow(rows), Reaches(rows, n)
    PROVE  EndsBefore(RowsBefore(rows, n), n)
<1> DEFINE kept == {k \in DOMAIN rows : rows[k].iteration < n}
           nth(j) == CHOOSE k \in kept : Cardinality({m \in kept : m <= k}) = j
           size == Len(rows)
           first == rows[1].iteration
           c == IF rows = <<>> \/ n <= first THEN 0 ELSE n - first
<1>1. size \in Nat /\ DOMAIN rows = 1 .. size
  BY RowFacts
<1>2. \A k \in 1 .. size : rows[k].iteration \in Nat /\ rows[k].iteration = first + k - 1
  <2>1. \A k \in 1 .. size : rows[k] \in Row
    BY ElementOfSeq DEF Rows
  <2>2. \A k \in 1 .. size : rows[k].iteration = first + k - 1
    BY <1>1 DEF InRow
  <2> QED
    BY <2>1, <2>2, RowFacts
<1>3. rows = <<>> => size = 0
  OBVIOUS
<1>4. rows # <<>> => size > 0 /\ first \in Nat /\ n <= first + size
  <2> HAVE rows # <<>>
  <2>1. size > 0
    BY <1>1, RowFacts
  <2> QED
    BY <1>1, <1>2, <2>1 DEF Reaches, LastRow
<1>5. c \in Nat /\ c <= size /\ kept = 1 .. c
  <2>1. CASE rows = <<>> \/ n <= first
    BY <1>1, <1>2, <1>3, <2>1
  <2>2. CASE ~(rows = <<>> \/ n <= first)
    <3>1. c = n - first /\ first \in Nat /\ n <= first + size /\ n > first
      BY <1>4, <2>2
    <3>2. \A k \in 1 .. size : rows[k].iteration < n <=> k <= c
      BY <1>1, <1>2, <3>1
    <3> QED
      BY <1>1, <3>1, <3>2
  <2> QED
    BY <2>1, <2>2
<1>6. c > 0 => n = first + c /\ first \in Nat
  BY <1>4, <1>5
<1> HIDE DEF kept, c
<1>7. Cardinality(kept) = c
  BY <1>5, FS_Interval
<1>8. \A j \in 1 .. c : nth(j) = j
  <2> TAKE j \in 1 .. c
  <2>1. \A k \in kept : Cardinality({m \in kept : m <= k}) = k
    <3> TAKE k \in kept
    <3>1. {m \in kept : m <= k} = 1 .. k /\ k \in Nat
      BY <1>5
    <3>2. Cardinality(1 .. k) = k
      BY <1>5, <3>1, FS_Interval
    <3> QED
      BY <3>1, <3>2
  <2> QED
    BY <1>5, <2>1
<1> HIDE DEF nth
<1>9. RowsBefore(rows, n) = [j \in 1 .. c |-> rows[j]]
  <2>1. RowsBefore(rows, n) = [j \in 1 .. c |-> rows[nth(j)]]
    BY <1>7 DEF RowsBefore, kept, nth
  <2> QED
    BY <1>8, <2>1
<1> DEFINE some == [j \in 1 .. c |-> rows[j]]
<1>10. some \in Rows /\ Len(some) = c /\ DOMAIN some = 1 .. c
  <2>1. some \in [1 .. c -> Row]
    <3>1. \A j \in 1 .. c : rows[j] \in Row
      BY <1>1, <1>5, ElementOfSeq DEF Rows
    <3> QED
      BY <3>1
  <2> QED
    BY <1>5, <2>1, RowFacts
<1>11. \A j \in 1 .. c : some[j].iteration = first + j - 1
  BY <1>1, <1>2, <1>5
<1>12. InRow(some)
  BY <1>5, <1>10, <1>11 DEF InRow
<1>13. some # <<>> => LastRow(some) = n - 1
  <2> HAVE some # <<>>
  <2>1. c > 0
    BY <1>5, <1>10, RowFacts
  <2>2. some[c].iteration = first + c - 1 /\ n = first + c /\ first \in Nat
    BY <1>5, <1>6, <1>11, <2>1
  <2> QED
    BY <1>5, <1>10, <2>2 DEF LastRow
<1> QED
  BY <1>9, <1>12, <1>13 DEF EndsBefore

-----------------------------------------------------------------------------
LEMMA HistoryDoes ==
    ASSUME TypeInv, NEW p \in Procs, LoadHistory(p)
    PROVE  Reads(p) \/ (Quits(p) /\ disk' = disk)
<1> DEFINE rows == IF disk[Hist] = None THEN <<>> ELSE RowsBefore(disk[Hist].rows, run[p].i)
           r == [run[p] EXCEPT !.rows = rows]
<1>1. pc[p] = "lineage"
  BY DEF LoadHistory
<1>2. CASE Raise(p)
  BY <1>1, <1>2, RaiseDoes
<1>3. CASE ~Raise(p)
  <2>1. /\ "force_history_reset" \in run[p].opts \/ OneLineageOnDisk(run[p].id, run[p].from)
        /\ disk[Hist] # None => disk[Hist].run = run[p].id
        /\ run' = [run EXCEPT ![p].rows = rows]
        /\ Goto(p, "quarantine") /\ UNCHANGED <<files, lock, ghosts>>
    BY <1>3 DEF LoadHistory
  <2>2. run[p].i \in Int /\ run[p] \in RunRec
    BY <1>1, BoundFacts, Alone, StageFacts, MaxIterFacts
  <2>3. rows \in Rows
    <3>1. disk[Hist] # None => disk[Hist].rows \in Rows
      BY DEF TypeInv, DiskTypes, HistFile
    <3> QED
      BY <2>2, <3>1, RowsBeforeType, RecordFacts
  <2> HIDE DEF rows
  <2>4. r \in RunRec
    BY <2>2, <2>3 DEF RunRec
  <2>5. run' = [run EXCEPT ![p] = r]
    BY <2>1 DEF TypeInv
  <2>6. disk' = [n \in Names |-> disk'[n]] /\ disk' = disk /\ lib' = lib /\ copy' = copy /\ lock' = lock
        /\ launches' = launches /\ waived' = waived
    BY <2>1 DEF ghosts, files, TypeInv, DiskTypes
  <2> HIDE DEF r
  <2>7. Passes(p, pc[p], "quarantine") /\ run'[p] = r
    <3>1. Goto(p, "quarantine") /\ pc[p] # "idle" /\ "quarantine" \in Stages
      BY <1>1, <2>1, StageFacts
    <3> QED
      BY <2>4, <2>5, <2>6, <3>1, LocalDoes
  <2> QED
    BY <1>1, <2>1, <2>6, <2>7 DEF Reads, r, rows
<1> QED
  BY <1>2, <1>3

LEMMA QuarantineDoes ==
    ASSUME TypeInv, NEW p \in Procs, Quarantine(p)
    PROVE  SetsAside(p) \/ (Moves(p, "quarantine", "truncate") /\ Outdated(p) = {})
<1>1. pc[p] = "quarantine"
  BY DEF Quarantine
<1>2. CASE Outdated(p) = {}
  BY <1>1, <1>2, GotoDoes, StageFacts DEF Quarantine
<1>3. CASE Outdated(p) # {}
  <2>1. PICK n \in Outdated(p) :
              /\ disk' = [disk EXCEPT ![Stale(n)] = disk[Iter(n)], ![Iter(n)] = None]
              /\ run' = [run EXCEPT ![p].pending = @ \cup {n}]
              /\ UNCHANGED <<backups, lib, copy, lock, pc, ghosts>>
    BY <1>3 DEF Quarantine
  <2> DEFINE r == [run[p] EXCEPT !.pending = @ \cup {n}]
  <2>2. n \in 1 .. MaxIter /\ disk[Iter(n)] # None
    BY DEF Outdated
  <2>3. Stale(n) \in Names /\ Iter(n) \in Names /\ Stale(n) # Iter(n)
    BY <2>2, NameFacts
  <2>4. run[p] \in RunRec /\ pc \in [Procs -> Stages]
    BY DEF TypeInv
  <2>5. r \in RunRec
    BY <2>2, <2>4 DEF RunRec
  <2>6. run' = [run EXCEPT ![p] = r]
    BY <2>1 DEF TypeInv
  <2>7. disk = [m \in Names |-> disk[m]]
    BY DEF TypeInv, DiskTypes
  <2>8. /\ disk' = [m \in Names |-> disk'[m]]
        /\ disk'[Stale(n)] = disk[Iter(n)] /\ disk'[Iter(n)] = None
        /\ \A m \in Names \ {Stale(n), Iter(n)} : disk'[m] = disk[m]
    BY <2>1, <2>3, <2>7
  <2>9. lib' = lib /\ copy' = copy /\ lock' = lock /\ launches' = launches /\ waived' = waived /\ pc' = pc
    BY <2>1 DEF ghosts
  <2>10. Goto(p, "quarantine")
    BY <1>1, <2>4, <2>9 DEF Goto
  <2> HIDE DEF r
  <2>11. Passes(p, pc[p], "quarantine") /\ run'[p] = r
    <3>1. pc[p] # "idle" /\ "quarantine" \in Stages /\ disk' = [m \in Names |-> disk'[m]]
      BY <1>1, <2>8, StageFacts
    <3> QED
      BY <2>5, <2>6, <2>9, <2>10, <3>1, LocalDoes
  <2> QED
    BY <1>1, <2>2, <2>8, <2>9, <2>11 DEF SetsAside, r
<1> QED
  BY <1>2, <1>3

LEMMA TruncateDoes ==
    ASSUME TypeInv, NEW p \in Procs, TruncateHistory(p)
    PROVE  Truncates(p)
<1>1. /\ pc[p] = "truncate" /\ disk' = [disk EXCEPT ![Hist] = [run |-> run[p].id, rows |-> run[p].rows]]
      /\ Goto(p, "loop") /\ UNCHANGED <<backups, lib, copy, lock, run, ghosts>>
  BY DEF TruncateHistory
<1>2. lib' = lib /\ copy' = copy /\ lock' = lock /\ launches' = launches /\ waived' = waived /\ run' = run
  BY <1>1 DEF ghosts
<1>3. disk' = [m \in Names |-> disk'[m]] /\ Writes(Hist, [run |-> run[p].id, rows |-> run[p].rows])
  BY <1>1, NameFacts, Written DEF TypeInv, DiskTypes
<1>4. Passes(p, pc[p], "loop") /\ run'[p] = run[p]
  BY <1>1, <1>2, <1>3, WriteDoes, StageFacts
<1> QED
  BY <1>1, <1>2, <1>3, <1>4 DEF Truncates

LEMMA ScanDoes ==
    ASSUME TypeInv, NEW p \in Procs, Scan(p)
    PROVE  Moves(p, "scan", "build") \/ (Quits(p) /\ disk' = disk)
<1>1. pc[p] = "scan" /\ (Raise(p) \/ (Goto(p, "build") /\ UNCHANGED <<files, lock, run, ghosts>>))
  BY DEF Scan
<1> QED
  BY <1>1, RaiseDoes, GotoDoes, StageFacts

LEMMA BuildDoes ==
    ASSUME TypeInv, NEW p \in Procs, Build(p)
    PROVE  Builds(p) \/ (Quits(p) /\ disk' = disk)
<1> DEFINE b == IF Managed = {} THEN 0 ELSE run[p].by
           r == [run[p] EXCEPT !.pin = lib, !.backup = b]
<1>1. pc[p] = "build"
  BY DEF Build
<1>2. CASE Raise(p)
  BY <1>1, <1>2, RaiseDoes
<1>3. CASE ~Raise(p)
  <2>1. /\ lib # None /\ run' = [run EXCEPT ![p].pin = lib, ![p].backup = b]
        /\ Goto(p, "move") /\ UNCHANGED <<disk, lib, copy, lock, ghosts>>
    BY <1>3 DEF Build, files
  <2>2. run[p] \in RunRec /\ run[p].by \in Launches /\ lib \in Libs
    BY <1>1, <2>1, Alone DEF TypeInv
  <2>3. b \in Launches \cup {0}
    BY <2>2
  <2> HIDE DEF b
  <2>4. r \in RunRec
    BY <2>2, <2>3 DEF RunRec
  <2>5. run' = [run EXCEPT ![p] = r]
    BY <2>1 DEF TypeInv
  <2>6. disk' = [n \in Names |-> disk'[n]] /\ disk' = disk /\ lib' = lib /\ copy' = copy /\ lock' = lock
        /\ launches' = launches /\ waived' = waived
    BY <2>1 DEF ghosts, TypeInv, DiskTypes
  <2> HIDE DEF r
  <2>7. Passes(p, pc[p], "move") /\ run'[p] = r
    BY <1>1, <2>1, <2>4, <2>5, <2>6, LocalDoes, StageFacts
  <2> QED
    BY <1>1, <2>2, <2>6, <2>7 DEF Builds, r, b
<1> QED
  BY <1>2, <1>3

LEMMA MoveDoes ==
    ASSUME TypeInv, NEW p \in Procs, MoveAway(p)
    PROVE  MovesAway(p) \/ (Moves(p, "move", "copylib") /\ (Managed = {} \/ run[p].backup = 0))
<1>1. pc[p] = "move"
  BY DEF MoveAway
<1>2. CASE Managed = {} \/ run[p].backup = 0
  BY <1>1, <1>2, GotoDoes, StageFacts DEF MoveAway
<1>3. CASE ~(Managed = {} \/ run[p].backup = 0)
  <2>1. PICK n \in Managed :
              /\ \A m \in Managed : Rank(n) <= Rank(m)
              /\ disk' = [disk EXCEPT ![n] = None]
              /\ UNCHANGED <<lib, copy, lock, pc, run, ghosts>>
    BY <1>3 DEF MoveAway
  <2>2. n \in Names /\ disk[n] # None /\ \A m \in Names : disk[m] # None => Rank(n) <= Rank(m)
    BY <2>1 DEF Managed
  <2>3. disk' = [m \in Names |-> disk'[m]] /\ Writes(n, None)
    BY <2>1, <2>2, Written DEF TypeInv, DiskTypes
  <2>4. lib' = lib /\ copy' = copy /\ lock' = lock /\ launches' = launches /\ waived' = waived
        /\ pc' = pc /\ run' = run
    BY <2>1 DEF ghosts
  <2>5. Goto(p, "move")
    BY <1>1, <2>4 DEF Goto, TypeInv
  <2>6. Passes(p, pc[p], "move") /\ run'[p] = run[p]
    BY <1>1, <2>3, <2>4, <2>5, WriteDoes, StageFacts
  <2> QED
    BY <1>1, <1>3, <2>2, <2>3, <2>4, <2>6 DEF MovesAway
<1> QED
  BY <1>2, <1>3

LEMMA FreshDoes ==
    ASSUME TypeInv, NEW p \in Procs, StartFresh(p)
    PROVE  StartsRun(p)
<1> DEFINE o == run[p].opts \cap {"allow_bridge_mismatch"}
           m == run[p].opts \cap {"scratch", "champion", "init_from_bc"}
           r == [run[p] EXCEPT !.id = run[p].by, !.i = 1, !.opts = o, !.init = m]
<1>1. /\ pc[p] = "copylib"
      /\ disk' = [disk EXCEPT ![Snapshot(run[p].pin)] = [content |-> run[p].pin]]
      /\ run' = [run EXCEPT ![p].id = run[p].by, ![p].i = 1, ![p].opts = @ \cap {"allow_bridge_mismatch"},
                            ![p].init = m]
      /\ waived' = IF Mismatch(p) THEN waived \cup {run[p].by} ELSE waived
      /\ Goto(p, "loop")
      /\ UNCHANGED <<backups, lib, copy, lock, launches>>
  BY DEF StartFresh
<1>2. run[p].pin \in Libs /\ run[p] \in RunRec /\ run[p].by \in Launches
  BY <1>1, Alone DEF TypeInv, AtStage
<1>3. o \in SUBSET Flags /\ m \in SUBSET InitFlags /\ 1 \in 0 .. MaxIter + 1
  BY <1>2, MaxIterFacts DEF RunRec, Flags, InitFlags
<1>4. r \in RunRec
  <2> HIDE DEF o, m
  <2>1. run[p].by \in Launches \cup {0}
    BY <1>2
  <2> QED
    BY <1>2, <1>3, <2>1, ZenonT(60) DEF RunRec
<1>5. run' = [run EXCEPT ![p] = r]
  BY <1>1 DEF TypeInv
<1>6. disk' = [n \in Names |-> disk'[n]] /\ Writes(Snapshot(run[p].pin), [content |-> run[p].pin])
  <2>1. Snapshot(run[p].pin) \in Names /\ disk = [n \in Names |-> disk[n]]
    BY <1>2, NameFacts DEF TypeInv, DiskTypes
  <2> QED
    BY <1>1, <2>1, Written
<1>7. lib' = lib /\ copy' = copy /\ lock' = lock /\ launches' = launches
  BY <1>1
<1> HIDE DEF r
<1>8. Passes(p, pc[p], "loop") /\ run'[p] = r
  <2>1. Goto(p, "loop") /\ pc[p] # "idle"
    BY <1>1
  <2> QED
    BY <2>1, <1>4, <1>5, <1>6, <1>7, LocalDoes, StageFacts
<1> QED
  BY <1>1, <1>6, <1>8 DEF StartsRun, r, o, m

LEMMA BeginDoes ==
    ASSUME TypeInv, NEW p \in Procs, BeginIteration(p)
    PROVE  \/ Moves(p, "loop", "collect") /\ run[p].i <= run[p].target /\ Unchanged(p)
           \/ Quits(p) /\ disk' = disk
<1>1. /\ pc[p] = "loop" /\ run[p].i <= run[p].target
      /\ \/ Unchanged(p) /\ Goto(p, "collect") /\ UNCHANGED <<files, lock, run, ghosts>>
         \/ Raise(p)
  BY DEF BeginIteration
<1> QED
  BY <1>1, RaiseDoes, GotoDoes, StageFacts

LEMMA CollectDoes ==
    ASSUME TypeInv, NEW p \in Procs, CollectAndUpdate(p)
    PROVE  Collects(p) \/ (Quits(p) /\ disk' = disk)
<1>1. pc[p] = "collect"
  BY DEF CollectAndUpdate
<1>2. CASE Raise(p)
  BY <1>1, <1>2, RaiseDoes
<1>3. CASE ~Raise(p)
  <2>1. PICK moved \in BOOLEAN :
            /\ Loaded(p) # None
            /\ run' = [run EXCEPT ![p].traj =
                          Append(@, [by |-> run[p].by, lib |-> Loaded(p).content, recipe |-> run[p].recipe,
                                     rate |-> Rate(p), moved |-> moved])]
            /\ Goto(p, "verify")
            /\ UNCHANGED <<files, lock, launches, lastSaved, damaged, waived>>
    BY <1>3 DEF CollectAndUpdate
  <2> DEFINE u == [by |-> run[p].by, lib |-> Loaded(p).content, recipe |-> run[p].recipe,
                   rate |-> Rate(p), moved |-> moved]
             w == Append(run[p].traj, u)
             r == [run[p] EXCEPT !.traj = w]
  <2>2. /\ run[p].by \in Launches /\ run[p].recipe \in Recipes /\ run[p] \in RunRec
        /\ disk[Snapshot(run[p].pin)] \in [content : Libs] \cup {None}
    BY <1>1, Alone, BoundFacts, StageFacts
  <2>3. u \in Update
    <3>1. Loaded(p).content \in Libs
      BY <2>1, <2>2 DEF Loaded
    <3>2. Rate(p) \in {"lr", "head_lr"}
      BY DEF Rate
    <3> QED
      BY <2>2, <3>1, <3>2 DEF Update
  <2> HIDE DEF u
  <2>4. w \in Weights
    BY <2>2, <2>3 DEF RunRec, Weights
  <2>5. run' = [run EXCEPT ![p] = r]
    BY <2>1 DEF TypeInv, u
  <2> HIDE DEF w
  <2>6. r \in RunRec
    BY <2>2, <2>4 DEF RunRec
  <2>7. disk' = [n \in Names |-> disk'[n]] /\ disk' = disk /\ lib' = lib /\ copy' = copy /\ lock' = lock
        /\ launches' = launches /\ waived' = waived
    BY <2>1 DEF files, TypeInv, DiskTypes
  <2>8. Goto(p, "verify") /\ pc[p] # "idle" /\ "verify" \in Stages
    BY <1>1, <2>1, StageFacts
  <2> HIDE DEF r
  <2>9. Passes(p, pc[p], "verify") /\ run'[p] = r
    BY <2>5, <2>6, <2>7, <2>8, LocalDoes
  <2>10. run'[p] = [run[p] EXCEPT !.traj =
                       Append(@, [by |-> run[p].by, lib |-> Loaded(p).content, recipe |-> run[p].recipe,
                                  rate |-> Rate(p), moved |-> moved])]
    BY <2>9 DEF r, w, u
  <2> QED
    BY <1>1, <2>1, <2>7, <2>9, <2>10 DEF Collects, Loaded
<1> QED
  BY <1>2, <1>3

LEMMA VerifyDoes ==
    ASSUME TypeInv, NEW p \in Procs, VerifyAgain(p)
    PROVE  (Moves(p, "verify", "save") /\ Unchanged(p)) \/ (Quits(p) /\ disk' = disk)
<1>1. /\ pc[p] = "verify"
      /\ \/ Unchanged(p) /\ Goto(p, "save") /\ UNCHANGED <<files, lock, run, ghosts>>
         \/ Raise(p)
  BY DEF VerifyAgain
<1> QED
  BY <1>1, RaiseDoes, GotoDoes, StageFacts

(* An iteration that has begun is within the target. *)
LEMMA WithinFacts ==
    ASSUME TypeInv, NEW p \in Procs, pc[p] \in Within
    PROVE  run[p].i \in 1 .. MaxIter /\ run[p].i <= run[p].target
<1>1. run[p].i \in 1 .. MaxIter + 1 /\ run[p].target \in Targets /\ run[p].i <= run[p].target
  BY StageFacts DEF TypeInv, AtStage, Within
<1>2. MaxIter \in Nat /\ run[p].target \in 1 .. MaxIter
  BY <1>1, MaxIterFacts
<1>3. \A i \in 1 .. MaxIter + 1 : i <= run[p].target => i \in 1 .. MaxIter
  BY <1>2
<1> QED
  BY <1>1, <1>3

LEMMA SaveDoes ==
    ASSUME TypeInv, NEW p \in Procs, SaveIter(p)
    PROVE  Saves(p)
<1> DEFINE c == [run |-> run[p].id, traj |-> run[p].traj, init |-> run[p].init]
<1>1. /\ pc[p] = "save" /\ disk' = [disk EXCEPT ![Iter(run[p].i)] = c]
      /\ Goto(p, "unstale") /\ UNCHANGED <<backups, lib, copy, lock, run, ghosts>>
  BY DEF SaveIter
<1>2. lib' = lib /\ copy' = copy /\ lock' = lock /\ launches' = launches /\ waived' = waived /\ run' = run
  BY <1>1 DEF ghosts
<1>3. Iter(run[p].i) \in Names /\ disk = [n \in Names |-> disk[n]]
  BY <1>1, WithinFacts, NameFacts DEF TypeInv, DiskTypes, Within
<1> HIDE DEF c
<1>4. disk' = [m \in Names |-> disk'[m]] /\ Writes(Iter(run[p].i), c)
  BY <1>1, <1>3, Written
<1>5. Passes(p, pc[p], "unstale") /\ run'[p] = run[p]
  BY <1>1, <1>2, <1>4, WriteDoes, StageFacts
<1> QED
  BY <1>1, <1>2, <1>4, <1>5 DEF Saves, c

LEMMA StaleDoes ==
    ASSUME TypeInv, NEW p \in Procs, DropStale(p)
    PROVE  Unstales(p)
<1>1. pc[p] = "unstale" /\ Goto(p, "history") /\ UNCHANGED <<lib, copy, lock, ghosts>>
  BY DEF DropStale
<1>2. PICK b \in {0, run[p].backup} :
          run' = [run EXCEPT ![p].pending = @ \ {run[p].i}, ![p].backup = b]
  <2>1. CASE StateEvery = 0
    BY <2>1 DEF DropStale
  <2>2. CASE StateEvery # 0
    <3>1. run' = [run EXCEPT ![p].pending = @ \ {run[p].i}]
      BY <2>2 DEF DropStale
    <3>2. run[p] \in RunRec /\ run \in [Procs -> RunRec]
      BY DEF TypeInv
    <3>3. [run[p] EXCEPT !.pending = @ \ {run[p].i}, !.backup = run[p].backup]
          = [run[p] EXCEPT !.pending = @ \ {run[p].i}]
      BY <3>2 DEF RunRec
    <3>4. run' = [run EXCEPT ![p].pending = @ \ {run[p].i}, ![p].backup = run[p].backup]
      BY <3>1, <3>2, <3>3
    <3> QED
      BY <3>4
  <2> QED
    BY <2>1, <2>2
<1> DEFINE q == run[p].pending \ {run[p].i}
           r == [run[p] EXCEPT !.pending = q, !.backup = b]
<1>3. run[p] \in RunRec /\ b \in Launches \cup {0} /\ q \in SUBSET (1 .. MaxIter)
  BY DEF TypeInv, RunRec
<1>4. run' = [run EXCEPT ![p] = r]
  BY <1>2 DEF TypeInv
<1> HIDE DEF q
<1>5. r \in RunRec
  BY <1>3 DEF RunRec
<1>6. run[p].i \in 1 .. MaxIter
  BY <1>1, WithinFacts DEF Within
<1>7. /\ disk' = [m \in Names |-> disk'[m]]
      /\ \A m \in Names : m # Stale(run[p].i) => disk'[m] = disk[m]
  <2>1. disk' = disk \/ disk' = [disk EXCEPT ![Stale(run[p].i)] = None]
    BY DEF DropStale
  <2>2. disk = [m \in Names |-> disk[m]] /\ Stale(run[p].i) \in Names
    BY <1>6, NameFacts DEF TypeInv, DiskTypes
  <2> QED
    BY <2>1, <2>2
<1>8. SameHist /\ SameGens /\ SameIters /\ SameSnaps
  BY <1>6, <1>7, NameFacts DEF SameHist, SameGens, SameIters, SameSnaps
<1>9. lib' = lib /\ copy' = copy /\ lock' = lock /\ launches' = launches /\ waived' = waived
  BY <1>1 DEF ghosts
<1>10. Goto(p, "history") /\ pc[p] # "idle" /\ "history" \in Stages /\ disk' = [m \in Names |-> disk'[m]]
  BY <1>1, <1>7, StageFacts
<1> HIDE DEF r
<1>11. Passes(p, pc[p], "history") /\ run'[p] = r
  BY <1>4, <1>5, <1>9, <1>10, LocalDoes
<1> QED
  BY <1>1, <1>8, <1>9, <1>11 DEF Unstales, r, q

LEMMA RecordDoes ==
    ASSUME TypeInv, NEW p \in Procs, SaveHistory(p)
    PROVE  Records(p)
<1> DEFINE row == [iteration |-> run[p].i, traj |-> run[p].traj]
           rows == Append(run[p].rows, row)
           h == [run |-> run[p].id, rows |-> rows]
           r == [run[p] EXCEPT !.rows = rows]
           l == IF SaveDue(p) THEN "keep" ELSE "gate"
<1>1. /\ pc[p] = "history" /\ run' = [run EXCEPT ![p].rows = rows] /\ disk' = [disk EXCEPT ![Hist] = h]
      /\ Goto(p, l) /\ UNCHANGED <<backups, lib, copy, lock, ghosts>>
  BY DEF SaveHistory
<1>2. run[p] \in RunRec /\ run[p].i \in 1 .. MaxIter
  BY <1>1, WithinFacts DEF TypeInv, Within
<1>3. row \in Row
  BY <1>2 DEF Row, RunRec
<1> HIDE DEF row
<1>4. rows \in Rows
  BY <1>2, <1>3 DEF RunRec, Rows
<1>5. run' = [run EXCEPT ![p] = r]
  BY <1>1 DEF TypeInv
<1> HIDE DEF rows
<1>6. r \in RunRec
  BY <1>2, <1>4 DEF RunRec
<1> HIDE DEF h
<1>7. disk' = [m \in Names |-> disk'[m]] /\ Writes(Hist, h)
  BY <1>1, NameFacts, Written DEF TypeInv, DiskTypes
<1>8. lib' = lib /\ copy' = copy /\ lock' = lock /\ launches' = launches /\ waived' = waived
  BY <1>1 DEF ghosts
<1>9. Goto(p, l) /\ pc[p] # "idle" /\ l \in {"keep", "gate"} /\ l \in Stages /\ l # "idle"
  BY <1>1, StageFacts
<1> HIDE DEF r, l
<1>10. Passes(p, pc[p], l) /\ run'[p] = r
  BY <1>5, <1>6, <1>7, <1>8, <1>9, LocalDoes
<1>11. \E s \in {"keep", "gate"} : Passes(p, "history", s)
  BY <1>1, <1>9, <1>10
<1> QED
  BY <1>7, <1>8, <1>10, <1>11 DEF Records, r, rows, row, h

LEMMA KeepDoes ==
    ASSUME TypeInv, NEW p \in Procs, KeepPrevious(p)
    PROVE  Keeps(p)
<1>1. /\ pc[p] = "keep" /\ Goto(p, "swap") /\ UNCHANGED <<backups, lib, copy, lock, run, ghosts>>
      /\ disk' = IF Readable(disk[State])
                 THEN [disk EXCEPT ![Prev] = disk[State], ![State] = None] ELSE disk
  BY DEF KeepPrevious
<1>2. lib' = lib /\ copy' = copy /\ lock' = lock /\ launches' = launches /\ waived' = waived /\ run' = run
  BY <1>1 DEF ghosts
<1>3. disk = [m \in Names |-> disk[m]]
  BY DEF TypeInv, DiskTypes
<1>4. disk' = [m \in Names |-> disk'[m]] /\ \A m \in Names \ {State, Prev} : disk'[m] = disk[m]
  BY <1>1, <1>3, NameFacts
<1>5. \/ ~Readable(disk[State]) /\ SameGens
      \/ Readable(disk[State]) /\ disk'[Prev] = disk[State] /\ disk'[State] = None
  BY <1>1, <1>3, NameFacts DEF SameGens
<1>6. SameHist /\ SameIters /\ SameSnaps
  BY <1>4, NameFacts DEF SameHist, SameIters, SameSnaps
<1>7. Goto(p, "swap") /\ pc[p] # "idle" /\ "swap" \in Stages
  BY <1>1, StageFacts
<1>8. Passes(p, pc[p], "swap") /\ run'[p] = run[p]
  BY <1>2, <1>4, <1>7, WriteDoes
<1> QED
  BY <1>1, <1>2, <1>5, <1>6, <1>8 DEF Keeps

LEMMA SwapDoes ==
    ASSUME TypeInv, NEW p \in Procs, SwapState(p)
    PROVE  Swaps(p)
<1> DEFINE g == [run |-> run[p].id, next |-> run[p].i + 1, traj |-> run[p].traj,
                 pin |-> run[p].pin, target |-> run[p].target, init |-> run[p].init,
                 seed |-> run[p].recipe.base_seed, echo |-> Echo(run[p].recipe)]
           r == [run[p] EXCEPT !.backup = 0]
<1>1. /\ pc[p] = "swap" /\ disk' = [disk EXCEPT ![State] = g]
      /\ run' = [run EXCEPT ![p].backup = 0] /\ Goto(p, "gate")
      /\ UNCHANGED <<lib, copy, lock, launches, faults, damaged, waived>>
  BY DEF SwapState
<1>2. run[p] \in RunRec
  BY DEF TypeInv
<1>3. r \in RunRec
  BY <1>2 DEF RunRec
<1>4. run' = [run EXCEPT ![p] = r]
  BY <1>1 DEF TypeInv
<1> HIDE DEF g, r
<1>5. disk' = [m \in Names |-> disk'[m]] /\ Writes(State, g)
  BY <1>1, NameFacts, Written DEF TypeInv, DiskTypes
<1>6. Goto(p, "gate") /\ pc[p] # "idle" /\ "gate" \in Stages
  BY <1>1, StageFacts
<1>7. Passes(p, pc[p], "gate") /\ run'[p] = r
  BY <1>1, <1>3, <1>4, <1>5, <1>6, LocalDoes
<1> QED
  BY <1>1, <1>5, <1>7 DEF Swaps, g, r

LEMMA EndDoes ==
    ASSUME TypeInv, NEW p \in Procs, EndIteration(p)
    PROVE  Advances(p) \/ (Quits(p) /\ disk' = disk)
<1> DEFINE r == [run[p] EXCEPT !.i = @ + 1]
<1>1. pc[p] = "gate"
  BY DEF EndIteration
<1>2. CASE Raise(p)
  BY <1>1, <1>2, RaiseDoes
<1>3. CASE ~Raise(p)
  <2>1. /\ ~Halted(p) /\ run' = [run EXCEPT ![p].i = @ + 1] /\ Goto(p, "loop")
        /\ UNCHANGED <<files, lock, ghosts>>
    BY <1>3 DEF EndIteration
  <2>2. run[p] \in RunRec /\ run[p].i \in 1 .. MaxIter
    BY <1>1, WithinFacts DEF TypeInv, Within
  <2>3. r \in RunRec
    <3>1. run[p].i + 1 \in 0 .. MaxIter + 1
      BY <2>2, MaxIterFacts
    <3> QED
      BY <2>2, <3>1 DEF RunRec
  <2>4. run' = [run EXCEPT ![p] = r]
    BY <2>1 DEF TypeInv
  <2>5. disk' = [n \in Names |-> disk'[n]] /\ disk' = disk /\ lib' = lib /\ copy' = copy /\ lock' = lock
        /\ launches' = launches /\ waived' = waived
    BY <2>1 DEF files, ghosts, TypeInv, DiskTypes
  <2>6. Goto(p, "loop") /\ pc[p] # "idle" /\ "loop" \in Stages
    BY <1>1, <2>1, StageFacts
  <2> HIDE DEF r
  <2>7. Passes(p, pc[p], "loop") /\ run'[p] = r
    BY <2>3, <2>4, <2>5, <2>6, LocalDoes
  <2> QED
    BY <1>1, <2>1, <2>5, <2>7 DEF Advances, r
<1> QED
  BY <1>2, <1>3

LEMMA FinishDoes ==
    ASSUME TypeInv, NEW p \in Procs, Finish(p)
    PROVE  Finishes(p)
<1>1. /\ pc[p] = "loop" /\ Release(p) /\ UNCHANGED <<backups, lib, copy, ghosts>>
      /\ disk' = [n \in Names |-> IF n[1] = "iter.stale" /\ n[2] \in run[p].pending
                                  THEN None ELSE disk[n]]
  BY DEF Finish
<1>2. lock = p /\ \A q \in Procs \ {p} : pc[q] = "idle"
  BY <1>1, Alone
<1>3. pc' = [pc EXCEPT ![p] = "idle"] /\ run' = [run EXCEPT ![p] = NoRun] /\ lock' = None
      /\ copy' = copy /\ lib' = lib /\ launches' = launches /\ waived' = waived
  BY <1>1, <1>2 DEF Release, Goto, ghosts
<1>4. pc \in [Procs -> Stages] /\ run \in [Procs -> RunRec] /\ "idle" \in Stages
  BY StageFacts DEF TypeInv
<1>5. disk' = [n \in Names |-> disk'[n]]
  BY <1>1
<1>6. SameHist /\ SameGens /\ SameIters /\ SameSnaps
  <2>1. disk'[Hist] = disk[Hist] /\ disk'[State] = disk[State] /\ disk'[Prev] = disk[Prev]
    BY <1>1, NameFacts DEF Hist, State, Prev
  <2>2. \A n \in 1 .. MaxIter : disk'[Iter(n)] = disk[Iter(n)]
    BY <1>1, NameFacts DEF Iter
  <2>3. \A l \in Libs : disk'[Snapshot(l)] = disk[Snapshot(l)]
    BY <1>1, NameFacts DEF Snapshot
  <2> QED
    BY <2>1, <2>2, <2>3 DEF SameHist, SameGens, SameIters, SameSnaps
<1>7. Passes(p, "loop", "idle")
  BY <1>1, <1>2, <1>3, <1>4, <1>5, RecordFacts DEF Passes
<1> QED
  BY <1>3, <1>6, <1>7 DEF Finishes

(* Every step of a process does one of these things. *)
LEMMA ProcessDoes ==
    ASSUME TypeInv, NEW p \in Procs,
           LaunchFresh(p) \/ LaunchResume(p) \/ LaunchResumeCopy(p) \/ Step(p) \/ Crash(p)
    PROVE  Does(p)
<1>1. CASE LaunchFresh(p) \/ LaunchResume(p) \/ LaunchResumeCopy(p)
  BY <1>1, LaunchFreshDoes, LaunchesDo DEF Does
<1>2. CASE Crash(p)
  BY <1>2, RaiseDoes DEF Crash, Does
<1>3. CASE Step(p)
  <2>1. CASE LoadState(p) \/ CheckBridge(p) \/ BindSnapshot(p) \/ CheckTarget(p)
    BY <2>1, LoadDoes, BridgeDoes, BindDoes, TargetDoes DEF Does
  <2>2. CASE LoadHistory(p) \/ Quarantine(p) \/ TruncateHistory(p)
    BY <2>2, HistoryDoes, QuarantineDoes, TruncateDoes DEF Does
  <2>3. CASE Scan(p) \/ Build(p) \/ MoveAway(p) \/ StartFresh(p)
    BY <2>3, ScanDoes, BuildDoes, MoveDoes, FreshDoes DEF Does
  <2>4. CASE BeginIteration(p) \/ CollectAndUpdate(p) \/ VerifyAgain(p) \/ SaveIter(p)
    BY <2>4, BeginDoes, CollectDoes, VerifyDoes, SaveDoes DEF Does
  <2>5. CASE DropStale(p) \/ SaveHistory(p) \/ KeepPrevious(p) \/ SwapState(p)
    BY <2>5, StaleDoes, RecordDoes, KeepDoes, SwapDoes DEF Does
  <2>6. CASE EndIteration(p) \/ Finish(p)
    BY <2>6, EndDoes, FinishDoes DEF Does
  <2> QED
    BY <1>3, <2>1, <2>2, <2>3, <2>4, <2>5, <2>6 DEF Step
<1> QED
  BY <1>1, <1>2, <1>3

LEMMA SurroundingsDo ==
    ASSUME TypeInv, Rebuild \/ CorruptState \/ DamageSnapshot \/ CopyState
    PROVE  Suffers
<1>0. disk = [n \in Names |-> disk[n]] /\ lib \in Libs \cup {None}
  BY DEF TypeInv, DiskTypes
<1>1. CASE Rebuild
  BY <1>0, <1>1 DEF Rebuild, Suffers, SameHist, SameIters
<1>2. CASE CorruptState
  <2>1. disk' = [n \in Names |-> disk'[n]] /\ Writes(State, Corrupt)
    BY <1>0, <1>2, NameFacts, Written DEF CorruptState
  <2>2. SameHist /\ SameIters /\ SameSnaps /\ disk'[Prev] = disk[Prev] /\ disk'[State] = Corrupt
    BY <2>1, NameFacts DEF Writes, SameHist, SameIters, SameSnaps
  <2> QED
    BY <1>0, <1>2, <2>1, <2>2 DEF CorruptState, Suffers, Writes
<1>3. CASE DamageSnapshot
  <2>0. PICK l \in Libs : \E c \in {None} \cup {[content |-> m] : m \in Libs \ {l}} :
          disk[Snapshot(l)] # None /\ disk' = [disk EXCEPT ![Snapshot(l)] = c]
    BY <1>3 DEF DamageSnapshot
  <2>1. PICK c \in {None} \cup {[content |-> m] : m \in Libs \ {l}} :
          disk[Snapshot(l)] # None /\ disk' = [disk EXCEPT ![Snapshot(l)] = c]
    BY <2>0
  <2>2. disk' = [n \in Names |-> disk'[n]] /\ Writes(Snapshot(l), c)
    BY <1>0, <2>1, NameFacts, Written
  <2>3. SameHist /\ SameIters /\ SameGens
    BY <2>2, NameFacts DEF Writes, SameHist, SameIters, SameGens
  <2>4. \A m \in Libs \ {l} : disk'[Snapshot(m)] = disk[Snapshot(m)]
    BY <2>2, NameFacts DEF Writes
  <2>5. \A n \in Names : disk'[n] # None => disk[n] # None
    BY <2>1, <2>2 DEF Writes
  <2>6. disk'[Snapshot(l)] = None \/ \E m \in Libs \ {l} : disk'[Snapshot(l)] = [content |-> m]
    BY <2>2 DEF Writes
  <2>7. /\ pc' = pc /\ run' = run /\ launches' = launches /\ waived' = waived /\ lock' = lock
        /\ lib' = lib /\ copy' = copy
    BY <1>3 DEF DamageSnapshot
  <2> QED
    BY <1>0, <2>2, <2>3, <2>4, <2>5, <2>6, <2>7 DEF Suffers, SameGens
<1>4. CASE CopyState
  BY <1>0, <1>4 DEF CopyState, Suffers, SameHist, SameIters
<1> QED
  BY <1>1, <1>2, <1>3, <1>4

-----------------------------------------------------------------------------
(* Types. *)

LEMMA FaultsTyped ==
    ASSUME TypeInv, Next
    PROVE  faults' \in 0 .. MaxFaults
<1>0. faults \in 0 .. MaxFaults /\ MaxFaults \in Nat
  BY TrainAssumption DEF TypeInv
<1>1. ASSUME NEW p \in Procs, LaunchFresh(p) \/ LaunchResume(p) \/ LaunchResumeCopy(p) \/ Crash(p)
      PROVE  faults' = faults
  BY <1>1 DEF LaunchFresh, LaunchResume, LaunchResumeCopy, Resume, Launch, Crash, Raise, ghosts
<1>2. ASSUME NEW p \in Procs, Raise(p) PROVE faults' = faults
  BY <1>2 DEF Raise, ghosts
<1>3. ASSUME NEW p \in Procs, Step(p), ~CollectAndUpdate(p) PROVE faults' = faults
  <2>1. CASE LoadState(p) \/ CheckBridge(p) \/ BindSnapshot(p) \/ CheckTarget(p)
    BY <2>1, <1>2 DEF LoadState, CheckBridge, BindSnapshot, CheckTarget, ghosts
  <2>2. CASE LoadHistory(p) \/ Quarantine(p) \/ TruncateHistory(p)
    BY <2>2, <1>2 DEF LoadHistory, Quarantine, TruncateHistory, ghosts
  <2>3. CASE Scan(p) \/ Build(p) \/ MoveAway(p) \/ StartFresh(p)
    BY <2>3, <1>2 DEF Scan, Build, MoveAway, StartFresh, ghosts
  <2>4. CASE BeginIteration(p) \/ VerifyAgain(p) \/ SaveIter(p)
    BY <2>4, <1>2 DEF BeginIteration, VerifyAgain, SaveIter, ghosts
  <2>5. CASE DropStale(p) \/ SaveHistory(p) \/ KeepPrevious(p) \/ SwapState(p)
    BY <2>5 DEF DropStale, SaveHistory, KeepPrevious, SwapState, ghosts
  <2>6. CASE EndIteration(p) \/ Finish(p)
    BY <2>6, <1>2 DEF EndIteration, Finish, ghosts
  <2> QED
    BY <1>3, <2>1, <2>2, <2>3, <2>4, <2>5, <2>6 DEF Step
<1>4. ASSUME NEW p \in Procs, CollectAndUpdate(p) PROVE faults' \in {faults, faults + 1} /\ faults' <= MaxFaults
  <2>1. Raise(p) \/ \E moved \in BOOLEAN : /\ moved \/ faults < MaxFaults
                                           /\ faults' = IF moved THEN faults ELSE faults + 1
    BY <1>4 DEF CollectAndUpdate
  <2> QED
    BY <1>0, <1>2, <2>1
<1>5. ASSUME Rebuild \/ CorruptState \/ DamageSnapshot \/ CopyState
      PROVE  faults < MaxFaults /\ faults' = faults + 1
  BY <1>5 DEF Rebuild, CorruptState, DamageSnapshot, CopyState, Fault
<1> QED
  BY <1>0, <1>1, <1>3, <1>4, <1>5 DEF Next

LEMMA FileTypes ==
    ASSUME TypeInv, NEW p \in Procs
    PROVE  /\ Truncates(p) => disk'[Hist] \in HistFile
           /\ Records(p) => disk'[Hist] \in HistFile
           /\ Saves(p) => disk'[Iter(run[p].i)] \in IterFile
           /\ Swaps(p) => disk'[State] \in StateFile
<1>1. run[p] \in RunRec
  BY DEF TypeInv
<1>2. ASSUME Truncates(p) PROVE disk'[Hist] \in HistFile
  <2>1. disk'[Hist] = [run |-> run[p].id, rows |-> run[p].rows] /\ pc[p] = "truncate"
    BY <1>2 DEF Truncates, Writes, Passes
  <2>2. run[p].id \in Launches
    BY <2>1, BoundFacts, StageFacts
  <2> QED
    BY <1>1, <2>1, <2>2 DEF HistFile, RunRec
<1>3. ASSUME Records(p) PROVE disk'[Hist] \in HistFile
  <2>1. disk'[Hist] = [run |-> run[p].id, rows |-> run'[p].rows] /\ pc[p] = "history"
        /\ run'[p] \in RunRec
    <3> DEFINE rows == Append(run[p].rows, [iteration |-> run[p].i, traj |-> run[p].traj])
    <3>1. run'[p] = [run[p] EXCEPT !.rows = rows] /\ disk'[Hist] = [run |-> run[p].id, rows |-> rows]
          /\ pc[p] = "history" /\ run'[p] \in RunRec
      BY <1>3 DEF Records, Writes, Passes
    <3> HIDE DEF rows
    <3> QED
      BY <1>1, <3>1 DEF RunRec
  <2>2. run[p].id \in Launches
    BY <2>1, BoundFacts, StageFacts
  <2> QED
    BY <2>1, <2>2 DEF HistFile, RunRec
<1>4. ASSUME Saves(p) PROVE disk'[Iter(run[p].i)] \in IterFile
  <2>1. disk'[Iter(run[p].i)] = [run |-> run[p].id, traj |-> run[p].traj, init |-> run[p].init]
        /\ pc[p] = "save"
    BY <1>4 DEF Saves, Writes, Passes
  <2>2. run[p].id \in Launches
    BY <2>1, BoundFacts, StageFacts
  <2> QED
    BY <1>1, <2>1, <2>2 DEF IterFile, RunRec
<1>5. ASSUME Swaps(p) PROVE disk'[State] \in StateFile
  <2>1. disk'[State] = [run |-> run[p].id, next |-> run[p].i + 1, traj |-> run[p].traj,
                        pin |-> run[p].pin, target |-> run[p].target, init |-> run[p].init,
                        seed |-> run[p].recipe.base_seed, echo |-> Echo(run[p].recipe)]
        /\ pc[p] = "swap"
    BY <1>5 DEF Swaps, Writes, Passes
  <2>2. /\ run[p].id \in Launches /\ run[p].pin \in Libs \cup {None} /\ run[p].target \in Targets
        /\ run[p].recipe \in Recipes /\ run[p].i \in 1 .. MaxIter
    BY <2>1, BoundFacts, Alone, WithinFacts, StageFacts DEF Within
  <2>3. run[p].recipe.base_seed \in {r.base_seed : r \in Recipes} /\ Echo(run[p].recipe) \in Echoes
    BY <2>2 DEF Echoes
  <2>4. run[p].i + 1 \in 2 .. MaxIter + 1
    BY <2>2, MaxIterFacts
  <2>5. run[p].traj \in Weights /\ run[p].init \in SUBSET InitFlags
    BY <1>1 DEF RunRec
  <2> QED
    BY <2>1, <2>2, <2>3, <2>4, <2>5 DEF StateFile
<1> QED
  BY <1>2, <1>3, <1>4, <1>5

LEMMA DiskTyped ==
    ASSUME TypeInv, NEW p \in Procs, Does(p)
    PROVE  DiskTypes'
<1>0. DiskTypes /\ run[p] \in RunRec
  BY DEF TypeInv
<1>1. CASE disk' = disk
  BY <1>0, <1>1 DEF DiskTypes
<1>2. CASE Binds(p)
  <2>1. PICK b \in Libs : Writes(Snapshot(b), [content |-> b])
    BY <1>2 DEF Binds
  <2>2. disk' = [n \in Names |-> disk'[n]]
    BY <1>2 DEF Binds, Passes
  <2>3. \A l \in Libs : disk'[Snapshot(l)] \in [content : Libs] \cup {None}
    BY <1>0, <2>1, NameFacts DEF Writes, DiskTypes
  <2> QED
    BY <1>0, <2>1, <2>2, <2>3, NameFacts DEF Writes, DiskTypes
<1>3. CASE SetsAside(p)
  <2>1. PICK n \in 1 .. MaxIter :
          /\ disk'[Stale(n)] = disk[Iter(n)] /\ disk'[Iter(n)] = None
          /\ \A m \in Names \ {Stale(n), Iter(n)} : disk'[m] = disk[m]
    BY <1>3 DEF SetsAside
  <2>2. disk' = [m \in Names |-> disk'[m]]
    BY <1>3 DEF SetsAside, Passes
  <2>3. \A m \in 1 .. MaxIter : disk'[Iter(m)] \in IterFile \cup {None}
    BY <1>0, <2>1, NameFacts DEF DiskTypes
  <2>4. disk'[Hist] = disk[Hist] /\ disk'[State] = disk[State] /\ disk'[Prev] = disk[Prev]
    BY <2>1, NameFacts
  <2>5. \A l \in Libs : disk'[Snapshot(l)] = disk[Snapshot(l)]
    BY <2>1, NameFacts
  <2> QED
    BY <1>0, <2>2, <2>3, <2>4, <2>5 DEF DiskTypes
<1>4. CASE Truncates(p) \/ Records(p)
  <2>1. disk'[Hist] \in HistFile /\ disk' = [m \in Names |-> disk'[m]]
        /\ \A m \in Names \ {Hist} : disk'[m] = disk[m]
    BY <1>4, FileTypes DEF Truncates, Records, Writes, Passes
  <2> QED
    BY <1>0, <2>1, NameFacts DEF DiskTypes
<1>5. CASE MovesAway(p)
  <2>1. disk' = [m \in Names |-> disk'[m]] /\ \A m \in Names : disk'[m] \in {disk[m], None}
    BY <1>5 DEF MovesAway, Writes, Passes
  <2> QED
    BY <1>0, <2>1, NameFacts DEF DiskTypes
<1>6. CASE StartsRun(p)
  <2>1. pc[p] = "copylib"
    BY <1>6 DEF StartsRun, Passes
  <2>2. run[p].pin \in Libs
    BY <2>1 DEF TypeInv, AtStage
  <2>3. disk' = [m \in Names |-> disk'[m]] /\ Writes(Snapshot(run[p].pin), [content |-> run[p].pin])
    BY <1>6 DEF StartsRun, Passes
  <2>4. \A l \in Libs : disk'[Snapshot(l)] \in [content : Libs] \cup {None}
    BY <1>0, <2>2, <2>3, NameFacts DEF Writes, DiskTypes
  <2> QED
    BY <1>0, <2>2, <2>3, <2>4, NameFacts DEF Writes, DiskTypes
<1>7. CASE Saves(p)
  <2>1. pc[p] = "save"
    BY <1>7 DEF Saves, Passes
  <2>2. run[p].i \in 1 .. MaxIter
    BY <2>1, WithinFacts DEF Within
  <2>3. disk'[Iter(run[p].i)] \in IterFile /\ disk' = [m \in Names |-> disk'[m]]
        /\ \A m \in Names \ {Iter(run[p].i)} : disk'[m] = disk[m]
    BY <1>7, FileTypes DEF Saves, Writes, Passes
  <2>4. \A m \in 1 .. MaxIter : disk'[Iter(m)] \in IterFile \cup {None}
    BY <1>0, <2>2, <2>3, NameFacts DEF DiskTypes
  <2> QED
    BY <1>0, <2>2, <2>3, <2>4, NameFacts DEF DiskTypes
<1>8. CASE Swaps(p)
  <2>1. disk'[State] \in StateFile /\ disk' = [m \in Names |-> disk'[m]]
        /\ \A m \in Names \ {State} : disk'[m] = disk[m]
    BY <1>8, FileTypes DEF Swaps, Writes, Passes
  <2> QED
    BY <1>0, <2>1, NameFacts DEF DiskTypes
<1>9. CASE Keeps(p)
  <2>1. SameHist /\ SameIters /\ SameSnaps /\ disk' = [m \in Names |-> disk'[m]]
        /\ \/ SameGens
           \/ Readable(disk[State]) /\ disk'[Prev] = disk[State] /\ disk'[State] = None
    BY <1>9 DEF Keeps, Passes
  <2> QED
    BY <1>0, <2>1 DEF DiskTypes, SameHist, SameIters, SameSnaps, SameGens, Readable
<1>10. CASE Unstales(p) \/ Finishes(p)
  <2>1. SameHist /\ SameIters /\ SameSnaps /\ SameGens /\ disk' = [m \in Names |-> disk'[m]]
    BY <1>10 DEF Unstales, Finishes, Passes
  <2> QED
    BY <1>0, <2>1 DEF DiskTypes, SameHist, SameIters, SameSnaps, SameGens
<1> QED
  BY <1>1, <1>2, <1>3, <1>4, <1>5, <1>6, <1>7, <1>8, <1>9, <1>10
     DEF Does, StartsFresh, StartsAgain, StartsCopy, Starts, Loads, Moves, Compares, Reads, Builds,
         Collects, Advances

LEMMA AtIdle == ASSUME NEW q \in Procs, pc'[q] = "idle" PROVE AtStage(q)'
  BY StageFacts DEF AtStage, Comparing, Accepted, Within

LEMMA StageTyped ==
    ASSUME TypeInv, NEW p \in Procs, Does(p)
    PROVE  AtStage(p)'
<1> DEFINE s == run'[p]
<1>0. run[p] \in RunRec /\ AtStage(p) /\ Targets \subseteq Nat
      /\ \A t \in Targets : t \in 1 .. MaxIter
  BY MaxIterFacts, TrainAssumption DEF TypeInv
<1>1. CASE StartsFresh(p) \/ StartsAgain(p) \/ StartsCopy(p)
  <2>1. /\ pc'[p] \in {"scan", "load"} /\ lock' = p /\ s.by = launches' /\ s.recipe \in Recipes
        /\ s.target \in Targets /\ launches' \in Launches
    BY <1>1, TrainAssumption DEF StartsFresh, StartsAgain, StartsCopy, Starts, TypeInv, Launches
  <2> QED
    BY <2>1, StageFacts DEF AtStage, Comparing, Accepted, Within
<1>2. ASSUME NEW a, NEW b, Passes(p, a, b), b # "idle",
             s.by = run[p].by, s.target = run[p].target, s.recipe = run[p].recipe
      PROVE  /\ pc[p] = a /\ pc'[p] = b
             /\ lock' = p /\ s.by \in Launches /\ s.by = launches'
             /\ s.target \in Targets /\ s.recipe \in Recipes /\ s \in RunRec
  BY <1>0, <1>2, Alone DEF Passes
<1>3. CASE Quits(p) \/ Finishes(p)
  BY <1>3, AtIdle DEF Quits, Finishes, Passes
<1>4. CASE Loads(p)
  <2> DEFINE g == Generation(run[p].from)
  <2>1. /\ Passes(p, "load", "bridge") /\ g \in StateFile /\ (g.pin = None => lib \in Libs)
        /\ s = [run[p] EXCEPT !.id = g.run, !.i = g.next, !.traj = g.traj,
                              !.pin = IF g.pin = None THEN lib ELSE g.pin,
                              !.opts = run[p].opts \ {"accept_legacy_unpinned_state"},
                              !.saved = [target |-> g.target, echo |-> g.echo],
                              !.init = g.init]
    BY <1>4 DEF Loads
  <2> HIDE DEF g
  <2>2. /\ g.run \in Launches /\ g.next \in 1 .. MaxIter + 1 /\ g.pin \in Libs \cup {None}
        /\ [target |-> g.target, echo |-> g.echo] \in SavedRecipe
    BY <2>1, MaxIterFacts DEF StateFile, SavedRecipe
  <2>3. /\ s.by = run[p].by /\ s.target = run[p].target /\ s.recipe = run[p].recipe
        /\ s.id = g.run /\ s.i = g.next /\ s.pin = (IF g.pin = None THEN lib ELSE g.pin)
        /\ s.saved = [target |-> g.target, echo |-> g.echo]
    BY <1>0, <2>1 DEF RunRec
  <2>4. s.pin \in Libs
    BY <2>1, <2>2, <2>3
  <2> HIDE DEF s
  <2> QED
    BY <1>2, <2>1, <2>2, <2>3, <2>4, StageFacts DEF AtStage, Comparing, Accepted, Within, s
<1>5. ASSUME NEW a, NEW b, Moves(p, a, b), b # "idle",
             a \in Bound \/ b \notin Bound, a \in Bound \cup {"move", "copylib"} \/ b \notin {"move", "copylib"},
             a \in Comparing \/ b \notin Comparing,
             \/ a \in {"lineage"} \cup Accepted \cup Within
             \/ b \notin {"lineage"} \cup Accepted \cup Within
             \/ run[p].i <= run[p].target
      PROVE  AtStage(p)'
  <2>1. s = run[p] /\ Passes(p, a, b)
    BY <1>5 DEF Moves
  <2>2. /\ pc[p] = a /\ pc'[p] = b /\ lock' = p /\ s.by \in Launches /\ s.by = launches'
        /\ s.target \in Targets /\ s.recipe \in Recipes
    BY <1>2, <1>5, <2>1
  <2> QED
    BY <1>0, <1>5, <2>1, <2>2 DEF AtStage
<1>6. CASE \/ Moves(p, "bridge", "snapshot") \/ Moves(p, "quarantine", "truncate")
           \/ Moves(p, "scan", "build") \/ Moves(p, "move", "copylib") \/ Moves(p, "verify", "save")
           \/ Moves(p, "loop", "collect") /\ run[p].i <= run[p].target
  <2>1. CASE Moves(p, "bridge", "snapshot")
    BY <2>1, <1>5, StageFacts DEF Comparing, Accepted, Within
  <2>2. CASE Moves(p, "quarantine", "truncate")
    BY <2>2, <1>5, StageFacts DEF Comparing, Accepted, Within
  <2>3. CASE Moves(p, "scan", "build")
    BY <2>3, <1>5, StageFacts DEF Comparing, Accepted, Within
  <2>4. CASE Moves(p, "move", "copylib")
    BY <2>4, <1>5, StageFacts DEF Comparing, Accepted, Within
  <2>5. CASE Moves(p, "verify", "save")
    BY <2>5, <1>5, StageFacts DEF Comparing, Accepted, Within
  <2>6. CASE Moves(p, "loop", "collect") /\ run[p].i <= run[p].target
    BY <2>6, <1>5, StageFacts DEF Comparing, Accepted, Within
  <2> QED
    BY <1>6, <2>1, <2>2, <2>3, <2>4, <2>5, <2>6
<1>7. CASE Binds(p)
  <2>1. PICK bound \in Libs : s = [run[p] EXCEPT !.pin = bound]
    BY <1>7 DEF Binds
  <2>2. /\ s.by = run[p].by /\ s.target = run[p].target /\ s.recipe = run[p].recipe
        /\ s.id = run[p].id /\ s.i = run[p].i /\ s.pin \in Libs /\ s.saved = run[p].saved
    BY <1>0, <2>1 DEF RunRec
  <2>3. Passes(p, "snapshot", "echo")
    BY <1>7 DEF Binds
  <2> HIDE DEF s
  <2> QED
    BY <1>0, <1>2, <2>2, <2>3, StageFacts DEF AtStage, Comparing, Accepted, Within, s
<1>8. ASSUME NEW a, NEW b, Passes(p, a, b), b # "idle", s.by = run[p].by, s.target = run[p].target,
             s.recipe = run[p].recipe, s.id = run[p].id, s.i = run[p].i, s.pin = run[p].pin,
             b \notin Comparing, a \in Bound \/ b \notin Bound,
             a \in Bound \cup {"move", "copylib"} \/ b \notin {"move", "copylib"},
             \/ a \in {"lineage"} \cup Accepted \cup Within
             \/ b \notin {"lineage"} \cup Accepted \cup Within
             \/ run[p].i <= run[p].target
      PROVE  AtStage(p)'
  <2>1. /\ pc[p] = a /\ pc'[p] = b /\ lock' = p /\ s.by \in Launches /\ s.by = launches'
        /\ s.target \in Targets /\ s.recipe \in Recipes
    BY <1>2, <1>8
  <2> QED
    BY <1>0, <1>8, <2>1 DEF AtStage
<1>9. CASE Compares(p)
  <2>1. /\ Passes(p, "echo", "lineage") /\ run[p].i <= run[p].target
        /\ s = [run[p] EXCEPT !.saved = None]
    BY <1>9 DEF Compares
  <2>2. /\ s.by = run[p].by /\ s.target = run[p].target /\ s.recipe = run[p].recipe
        /\ s.id = run[p].id /\ s.i = run[p].i /\ s.pin = run[p].pin
    BY <1>0, <2>1 DEF RunRec
  <2> HIDE DEF s
  <2> QED
    BY <1>8, <2>1, <2>2, StageFacts DEF Comparing, Accepted, Within
<1>10. CASE Reads(p)
  <2>1. /\ Passes(p, "lineage", "quarantine")
        /\ s = [run[p] EXCEPT !.rows = IF disk[Hist] = None THEN <<>>
                                         ELSE RowsBefore(disk[Hist].rows, run[p].i)]
    BY <1>10 DEF Reads
  <2>2. /\ s.by = run[p].by /\ s.target = run[p].target /\ s.recipe = run[p].recipe
        /\ s.id = run[p].id /\ s.i = run[p].i /\ s.pin = run[p].pin
    BY <1>0, <2>1 DEF RunRec
  <2> HIDE DEF s
  <2> QED
    BY <1>8, <2>1, <2>2, StageFacts DEF Comparing, Accepted, Within
<1>11. CASE SetsAside(p)
  <2>1. PICK n : s = [run[p] EXCEPT !.pending = @ \cup {n}]
    BY <1>11 DEF SetsAside
  <2>2. /\ s.by = run[p].by /\ s.target = run[p].target /\ s.recipe = run[p].recipe
        /\ s.id = run[p].id /\ s.i = run[p].i /\ s.pin = run[p].pin
    BY <1>0, <2>1 DEF RunRec
  <2>3. Passes(p, "quarantine", "quarantine")
    BY <1>11 DEF SetsAside
  <2> HIDE DEF s
  <2> QED
    BY <1>8, <2>2, <2>3, StageFacts DEF Comparing, Accepted, Within
<1>12. CASE Truncates(p)
  <2>1. Passes(p, "truncate", "loop") /\ s = run[p]
    BY <1>12 DEF Truncates
  <2> QED
    BY <1>8, <2>1, StageFacts DEF Comparing, Accepted, Within
<1>13. CASE Builds(p)
  <2>1. /\ Passes(p, "build", "move") /\ lib \in Libs
        /\ s = [run[p] EXCEPT !.pin = lib, !.backup = IF Managed = {} THEN 0 ELSE run[p].by]
    BY <1>13 DEF Builds
  <2>2. /\ s.by = run[p].by /\ s.target = run[p].target /\ s.recipe = run[p].recipe /\ s.pin = lib
    BY <1>0, <2>1 DEF RunRec
  <2>3. "build" # "idle" /\ "move" # "idle"
    OBVIOUS
  <2>4. /\ pc'[p] = "move" /\ lock' = p /\ s.by \in Launches /\ s.by = launches'
        /\ s.target \in Targets /\ s.recipe \in Recipes /\ s.pin \in Libs
    <3> HIDE DEF s
    <3> QED
      BY <1>2, <2>1, <2>2, <2>3
  <2> QED
    BY <2>4, StageFacts DEF AtStage, Comparing, Accepted, Within
<1>14. CASE MovesAway(p)
  <2>1. Passes(p, "move", "move") /\ s = run[p]
    BY <1>14 DEF MovesAway
  <2> QED
    BY <1>8, <2>1, StageFacts DEF Comparing, Accepted, Within
<1>15. CASE StartsRun(p)
  <2>1. /\ Passes(p, "copylib", "loop")
        /\ s = [run[p] EXCEPT !.id = run[p].by, !.i = 1, !.opts = @ \cap {"allow_bridge_mismatch"},
                                !.init = run[p].opts \cap {"scratch", "champion", "init_from_bc"}]
    BY <1>15 DEF StartsRun
  <2>2. /\ s.by = run[p].by /\ s.target = run[p].target /\ s.recipe = run[p].recipe
        /\ s.id = run[p].by /\ s.i = 1 /\ s.pin = run[p].pin
    BY <1>0, <2>1 DEF RunRec
  <2>3. run[p].pin \in Libs /\ 1 \in 1 .. MaxIter + 1
    BY <1>0, <2>1, StageFacts, MaxIterFacts DEF AtStage, Passes
  <2> HIDE DEF s
  <2> QED
    BY <1>2, <2>1, <2>2, <2>3, StageFacts DEF AtStage, Comparing, Accepted, Within, s
<1>16. CASE Collects(p)
  <2>1. PICK w : s = [run[p] EXCEPT !.traj = w]
    BY <1>16 DEF Collects
  <2>2. /\ s.by = run[p].by /\ s.target = run[p].target /\ s.recipe = run[p].recipe
        /\ s.id = run[p].id /\ s.i = run[p].i /\ s.pin = run[p].pin
    BY <1>0, <2>1 DEF RunRec
  <2>3. Passes(p, "collect", "verify")
    BY <1>16 DEF Collects
  <2> HIDE DEF s
  <2> QED
    BY <1>8, <2>2, <2>3, StageFacts DEF Comparing, Accepted, Within
<1>17. CASE Saves(p)
  <2>1. Passes(p, "save", "unstale") /\ s = run[p]
    BY <1>17 DEF Saves
  <2> QED
    BY <1>8, <2>1, StageFacts DEF Comparing, Accepted, Within
<1>18. CASE Unstales(p)
  <2>1. PICK b : s = [run[p] EXCEPT !.pending = @ \ {run[p].i}, !.backup = b]
    BY <1>18 DEF Unstales
  <2>2. /\ s.by = run[p].by /\ s.target = run[p].target /\ s.recipe = run[p].recipe
        /\ s.id = run[p].id /\ s.i = run[p].i /\ s.pin = run[p].pin
    BY <1>0, <2>1 DEF RunRec
  <2>3. Passes(p, "unstale", "history")
    BY <1>18 DEF Unstales
  <2> HIDE DEF s
  <2> QED
    BY <1>8, <2>2, <2>3, StageFacts DEF Comparing, Accepted, Within
<1>19. CASE Records(p)
  <2>1. PICK rows : s = [run[p] EXCEPT !.rows = rows]
    BY <1>19 DEF Records
  <2>2. /\ s.by = run[p].by /\ s.target = run[p].target /\ s.recipe = run[p].recipe
        /\ s.id = run[p].id /\ s.i = run[p].i /\ s.pin = run[p].pin
    BY <1>0, <2>1 DEF RunRec
  <2>3. PICK l \in {"keep", "gate"} : Passes(p, "history", l)
    BY <1>19 DEF Records
  <2> HIDE DEF s
  <2> QED
    BY <1>8, <2>2, <2>3, StageFacts DEF Comparing, Accepted, Within
<1>20. CASE Keeps(p)
  <2>1. Passes(p, "keep", "swap") /\ s = run[p]
    BY <1>20 DEF Keeps
  <2> QED
    BY <1>8, <2>1, StageFacts DEF Comparing, Accepted, Within
<1>21. CASE Swaps(p)
  <2>1. Passes(p, "swap", "gate") /\ s = [run[p] EXCEPT !.backup = 0]
    BY <1>21 DEF Swaps
  <2>2. /\ s.by = run[p].by /\ s.target = run[p].target /\ s.recipe = run[p].recipe
        /\ s.id = run[p].id /\ s.i = run[p].i /\ s.pin = run[p].pin
    BY <1>0, <2>1 DEF RunRec
  <2> HIDE DEF s
  <2> QED
    BY <1>8, <2>1, <2>2, StageFacts DEF Comparing, Accepted, Within
<1>22. CASE Advances(p)
  <2>1. Passes(p, "gate", "loop") /\ s = [run[p] EXCEPT !.i = @ + 1]
    BY <1>22 DEF Advances
  <2>2. /\ s.by = run[p].by /\ s.target = run[p].target /\ s.recipe = run[p].recipe
        /\ s.id = run[p].id /\ s.i = run[p].i + 1 /\ s.pin = run[p].pin
    BY <1>0, <2>1 DEF RunRec
  <2>3. run[p].i \in 1 .. MaxIter
    BY <2>1, WithinFacts DEF Within, Passes
  <2>4. run[p].i + 1 \in 1 .. MaxIter + 1
    BY <2>3, MaxIterFacts
  <2>5. run[p].id \in Launches /\ run[p].pin \in Libs
    BY <2>1, BoundFacts, StageFacts DEF Passes
  <2> HIDE DEF s
  <2> QED
    BY <1>2, <2>1, <2>2, <2>4, <2>5, StageFacts DEF AtStage, Comparing, Accepted, Within, s
<1> HIDE DEF s
<1> QED
  BY <1>1, <1>3, <1>4, <1>6, <1>7, <1>9, <1>10, <1>11, <1>12, <1>13, <1>14, <1>15, <1>16, <1>17,
     <1>18, <1>19, <1>20, <1>21, <1>22 DEF Does

LEMMA SufferedTypes ==
    ASSUME TypeInv, Suffers
    PROVE  DiskTypes' /\ copy' \in StateFile \cup {None} /\ \A p \in Procs : AtStage(p)'
<1>1. DiskTypes'
  <2>1. DiskTypes /\ disk' = [n \in Names |-> disk'[n]] /\ SameHist /\ SameIters /\ disk'[Prev] = disk[Prev]
    BY DEF TypeInv, Suffers
  <2>2. disk'[State] = disk[State] \/ disk'[State] = Corrupt
    BY DEF Suffers, SameGens
  <2>3. \A l \in Libs : disk'[Snapshot(l)] \in [content : Libs] \cup {None}
    <3>1. \/ \A l \in Libs : disk'[Snapshot(l)] = disk[Snapshot(l)]
          \/ \E l \in Libs : /\ \/ disk'[Snapshot(l)] = None
                                \/ \E m \in Libs \ {l} : disk'[Snapshot(l)] = [content |-> m]
                             /\ \A m \in Libs \ {l} : disk'[Snapshot(m)] = disk[Snapshot(m)]
      BY DEF Suffers, SameSnaps
    <3>2. \A l \in Libs : disk[Snapshot(l)] \in [content : Libs] \cup {None}
      BY <2>1 DEF DiskTypes
    <3>3. CASE \A l \in Libs : disk'[Snapshot(l)] = disk[Snapshot(l)]
      BY <3>2, <3>3
    <3>4. ASSUME NEW l \in Libs,
                 \/ disk'[Snapshot(l)] = None
                 \/ \E m \in Libs \ {l} : disk'[Snapshot(l)] = [content |-> m],
                 \A m \in Libs \ {l} : disk'[Snapshot(m)] = disk[Snapshot(m)]
          PROVE  \A k \in Libs : disk'[Snapshot(k)] \in [content : Libs] \cup {None}
      <4>0. \A m \in Libs : [content |-> m] \in [content : Libs]
        OBVIOUS
      <4>1. disk'[Snapshot(l)] \in [content : Libs] \cup {None}
        <5>1. CASE disk'[Snapshot(l)] = None
          BY <5>1
        <5>2. CASE \E m \in Libs \ {l} : disk'[Snapshot(l)] = [content |-> m]
          BY <4>0, <5>2
        <5> QED
          BY <3>4, <5>1, <5>2
      <4> QED
        BY <3>2, <3>4, <4>1
    <3> QED
      BY <3>1, <3>3, <3>4
  <2> QED
    BY <2>1, <2>2, <2>3 DEF DiskTypes, SameHist, SameIters
<1>2. copy' \in StateFile \cup {None}
  BY DEF Suffers, TypeInv, DiskTypes, Readable
<1>3. \A p \in Procs : AtStage(p)'
  BY DEF Suffers, TypeInv, AtStage
<1> QED
  BY <1>1, <1>2, <1>3

LEMMA DoneTypes ==
    ASSUME TypeInv, NEW p \in Procs, Does(p)
    PROVE  /\ lib' = lib /\ copy' = copy /\ lock' \in Procs \cup {None}
           /\ pc' \in [Procs -> Stages] /\ run' \in [Procs -> RunRec]
           /\ launches' \in 0 .. MaxLaunches
           /\ \A q \in Procs \ {p} : pc'[q] = "idle"
<1>1. CASE StartsFresh(p) \/ StartsAgain(p) \/ StartsCopy(p)
  <2>1. Starts(p, "scan") \/ Starts(p, "load")
    BY <1>1 DEF StartsFresh, StartsAgain, StartsCopy
  <2>2. \A q \in Procs \ {p} : pc'[q] = "idle"
    BY <2>1 DEF Starts
  <2>3. launches' \in 0 .. MaxLaunches
    BY <2>1, TrainAssumption DEF Starts, TypeInv
  <2> QED
    BY <2>1, <2>2, <2>3 DEF Starts
<1>2. ASSUME NEW a, NEW b, Passes(p, a, b)
      PROVE  /\ lib' = lib /\ copy' = copy /\ lock' \in Procs \cup {None}
             /\ pc' \in [Procs -> Stages] /\ run' \in [Procs -> RunRec]
             /\ launches' \in 0 .. MaxLaunches
             /\ \A q \in Procs \ {p} : pc'[q] = "idle"
  BY <1>2 DEF Passes, TypeInv
<1>3. CASE ~(StartsFresh(p) \/ StartsAgain(p) \/ StartsCopy(p))
  <2>1. \E a, b \in Stages : Passes(p, a, b)
    <3>1. CASE Quits(p)
      <4>1. Passes(p, pc[p], "idle") /\ pc[p] \in Stages
        BY <3>1 DEF Quits, TypeInv
      <4> QED
        BY <4>1, StageFacts
    <3>2. CASE Records(p)
      BY <3>2, StageFacts DEF Records
    <3> QED
      BY <1>3, <3>1, <3>2, StageFacts
         DEF Does, Loads, Moves, Binds, Compares, Reads, SetsAside, Truncates, Builds, MovesAway,
             StartsRun, Collects, Saves, Unstales, Keeps, Swaps, Advances, Finishes
  <2> QED
    BY <1>2, <2>1
<1> QED
  BY <1>1, <1>3

LEMMA TypeNext ==
    ASSUME TypeInv, [Next]_vars
    PROVE  TypeInv'
<1>1. CASE UNCHANGED vars
  BY <1>1 DEF vars, TypeInv, DiskTypes, AtStage
<1>2. ASSUME NEW p \in Procs, Does(p), Next PROVE TypeInv'
  <2>1. DiskTypes' /\ AtStage(p)' /\ faults' \in 0 .. MaxFaults
    BY <1>2, DiskTyped, StageTyped, FaultsTyped
  <2>2. /\ lib' = lib /\ copy' = copy /\ lock' \in Procs \cup {None}
        /\ pc' \in [Procs -> Stages] /\ run' \in [Procs -> RunRec]
        /\ launches' \in 0 .. MaxLaunches
        /\ \A q \in Procs \ {p} : pc'[q] = "idle"
    BY <1>2, DoneTypes
  <2>3. \A q \in Procs : AtStage(q)'
    BY <2>1, <2>2, AtIdle
  <2> QED
    BY <2>1, <2>2, <2>3 DEF TypeInv
<1>3. ASSUME Suffers, Next PROVE TypeInv'
  <2>1. faults' \in 0 .. MaxFaults
    BY <1>3, FaultsTyped
  <2>2. /\ pc' = pc /\ run' = run /\ lock' = lock /\ launches' = launches
        /\ lib' \in Libs \cup {None}
    BY <1>3 DEF Suffers
  <2> QED
    BY <1>3, <2>1, <2>2, SufferedTypes DEF TypeInv
<1> QED
  BY <1>1, <1>2, <1>3, ProcessDoes, SurroundingsDo DEF Next

(* The files of an older run, name by name.                                 *)
OlderUpdate(l, recipe) == [by |-> 1, lib |-> l, recipe |-> recipe, rate |-> "lr", moved |-> TRUE]
OlderFiles(d, l, recipe, pin) ==
    LET u == OlderUpdate(l, recipe)
    IN  /\ d = [n \in Names |-> d[n]]
        /\ d[Iter(1)] = [run |-> 1, traj |-> <<u>>, init |-> {}]
        /\ d[Hist] = [run |-> 1, rows |-> <<[iteration |-> 1, traj |-> <<u>>]>>]
        /\ d[State] = [run |-> 1, next |-> 2, traj |-> <<u>>, pin |-> pin, target |-> MaxIter,
                       seed |-> recipe.base_seed, echo |-> OlderEcho(recipe), init |-> {}]
        /\ d[Snapshot(l)] = IF pin = None THEN None ELSE [content |-> pin]
        /\ \A n \in Names \ {Iter(1), Hist, State, Snapshot(l)} : d[n] = None

LEMMA OlderTypes ==
    ASSUME NEW l \in Libs, NEW v \in Invocations, NEW pin \in {None, l}
    PROVE  OlderFiles(OlderRun(l, v.recipe, pin, MaxIter), l, v.recipe, pin)
<1>1. 1 \in 1 .. MaxIter
  BY MaxIterFacts
<1>2. Iter(1) \in Names /\ Hist \in Names /\ State \in Names /\ Snapshot(l) \in Names
      /\ Iter(1) # Hist /\ Iter(1) # State /\ Iter(1) # Snapshot(l)
      /\ Hist # State /\ Hist # Snapshot(l) /\ State # Snapshot(l)
  BY <1>1, NameFacts
<1> DEFINE u == [by |-> 1, lib |-> l, recipe |-> v.recipe, rate |-> "lr", moved |-> TRUE]
           i == [run |-> 1, traj |-> <<u>>, init |-> {}]
           h == [run |-> 1, rows |-> <<[iteration |-> 1, traj |-> <<u>>]>>]
           g == [run |-> 1, next |-> 2, traj |-> <<u>>, pin |-> pin, target |-> MaxIter,
                 seed |-> v.recipe.base_seed, echo |-> OlderEcho(v.recipe), init |-> {}]
           s == IF pin = None THEN None ELSE [content |-> pin]
           d == OlderRun(l, v.recipe, pin, MaxIter)
<1>3. d = [NoFiles EXCEPT ![Iter(1)] = i, ![Hist] = h, ![State] = g, ![Snapshot(l)] = s]
  BY DEF OlderRun, OlderEcho
<1> HIDE DEF i, h, g, s, d
<1>4. /\ d = [n \in Names |-> d[n]] /\ d[Iter(1)] = i /\ d[Hist] = h /\ d[State] = g
      /\ d[Snapshot(l)] = s /\ \A n \in Names \ {Iter(1), Hist, State, Snapshot(l)} : d[n] = None
  BY <1>2, <1>3 DEF NoFiles
<1> QED
  BY <1>4 DEF i, h, g, s, d, OlderFiles, OlderUpdate

LEMMA TypeInit == Init => TypeInv
<1> SUFFICES ASSUME Init PROVE TypeInv
  OBVIOUS
<1>1. /\ lib \in Libs /\ copy = None /\ lock = None /\ pc = [p \in Procs |-> "idle"]
      /\ run = [p \in Procs |-> NoRun] /\ faults = 0 /\ launches \in {0, 1}
  BY DEF Init
<1>2. DiskTypes
  <2>1. CASE disk = NoFiles
    BY <2>1, NameFacts DEF DiskTypes, NoFiles
  <2>2. CASE disk # NoFiles
    <3>1. PICK v \in Invocations, pin \in {None, lib} : disk = OlderRun(lib, v.recipe, pin, MaxIter)
      BY <2>2 DEF Init
    <3> DEFINE u == OlderUpdate(lib, v.recipe)
               t == <<u>>
               w == [iteration |-> 1, traj |-> t]
    <3>2. /\ disk = [n \in Names |-> disk[n]]
          /\ disk[Iter(1)] = [run |-> 1, traj |-> t, init |-> {}]
          /\ disk[Hist] = [run |-> 1, rows |-> <<w>>]
          /\ disk[State] = [run |-> 1, next |-> 2, traj |-> t, pin |-> pin, target |-> MaxIter,
                            seed |-> v.recipe.base_seed, echo |-> OlderEcho(v.recipe), init |-> {}]
          /\ disk[Snapshot(lib)] = IF pin = None THEN None ELSE [content |-> pin]
          /\ \A n \in Names \ {Iter(1), Hist, State, Snapshot(lib)} : disk[n] = None
      <4>1. OlderFiles(disk, lib, v.recipe, pin)
        BY <1>1, <3>1, OlderTypes
      <4> QED
        BY <4>1 DEF OlderFiles
    <3>3. 1 \in Launches /\ MaxIter \in Targets /\ 2 \in 2 .. MaxIter + 1 /\ 1 \in 1 .. MaxIter
      BY MaxIterFacts, TrainAssumption DEF Launches
    <3>4. v.recipe \in Recipes
      BY DEF Recipes
    <3>5. u \in Update
      BY <1>1, <3>3, <3>4 DEF Update, OlderUpdate
    <3> HIDE DEF u
    <3>6. t \in Weights
      BY <3>5 DEF Weights
    <3> HIDE DEF t
    <3>7. w \in Row
      BY <3>3, <3>6 DEF Row
    <3> HIDE DEF w
    <3>8. <<w>> \in Rows
      BY <3>7 DEF Rows
    <3>9. disk[Hist] \in HistFile
      BY <3>2, <3>3, <3>8 DEF HistFile
    <3>10. disk[Iter(1)] \in IterFile
      BY <3>2, <3>3, <3>6 DEF IterFile
    <3>11. disk[State] \in StateFile
      <4>1. v.recipe.base_seed \in {r.base_seed : r \in Recipes} /\ OlderEcho(v.recipe) \in Echoes
        BY <3>4 DEF Echoes
      <4>2. pin \in Libs \cup {None} /\ {} \in SUBSET InitFlags
        BY <1>1
      <4>3. disk[State] = [run |-> 1, next |-> 2, traj |-> t, pin |-> pin, target |-> MaxIter,
                           seed |-> v.recipe.base_seed, echo |-> OlderEcho(v.recipe), init |-> {}]
        BY <3>2
      <4> QED
        BY <3>3, <3>6, <4>1, <4>2, <4>3 DEF StateFile
    <3>12. disk[Snapshot(lib)] \in [content : Libs] \cup {None}
      BY <1>1, <3>2
    <3>13. \A n \in 1 .. MaxIter : disk[Iter(n)] \in IterFile \cup {None}
      <4> TAKE n \in 1 .. MaxIter
      <4>1. CASE n = 1
        BY <3>10, <4>1
      <4>2. CASE n # 1
        BY <1>1, <3>2, <3>3, <4>2, NameFacts
      <4> QED
        BY <4>1, <4>2
    <3>14. \A l \in Libs : disk[Snapshot(l)] \in [content : Libs] \cup {None}
      <4> TAKE l \in Libs
      <4>1. CASE l = lib
        BY <3>12, <4>1
      <4>2. CASE l # lib
        BY <1>1, <3>2, <3>3, <4>2, NameFacts
      <4> QED
        BY <4>1, <4>2
    <3>15. disk[Prev] = None
      BY <1>1, <3>2, <3>3, NameFacts
    <3> QED
      BY <3>2, <3>9, <3>11, <3>13, <3>14, <3>15 DEF DiskTypes
  <2> QED
    BY <2>1, <2>2
<1>3. launches \in 0 .. MaxLaunches /\ faults \in 0 .. MaxFaults
  BY <1>1, TrainAssumption
<1>4. pc \in [Procs -> Stages] /\ run \in [Procs -> RunRec]
  BY <1>1, StageFacts, RecordFacts
<1>5. \A p \in Procs : AtStage(p)
  BY <1>1, StageFacts DEF AtStage, Comparing, Accepted, Within
<1> QED
  BY <1>1, <1>2, <1>3, <1>4, <1>5 DEF TypeInv

(* The files hold what their readers expect, and one launch at most is at work. *)
LEMMA SpecTypes == Spec => []TypeInv
<1>1. Init => TypeInv
  BY TypeInit
<1>2. TypeInv /\ [Next]_vars => TypeInv'
  BY TypeNext
<1> QED
  BY <1>1, <1>2, PTL DEF Spec

(* TypeOK: every launch is somewhere in `train_b2b` with the locals that go there, and *)
(* every file is under a name the code manages.                               *)
THEOREM TypesHold == Spec => []TypeOK
<1>1. TypeInv => TypeOK
  <2> SUFFICES ASSUME TypeInv PROVE TypeOK
    OBVIOUS
  <2>1. DOMAIN disk = Names
    BY DEF TypeInv, DiskTypes
  <2>2. \A p \in Procs : DOMAIN run[p] = DOMAIN NoRun /\ run[p].i \in 0 .. MaxIter + 1
    BY DEF TypeInv, RunRec, NoRun
  <2>3. pc \in [Procs -> {"idle", "load", "bridge", "snapshot", "echo", "lineage",
                         "quarantine", "truncate", "scan", "build", "move", "copylib",
                         "loop", "collect", "verify", "save", "unstale", "history",
                         "keep", "swap", "gate"}]
    <3>1. Stages = {"idle", "load", "bridge", "snapshot", "echo", "lineage",
                         "quarantine", "truncate", "scan", "build", "move", "copylib",
                         "loop", "collect", "verify", "save", "unstale", "history",
                         "keep", "swap", "gate"}
      BY StageFacts
    <3> QED
      BY <3>1 DEF TypeInv
  <2> QED
    BY <2>1, <2>2, <2>3 DEF TypeInv, TypeOK
<1> QED
  BY <1>1, SpecTypes, PTL

-----------------------------------------------------------------------------
(* What a launch carries from its first step to its last. *)
LEMMA LocalsKept ==
    ASSUME TypeInv, NEW p \in Procs, Does(p), pc[p] # "idle", pc'[p] # "idle"
    PROVE  /\ run'[p].by = run[p].by /\ run'[p].recipe = run[p].recipe /\ run'[p].from = run[p].from
           /\ run'[p].opts \subseteq run[p].opts
<1> DEFINE s == run'[p]
           Kept == /\ s.by = run[p].by /\ s.recipe = run[p].recipe /\ s.from = run[p].from
                   /\ s.opts \subseteq run[p].opts
<1> SUFFICES Kept
  OBVIOUS
<1>0. run[p] \in RunRec /\ ~StartsFresh(p) /\ ~StartsAgain(p) /\ ~StartsCopy(p)
      /\ ~Quits(p) /\ ~Finishes(p)
  BY DEF TypeInv, StartsFresh, StartsAgain, StartsCopy, Starts, Quits, Finishes, Passes
<1>1. ASSUME s = run[p] PROVE Kept
  BY <1>1
<1>2. CASE Loads(p)
  BY <1>0, <1>2 DEF Loads, RunRec
<1>3. CASE Binds(p)
  BY <1>0, <1>3 DEF Binds, RunRec
<1>4. CASE Compares(p)
  BY <1>0, <1>4 DEF Compares, RunRec
<1>5. CASE Reads(p)
  BY <1>0, <1>5 DEF Reads, RunRec
<1>6. CASE SetsAside(p)
  BY <1>0, <1>6 DEF SetsAside, RunRec
<1>7. CASE Builds(p)
  BY <1>0, <1>7 DEF Builds, RunRec
<1>8. CASE StartsRun(p)
  BY <1>0, <1>8 DEF StartsRun, RunRec
<1>9. CASE Collects(p)
  BY <1>0, <1>9 DEF Collects, RunRec
<1>10. CASE Unstales(p)
  BY <1>0, <1>10 DEF Unstales, RunRec
<1>11. CASE Records(p)
  BY <1>0, <1>11 DEF Records, RunRec
<1>12. CASE Swaps(p)
  BY <1>0, <1>12 DEF Swaps, RunRec
<1>13. CASE Advances(p)
  BY <1>0, <1>13 DEF Advances, RunRec
<1>14. CASE Truncates(p) \/ MovesAway(p) \/ Saves(p) \/ Keeps(p)
  BY <1>1, <1>14 DEF Truncates, MovesAway, Saves, Keeps
<1>15. ASSUME NEW a, NEW b, Moves(p, a, b) PROVE Kept
  BY <1>1, <1>15 DEF Moves
<1> HIDE DEF Kept
<1>16. CASE \/ Moves(p, "bridge", "snapshot") \/ Moves(p, "quarantine", "truncate")
            \/ Moves(p, "scan", "build") \/ Moves(p, "move", "copylib")
            \/ Moves(p, "loop", "collect") \/ Moves(p, "verify", "save")
  BY <1>15, <1>16
<1>17. Kept
  BY <1>0, <1>2, <1>3, <1>4, <1>5, <1>6, <1>7, <1>8, <1>9, <1>10, <1>11, <1>12, <1>13, <1>14, <1>16
     DEF Does
<1> QED
  BY <1>17

(* One run per directory, from the checks of a launch on.                    *)
NoForce == \A opts \in Options : "force_history_reset" \notin opts

AllOf(d, id) ==
    /\ \A n \in 1 .. MaxIter : d[Iter(n)] # None => d[Iter(n)].run = id
    /\ \A n \in {State, Prev} : Readable(d[n]) => d[n].run = id
    /\ d[Hist] # None => d[Hist].run = id

LineageAt(p) ==
    /\ pc[p] # "idle" => "force_history_reset" \notin run[p].opts
    /\ pc[p] = "copylib" \/ (pc[p] = "move" /\ run[p].backup = 0) => Managed = {}
    /\ pc[p] \in Comparing \cup {"lineage"} /\ run[p].from = State /\ Readable(disk[State]) =>
          disk[State].run = run[p].id
    /\ pc[p] \in Accepted \cup Publishing => AllOf(disk, run[p].id)

Lineage == \A p \in Procs : LineageAt(p)

LEMMA AcceptedFacts ==
    /\ Accepted \cup Publishing = {"quarantine", "truncate", "loop", "collect", "verify", "save",
                                   "unstale", "history", "keep", "swap", "gate"}
    /\ Comparing \cup {"lineage"} = {"bridge", "snapshot", "echo", "lineage"}
    /\ Empty = {"scan", "build", "move", "copylib"}
  BY DEF Accepted, Publishing, Within, Comparing, Empty

LEMMA EmptyIsAllOf == ASSUME Managed = {}, NEW id PROVE AllOf(disk, id)
<1>1. \A n \in Names : disk[n] = None
  BY DEF Managed
<1> QED
  BY <1>1, NameFacts DEF AllOf, Readable

(* Files that are kept, taken away or spoilt leave the directory of one run. *)
LEMMA AllOfKept ==
    ASSUME NEW id, AllOf(disk, id),
           \A n \in 1 .. MaxIter : disk'[Iter(n)] \in {disk[Iter(n)], None}
                                   \/ disk'[Iter(n)].run = id,
           \A n \in {State, Prev} : disk'[n] \in {disk[State], disk[Prev], None, Corrupt} \/ disk'[n].run = id,
           disk'[Hist] \in {disk[Hist], None} \/ disk'[Hist].run = id
    PROVE  AllOf(disk', id)
  BY DEF AllOf, Readable

LEMMA LineageAccepted ==
    ASSUME TypeInv, NEW p \in Procs, Does(p), LineageAt(p), pc'[p] \in Accepted \cup Publishing
    PROVE  AllOf(disk', run'[p].id)
<1> DEFINE s == run'[p]
<1> SUFFICES AllOf(disk', s.id)
  OBVIOUS
<1>0. /\ run[p] \in RunRec /\ ~StartsFresh(p) /\ ~StartsAgain(p) /\ ~StartsCopy(p)
      /\ ~Quits(p) /\ ~Finishes(p) /\ ~Loads(p) /\ ~Binds(p) /\ ~Compares(p) /\ ~Builds(p)
      /\ ~MovesAway(p) /\ ~Moves(p, "bridge", "snapshot") /\ ~Moves(p, "scan", "build")
      /\ ~Moves(p, "move", "copylib")
  BY AcceptedFacts
     DEF TypeInv, StartsFresh, StartsAgain, StartsCopy, Starts, Quits, Finishes, Passes, Loads, Binds,
         Compares, Builds, MovesAway, Moves
<1>1. ASSUME pc[p] \in Accepted \cup Publishing PROVE AllOf(disk, run[p].id)
  BY <1>1 DEF LineageAt
<1>2. ASSUME pc[p] \in Accepted \cup Publishing, disk' = disk, s.id = run[p].id PROVE AllOf(disk', s.id)
  BY <1>1, <1>2 DEF AllOf, Readable
<1>3. CASE Reads(p)
  <2>1. /\ pc[p] = "lineage" /\ pc'[p] = "quarantine" /\ disk' = disk
        /\ "force_history_reset" \in run[p].opts \/ OneLineageOnDisk(run[p].id, run[p].from)
        /\ disk[Hist] # None => disk[Hist].run = run[p].id
        /\ s.id = run[p].id
    BY <1>0, <1>3 DEF Reads, Passes, RunRec
  <2>2. OneLineageOnDisk(run[p].id, run[p].from)
    BY <2>1 DEF LineageAt
  <2>3. run[p].from \in {None, State}
    BY <1>0 DEF RunRec
  <2>4. \A n \in {State, Prev} : Readable(disk[n]) => disk[n].run = run[p].id
    <3>1. CASE run[p].from = State
      BY <2>1, <2>2, <3>1, NameFacts, AcceptedFacts DEF LineageAt, OneLineageOnDisk, Readable
    <3>2. CASE run[p].from = None
      BY <2>2, <3>2, NameFacts, NoneIsNoName DEF OneLineageOnDisk, Readable
    <3> QED
      BY <2>3, <3>1, <3>2
  <2>5. AllOf(disk, run[p].id)
    BY <2>1, <2>2, <2>4 DEF AllOf, OneLineageOnDisk
  <2> QED
    BY <2>1, <2>5 DEF AllOf, Readable
<1>4. CASE SetsAside(p)
  <2>1. PICK n \in 1 .. MaxIter :
          /\ disk'[Stale(n)] = disk[Iter(n)] /\ disk'[Iter(n)] = None
          /\ \A m \in Names \ {Stale(n), Iter(n)} : disk'[m] = disk[m]
          /\ s = [run[p] EXCEPT !.pending = @ \cup {n}]
    BY <1>4 DEF SetsAside
  <2>2. s.id = run[p].id /\ pc[p] = "quarantine"
    BY <1>0, <1>4, <2>1 DEF RunRec, SetsAside, Passes
  <2>3. \A m \in 1 .. MaxIter : disk'[Iter(m)] \in {disk[Iter(m)], None}
    BY <2>1, NameFacts
  <2>4. disk'[Hist] = disk[Hist] /\ disk'[State] = disk[State] /\ disk'[Prev] = disk[Prev]
    BY <2>1, NameFacts
  <2> HIDE DEF s
  <2> QED
    BY <1>1, <2>2, <2>3, <2>4, AllOfKept, AcceptedFacts
<1>5. CASE Truncates(p)
  <2>1. /\ pc[p] = "truncate" /\ s = run[p] /\ disk'[Hist] = [run |-> run[p].id, rows |-> run[p].rows]
        /\ \A m \in Names \ {Hist} : disk'[m] = disk[m]
    BY <1>5 DEF Truncates, Writes, Passes
  <2>2. /\ disk'[Hist].run = run[p].id /\ disk'[State] = disk[State] /\ disk'[Prev] = disk[Prev]
        /\ \A m \in 1 .. MaxIter : disk'[Iter(m)] = disk[Iter(m)]
    BY <2>1, NameFacts
  <2> HIDE DEF s
  <2> QED
    BY <1>1, <2>1, <2>2, AllOfKept, AcceptedFacts
<1>6. CASE Records(p)
  <2> DEFINE rows == Append(run[p].rows, [iteration |-> run[p].i, traj |-> run[p].traj])
  <2>1. /\ pc[p] = "history" /\ s = [run[p] EXCEPT !.rows = rows]
        /\ disk'[Hist] = [run |-> run[p].id, rows |-> rows]
        /\ \A m \in Names \ {Hist} : disk'[m] = disk[m]
    BY <1>6 DEF Records, Writes, Passes
  <2> HIDE DEF rows
  <2>2. /\ disk'[Hist].run = run[p].id /\ disk'[State] = disk[State] /\ disk'[Prev] = disk[Prev]
        /\ \A m \in 1 .. MaxIter : disk'[Iter(m)] = disk[Iter(m)]
    BY <2>1, NameFacts
  <2>3. s.id = run[p].id
    BY <1>0, <2>1 DEF RunRec
  <2> HIDE DEF s
  <2> QED
    BY <1>1, <2>1, <2>2, <2>3, AllOfKept, AcceptedFacts
<1>7. CASE StartsRun(p)
  <2>1. pc[p] = "copylib" /\ Writes(Snapshot(run[p].pin), [content |-> run[p].pin])
    BY <1>7 DEF StartsRun, Passes
  <2>2. run[p].pin \in Libs
    BY <2>1 DEF TypeInv, AtStage
  <2>3. AllOf(disk, s.id)
    BY <2>1, EmptyIsAllOf DEF LineageAt
  <2>4. /\ disk'[Hist] = disk[Hist] /\ disk'[State] = disk[State] /\ disk'[Prev] = disk[Prev]
        /\ \A m \in 1 .. MaxIter : disk'[Iter(m)] = disk[Iter(m)]
    BY <2>1, <2>2, NameFacts DEF Writes
  <2> QED
    BY <2>3, <2>4 DEF AllOf, Readable
<1>8. CASE Saves(p)
  <2>1. /\ pc[p] = "save" /\ s = run[p]
        /\ disk'[Iter(run[p].i)] = [run |-> run[p].id, traj |-> run[p].traj, init |-> run[p].init]
        /\ \A m \in Names \ {Iter(run[p].i)} : disk'[m] = disk[m]
    BY <1>8 DEF Saves, Writes, Passes
  <2>2. run[p].i \in 1 .. MaxIter
    BY <2>1, WithinFacts DEF Within
  <2>3. /\ disk'[Hist] = disk[Hist] /\ disk'[State] = disk[State] /\ disk'[Prev] = disk[Prev]
        /\ \A m \in 1 .. MaxIter : disk'[Iter(m)] = disk[Iter(m)] \/ disk'[Iter(m)].run = run[p].id
    BY <2>1, <2>2, NameFacts
  <2> HIDE DEF s
  <2> QED
    BY <1>1, <2>1, <2>3, AllOfKept, AcceptedFacts
<1>9. CASE Unstales(p)
  <2>1. PICK b : s = [run[p] EXCEPT !.pending = @ \ {run[p].i}, !.backup = b]
    BY <1>9 DEF Unstales
  <2>2. pc[p] = "unstale" /\ s.id = run[p].id
    BY <1>0, <1>9, <2>1 DEF RunRec, Unstales, Passes
  <2> HIDE DEF s
  <2> QED
    BY <1>1, <1>9, <2>2, AllOfKept, AcceptedFacts DEF Unstales, SameHist, SameGens, SameIters
<1>10. CASE Keeps(p)
  <2>1. pc[p] = "keep" /\ s = run[p]
    BY <1>10 DEF Keeps, Passes
  <2> HIDE DEF s
  <2> QED
    BY <1>1, <1>10, <2>1, AllOfKept, AcceptedFacts DEF Keeps, SameHist, SameGens, SameIters
<1>11. CASE Swaps(p)
  <2>1. /\ pc[p] = "swap" /\ s = [run[p] EXCEPT !.backup = 0]
        /\ disk'[State].run = run[p].id /\ \A m \in Names \ {State} : disk'[m] = disk[m]
    BY <1>11 DEF Swaps, Writes, Passes
  <2>2. /\ disk'[Hist] = disk[Hist] /\ disk'[Prev] = disk[Prev]
        /\ \A m \in 1 .. MaxIter : disk'[Iter(m)] = disk[Iter(m)]
    BY <2>1, NameFacts
  <2>3. s.id = run[p].id
    BY <1>0, <2>1 DEF RunRec
  <2> HIDE DEF s
  <2> QED
    BY <1>1, <2>1, <2>2, <2>3, AllOfKept, AcceptedFacts
<1>12. CASE Collects(p)
  <2>1. PICK w : s = [run[p] EXCEPT !.traj = w]
    BY <1>12 DEF Collects
  <2>2. pc[p] = "collect" /\ disk' = disk /\ s.id = run[p].id
    BY <1>0, <1>12, <2>1 DEF Collects, Passes, RunRec
  <2> QED
    BY <1>2, <2>2, AcceptedFacts
<1>13. CASE Advances(p)
  <2>1. pc[p] = "gate" /\ disk' = disk /\ s.id = run[p].id
    BY <1>0, <1>13 DEF Advances, Passes, RunRec
  <2> QED
    BY <1>2, <2>1, AcceptedFacts
<1>14. CASE \/ Moves(p, "quarantine", "truncate") \/ Moves(p, "loop", "collect")
            \/ Moves(p, "verify", "save")
  <2>1. pc[p] \in {"quarantine", "loop", "verify"} /\ disk' = disk /\ s = run[p]
    BY <1>14 DEF Moves, Passes
  <2> QED
    BY <1>2, <2>1, AcceptedFacts
<1> HIDE DEF s
<1>15. AllOf(disk', s.id)
  BY <1>0, <1>3, <1>4, <1>5, <1>6, <1>7, <1>8, <1>9, <1>10, <1>11, <1>12, <1>13, <1>14 DEF Does
<1> QED
  BY <1>15

LEMMA LineageIdle == ASSUME NEW q \in Procs, pc'[q] = "idle" PROVE LineageAt(q)'
  BY AcceptedFacts DEF LineageAt

(* What is fresh starts from nothing. *)
LEMMA LineageFresh ==
    ASSUME TypeInv, NEW p \in Procs, Does(p), LineageAt(p),
           pc'[p] = "copylib" \/ (pc'[p] = "move" /\ run'[p].backup = 0)
    PROVE  Managed = {} /\ disk' = disk
<1> DEFINE s == run'[p]
<1> SUFFICES Managed = {} /\ disk' = disk
  OBVIOUS
<1>0. /\ run[p] \in RunRec /\ ~StartsFresh(p) /\ ~StartsAgain(p) /\ ~StartsCopy(p)
      /\ ~Quits(p) /\ ~Finishes(p) /\ ~Loads(p) /\ ~Binds(p) /\ ~Compares(p) /\ ~Reads(p)
      /\ ~SetsAside(p) /\ ~Truncates(p) /\ ~StartsRun(p) /\ ~Collects(p)
  BY DEF TypeInv, StartsFresh, StartsAgain, StartsCopy, Starts, Quits, Finishes, Passes, Loads, Binds,
         Compares, Reads, SetsAside, Truncates, StartsRun, Collects
<1>1. /\ ~Saves(p) /\ ~Unstales(p) /\ ~Records(p) /\ ~Keeps(p) /\ ~Swaps(p) /\ ~Advances(p)
      /\ ~Moves(p, "bridge", "snapshot") /\ ~Moves(p, "scan", "build") /\ ~Moves(p, "loop", "collect")
      /\ ~Moves(p, "quarantine", "truncate") /\ ~Moves(p, "verify", "save")
  BY DEF Passes, Saves, Unstales, Records, Keeps, Swaps, Advances, Moves
<1>2. CASE Builds(p)
  <2>1. pc[p] = "build" /\ pc'[p] = "move" /\ disk' = disk
        /\ s = [run[p] EXCEPT !.pin = lib, !.backup = IF Managed = {} THEN 0 ELSE run[p].by]
    BY <1>2 DEF Builds, Passes
  <2>2. run[p].by \in Launches
    BY <2>1, Alone
  <2>3. run[p].by # 0
    BY <2>2 DEF Launches
  <2>4. s.backup = IF Managed = {} THEN 0 ELSE run[p].by
    BY <1>0, <2>1 DEF RunRec
  <2> QED
    BY <2>1, <2>3, <2>4
<1>3. CASE MovesAway(p)
  <2>1. pc'[p] = "move" /\ run'[p] = run[p] /\ run[p].backup # 0
    BY <1>3 DEF MovesAway, Passes
  <2> QED
    BY <2>1
<1>4. CASE Moves(p, "move", "copylib") /\ (Managed = {} \/ run[p].backup = 0)
  <2>1. pc[p] = "move" /\ disk' = disk
    BY <1>4 DEF Moves, Passes
  <2> QED
    BY <1>4, <2>1 DEF LineageAt
<1> QED
  BY <1>0, <1>1, <1>2, <1>3, <1>4 DEF Does

(* The state resumed from stays the run's own until it is replaced. *)
LEMMA LineageResumed ==
    ASSUME TypeInv, NEW p \in Procs, Does(p), LineageAt(p), pc'[p] \in Comparing \cup {"lineage"},
           run'[p].from = State, Readable(disk'[State])
    PROVE  disk'[State].run = run'[p].id
<1> DEFINE s == run'[p]
<1> SUFFICES disk'[State].run = s.id
  OBVIOUS
<1>0. /\ run[p] \in RunRec /\ ~StartsFresh(p) /\ ~StartsAgain(p) /\ ~StartsCopy(p)
      /\ ~Quits(p) /\ ~Finishes(p) /\ ~Builds(p) /\ ~MovesAway(p) /\ ~Reads(p)
      /\ ~SetsAside(p) /\ ~Truncates(p) /\ ~StartsRun(p) /\ ~Collects(p)
  BY AcceptedFacts
     DEF TypeInv, StartsFresh, StartsAgain, StartsCopy, Starts, Quits, Finishes, Passes, Builds, MovesAway,
         Reads, SetsAside, Truncates, StartsRun, Collects
<1>1. /\ ~Saves(p) /\ ~Unstales(p) /\ ~Records(p) /\ ~Keeps(p) /\ ~Swaps(p) /\ ~Advances(p)
      /\ ~Moves(p, "move", "copylib") /\ ~Moves(p, "scan", "build") /\ ~Moves(p, "loop", "collect")
      /\ ~Moves(p, "quarantine", "truncate") /\ ~Moves(p, "verify", "save")
  BY AcceptedFacts DEF Passes, Saves, Unstales, Records, Keeps, Swaps, Advances, Moves
<1>2. CASE Loads(p)
  <2> DEFINE g == Generation(run[p].from)
  <2>1. disk' = disk /\ s.id = g.run /\ s.from = run[p].from
    BY <1>0, <1>2 DEF Loads, RunRec
  <2>2. g = disk[State]
    BY <2>1, NameFacts DEF Generation
  <2> QED
    BY <2>1, <2>2
<1>3. CASE Moves(p, "bridge", "snapshot")
  BY <1>3, AcceptedFacts DEF Moves, Passes, LineageAt
<1>4. CASE Binds(p)
  <2>1. PICK bound \in Libs : /\ Writes(Snapshot(bound), [content |-> bound])
                              /\ s = [run[p] EXCEPT !.pin = bound]
    BY <1>4 DEF Binds
  <2>2. pc[p] = "snapshot" /\ s.id = run[p].id /\ s.from = run[p].from
    BY <1>0, <1>4, <2>1 DEF Binds, Passes, RunRec
  <2>3. disk'[State] = disk[State]
    BY <2>1, NameFacts DEF Writes
  <2> QED
    BY <2>2, <2>3, AcceptedFacts DEF LineageAt
<1>5. CASE Compares(p)
  <2>1. pc[p] = "echo" /\ disk' = disk /\ s.id = run[p].id /\ s.from = run[p].from
    BY <1>0, <1>5 DEF Compares, Passes, RunRec
  <2> QED
    BY <2>1, AcceptedFacts DEF LineageAt
<1> QED
  BY <1>0, <1>1, <1>2, <1>3, <1>4, <1>5 DEF Does

LEMMA NotForced ==
    ASSUME NoForce, TypeInv, NEW p \in Procs, Does(p), LineageAt(p), pc'[p] # "idle"
    PROVE  "force_history_reset" \notin run'[p].opts
<1>1. CASE pc[p] = "idle"
  <2>1. StartsFresh(p) \/ StartsAgain(p) \/ StartsCopy(p)
    BY <1>1 DEF Does, Quits, Loads, Moves, Binds, Compares, Reads, SetsAside, Truncates, Builds,
                MovesAway, StartsRun, Collects, Saves, Unstales, Records, Keeps, Swaps, Advances,
                Finishes, Passes
  <2>2. \E l \in {"scan", "load"} : Starts(p, l)
    BY <2>1 DEF StartsFresh, StartsAgain, StartsCopy
  <2> QED
    BY <2>2 DEF Starts, NoForce
<1>2. CASE pc[p] # "idle"
  BY <1>2, LocalsKept DEF LineageAt
<1> QED
  BY <1>1, <1>2

LEMMA LineageKept ==
    ASSUME NoForce, TypeInv, NEW p \in Procs, Does(p), LineageAt(p)
    PROVE  LineageAt(p)'
<1>1. pc'[p] # "idle" => "force_history_reset" \notin run'[p].opts
  BY NotForced
<1>2. pc'[p] = "copylib" \/ (pc'[p] = "move" /\ run'[p].backup = 0) => Managed' = {}
  BY LineageFresh DEF Managed
<1>3. pc'[p] \in Comparing \cup {"lineage"} /\ run'[p].from = State /\ Readable(disk'[State]) =>
         disk'[State].run = run'[p].id
  BY LineageResumed
<1>4. pc'[p] \in Accepted \cup Publishing => AllOf(disk', run'[p].id)
  BY LineageAccepted
<1> QED
  BY <1>1, <1>2, <1>3, <1>4 DEF LineageAt, AllOf, Readable

LEMMA LineageSuffered == ASSUME TypeInv, Suffers, NEW p \in Procs, LineageAt(p) PROVE LineageAt(p)'
<1>1. pc' = pc /\ run' = run
  BY DEF Suffers
<1>2. /\ disk'[State] \in {disk[State], Corrupt} /\ disk'[Prev] = disk[Prev] /\ disk'[Hist] = disk[Hist]
      /\ \A n \in 1 .. MaxIter : disk'[Iter(n)] = disk[Iter(n)]
  BY DEF Suffers, SameHist, SameIters, SameGens
<1>3. \A n \in Names : disk'[n] # None => disk[n] # None
  <2>1. CASE disk' = disk
    BY <2>1
  <2>2. CASE \A n \in Names : disk'[n] # None => disk[n] # None
    BY <2>2
  <2>3. CASE Readable(disk[State]) /\ \A n \in Names \ {State} : disk'[n] = disk[n]
    BY <2>3 DEF Readable
  <2> QED
    BY <2>1, <2>2, <2>3 DEF Suffers
<1>4. Managed = {} => Managed' = {}
  BY <1>3 DEF Managed
<1>5. ASSUME NEW id, AllOf(disk, id) PROVE AllOf(disk', id)
  BY <1>2, <1>5 DEF AllOf, Readable
<1> QED
  BY <1>1, <1>2, <1>4, <1>5 DEF LineageAt, AllOf, Readable

LEMMA LineageInit == ASSUME Init PROVE Lineage
<1>1. pc = [p \in Procs |-> "idle"]
  BY DEF Init
<1> QED
  BY <1>1, AcceptedFacts DEF Lineage, LineageAt

LEMMA LineageNext ==
    ASSUME NoForce, TypeInv, Lineage, [Next]_vars
    PROVE  Lineage'
<1>1. CASE UNCHANGED vars
  BY <1>1 DEF vars, Lineage, LineageAt, Managed, AllOf, Readable
<1>2. ASSUME NEW p \in Procs, Does(p) PROVE Lineage'
  <2>1. \A q \in Procs \ {p} : LineageAt(q)'
    BY <1>2, DoneTypes, LineageIdle
  <2>2. LineageAt(p)'
    BY <1>2, LineageKept DEF Lineage
  <2> QED
    BY <2>1, <2>2 DEF Lineage
<1>3. CASE Suffers
  BY <1>3, LineageSuffered DEF Lineage
<1> QED
  BY <1>1, <1>2, <1>3, ProcessDoes, SurroundingsDo DEF Next

LEMMA SpecLineage == ASSUME NoForce PROVE Spec => [](TypeInv /\ Lineage)
<1>1. Init => TypeInv /\ Lineage
  BY TypeInit, LineageInit
<1>2. TypeInv /\ Lineage /\ [Next]_vars => (TypeInv /\ Lineage)'
  BY TypeNext, LineageNext
<1> QED
  BY <1>1, <1>2, PTL DEF Spec

(* OneLineage: unless an operator may switch the check off (--force-history-reset), a  *)
(* launch that publishes does so into a directory of its own run: whatever was there    *)
(* before passed _check_artifact_lineage_or_raise, was moved away, or was not there.    *)
THEOREM DirectoryIsOfOneRun == ASSUME NoForce PROVE Spec => []OneLineage
<1>1. TypeInv /\ Lineage => OneLineage
  <2> SUFFICES ASSUME TypeInv, Lineage, NEW p \in Procs, pc[p] \in Within
               PROVE  /\ \A c \in Checkpoints \cup Generations : c.run = run[p].id
                      /\ disk[Hist] # None => disk[Hist].run = run[p].id
    BY DEF OneLineage, Within
  <2>1. AllOf(disk, run[p].id)
    BY DEF Lineage, LineageAt, Publishing
  <2>2. \A c \in Checkpoints : c.run = run[p].id
    BY <2>1 DEF AllOf, Checkpoints, LiveIters
  <2>3. \A c \in Generations : c.run = run[p].id
    BY <2>1 DEF AllOf, Generations, Readable
  <2> QED
    BY <2>1, <2>2, <2>3 DEF AllOf
<1> QED
  BY <1>1, SpecLineage, PTL

-----------------------------------------------------------------------------
(* Which step is taken where, and what it leaves alone. *)
LEMMA Positions ==
    ASSUME NEW p \in Procs
    PROVE  /\ StartsFresh(p) \/ StartsAgain(p) \/ StartsCopy(p) => pc[p] = "idle" /\ pc'[p] # "idle"
           /\ Quits(p) \/ Finishes(p) => pc'[p] = "idle" /\ pc[p] # "idle"
           /\ Finishes(p) => pc[p] = "loop"
           /\ \A a, b : Moves(p, a, b) => pc[p] = a /\ pc'[p] = b
           /\ Loads(p) => pc[p] = "load" /\ pc'[p] = "bridge"
           /\ Binds(p) => pc[p] = "snapshot" /\ pc'[p] = "echo"
           /\ Compares(p) => pc[p] = "echo" /\ pc'[p] = "lineage"
           /\ Reads(p) => pc[p] = "lineage" /\ pc'[p] = "quarantine"
           /\ SetsAside(p) => pc[p] = "quarantine" /\ pc'[p] = "quarantine"
           /\ Truncates(p) => pc[p] = "truncate" /\ pc'[p] = "loop"
           /\ Builds(p) => pc[p] = "build" /\ pc'[p] = "move"
           /\ MovesAway(p) => pc[p] = "move" /\ pc'[p] = "move"
           /\ StartsRun(p) => pc[p] = "copylib" /\ pc'[p] = "loop"
           /\ Collects(p) => pc[p] = "collect" /\ pc'[p] = "verify"
           /\ Saves(p) => pc[p] = "save" /\ pc'[p] = "unstale"
           /\ Unstales(p) => pc[p] = "unstale" /\ pc'[p] = "history"
           /\ Records(p) => pc[p] = "history" /\ pc'[p] \in {"keep", "gate"}
           /\ Keeps(p) => pc[p] = "keep" /\ pc'[p] = "swap"
           /\ Swaps(p) => pc[p] = "swap" /\ pc'[p] = "gate"
           /\ Advances(p) => pc[p] = "gate" /\ pc'[p] = "loop"
<1>1. /\ StartsFresh(p) \/ StartsAgain(p) \/ StartsCopy(p) => pc[p] = "idle" /\ pc'[p] # "idle"
      /\ Quits(p) \/ Finishes(p) => pc'[p] = "idle" /\ pc[p] # "idle"
      /\ Finishes(p) => pc[p] = "loop"
  BY DEF StartsFresh, StartsAgain, StartsCopy, Starts, Quits, Finishes, Passes
<1>2. /\ \A a, b : Moves(p, a, b) => pc[p] = a /\ pc'[p] = b
      /\ Loads(p) => pc[p] = "load" /\ pc'[p] = "bridge"
      /\ Binds(p) => pc[p] = "snapshot" /\ pc'[p] = "echo"
      /\ Compares(p) => pc[p] = "echo" /\ pc'[p] = "lineage"
      /\ Reads(p) => pc[p] = "lineage" /\ pc'[p] = "quarantine"
      /\ SetsAside(p) => pc[p] = "quarantine" /\ pc'[p] = "quarantine"
      /\ Truncates(p) => pc[p] = "truncate" /\ pc'[p] = "loop"
  BY DEF Moves, Loads, Binds, Compares, Reads, SetsAside, Truncates, Passes
<1>3. /\ Builds(p) => pc[p] = "build" /\ pc'[p] = "move"
      /\ MovesAway(p) => pc[p] = "move" /\ pc'[p] = "move"
      /\ StartsRun(p) => pc[p] = "copylib" /\ pc'[p] = "loop"
      /\ Collects(p) => pc[p] = "collect" /\ pc'[p] = "verify"
      /\ Saves(p) => pc[p] = "save" /\ pc'[p] = "unstale"
      /\ Unstales(p) => pc[p] = "unstale" /\ pc'[p] = "history"
  BY DEF Builds, MovesAway, StartsRun, Collects, Saves, Unstales, Passes
<1>4. /\ Records(p) => pc[p] = "history" /\ pc'[p] \in {"keep", "gate"}
      /\ Keeps(p) => pc[p] = "keep" /\ pc'[p] = "swap"
      /\ Swaps(p) => pc[p] = "swap" /\ pc'[p] = "gate"
      /\ Advances(p) => pc[p] = "gate" /\ pc'[p] = "loop"
  BY DEF Records, Keeps, Swaps, Advances, Passes
<1> QED
  BY ONLY <1>1, <1>2, <1>3, <1>4

LEMMA DoesAt ==
    ASSUME NEW p \in Procs, Does(p), pc'[p] # "idle"
    PROVE  /\ pc[p] = "idle" => StartsFresh(p) \/ StartsAgain(p) \/ StartsCopy(p)
           /\ pc[p] = "load" => Loads(p)
           /\ pc[p] = "bridge" => Moves(p, "bridge", "snapshot")
           /\ pc[p] = "snapshot" => Binds(p)
           /\ pc[p] = "echo" => Compares(p)
           /\ pc[p] = "lineage" => Reads(p)
           /\ pc[p] = "quarantine" => SetsAside(p) \/ (Moves(p, "quarantine", "truncate") /\ Outdated(p) = {})
           /\ pc[p] = "truncate" => Truncates(p)
           /\ pc[p] = "scan" => Moves(p, "scan", "build")
           /\ pc[p] = "build" => Builds(p)
           /\ pc[p] = "move" => MovesAway(p) \/ Moves(p, "move", "copylib")
           /\ pc[p] = "copylib" => StartsRun(p)
           /\ pc[p] = "loop" => Moves(p, "loop", "collect") /\ run[p].i <= run[p].target /\ Unchanged(p)
           /\ pc[p] = "collect" => Collects(p)
           /\ pc[p] = "verify" => Moves(p, "verify", "save") /\ Unchanged(p)
           /\ pc[p] = "save" => Saves(p)
           /\ pc[p] = "unstale" => Unstales(p)
           /\ pc[p] = "history" => Records(p)
           /\ pc[p] = "keep" => Keeps(p)
           /\ pc[p] = "swap" => Swaps(p)
           /\ pc[p] = "gate" => Advances(p)
  BY Positions DEF Does

(* Who writes what. *)
LEMMA FilesFrame ==
    ASSUME TypeInv, NEW p \in Procs, Does(p)
    PROVE  /\ copy' = copy /\ waived \subseteq waived'
           /\ pc[p] # "idle" => launches' = launches
           /\ pc[p] \notin {"keep", "swap", "move"} => SameGens
           /\ pc[p] \notin {"truncate", "history", "move"} => SameHist
           /\ pc[p] \notin {"quarantine", "save", "move"} => SameIters
           /\ pc[p] \notin {"snapshot", "copylib", "move"} => SameSnaps
<1> DEFINE Framed == /\ copy' = copy /\ waived \subseteq waived'
                     /\ pc[p] # "idle" => launches' = launches
                     /\ pc[p] \notin {"keep", "swap", "move"} => SameGens
                     /\ pc[p] \notin {"truncate", "history", "move"} => SameHist
                     /\ pc[p] \notin {"quarantine", "save", "move"} => SameIters
                     /\ pc[p] \notin {"snapshot", "copylib", "move"} => SameSnaps
<1> SUFFICES Framed
  OBVIOUS
<1>1. ASSUME disk' = disk, copy' = copy, waived \subseteq waived', pc[p] # "idle" => launches' = launches
      PROVE  Framed
  BY <1>1 DEF SameHist, SameGens, SameIters, SameSnaps
<1>2. CASE StartsFresh(p) \/ StartsAgain(p) \/ StartsCopy(p)
  BY <1>1, <1>2 DEF StartsFresh, StartsAgain, StartsCopy, Starts
<1>3. CASE Quits(p) /\ disk' = disk
  BY <1>1, <1>3 DEF Quits, Passes
<1>4. CASE Loads(p) \/ Compares(p) \/ Reads(p) \/ Builds(p) \/ Collects(p) \/ Advances(p)
  <2>1. disk' = disk /\ copy' = copy /\ launches' = launches
    BY <1>4 DEF Loads, Compares, Reads, Builds, Collects, Advances, Passes
  <2>2. waived \subseteq waived'
    BY <1>4 DEF Loads, Compares, Reads, Builds, Collects, Advances
  <2> QED
    BY <1>1, <2>1, <2>2
<1>5. ASSUME NEW a, NEW b, Moves(p, a, b) PROVE Framed
  BY <1>1, <1>5 DEF Moves, Passes
<1>6. CASE Binds(p)
  <2>1. PICK l \in Libs : Writes(Snapshot(l), [content |-> l])
    BY <1>6 DEF Binds
  <2>2. SameHist /\ SameGens /\ SameIters
    BY <2>1, NameFacts DEF Writes, SameHist, SameGens, SameIters
  <2> QED
    BY <1>6, <2>2, Positions DEF Binds, Passes
<1>7. CASE StartsRun(p)
  <2>1. pc[p] = "copylib" /\ Writes(Snapshot(run[p].pin), [content |-> run[p].pin])
        /\ copy' = copy /\ launches' = launches /\ waived \subseteq waived'
    BY <1>7 DEF StartsRun, Passes
  <2>2. run[p].pin \in Libs
    BY <2>1 DEF TypeInv, AtStage
  <2>3. SameHist /\ SameGens /\ SameIters
    BY <2>1, <2>2, NameFacts DEF Writes, SameHist, SameGens, SameIters
  <2> QED
    BY <2>1, <2>3
<1>8. CASE SetsAside(p)
  <2>1. PICK n \in 1 .. MaxIter : \A m \in Names \ {Stale(n), Iter(n)} : disk'[m] = disk[m]
    BY <1>8 DEF SetsAside
  <2>2. SameHist /\ SameGens /\ SameSnaps
    BY <2>1, NameFacts DEF SameHist, SameGens, SameSnaps
  <2> QED
    BY <1>8, <2>2, Positions DEF SetsAside, Passes
<1>9. CASE Truncates(p) \/ Records(p)
  <2>1. \E v : Writes(Hist, v)
    BY <1>9 DEF Truncates, Records
  <2>2. SameGens /\ SameIters /\ SameSnaps
    BY <2>1, NameFacts DEF Writes, SameGens, SameIters, SameSnaps
  <2>3. pc[p] \in {"truncate", "history"} /\ copy' = copy /\ launches' = launches /\ waived' = waived
    BY <1>9 DEF Truncates, Records, Passes
  <2> QED
    BY <2>2, <2>3
<1>10. CASE Saves(p)
  <2>1. pc[p] = "save" /\ Writes(Iter(run[p].i), [run |-> run[p].id, traj |-> run[p].traj, init |-> run[p].init])
        /\ copy' = copy /\ launches' = launches /\ waived' = waived
    BY <1>10 DEF Saves, Passes
  <2>2. run[p].i \in 1 .. MaxIter
    BY <2>1, WithinFacts DEF Within
  <2>3. SameGens /\ SameHist /\ SameSnaps
    BY <2>1, <2>2, NameFacts DEF Writes, SameGens, SameHist, SameSnaps
  <2> QED
    BY <2>1, <2>3
<1>11. CASE Swaps(p)
  <2>1. \E v : Writes(State, v)
    BY <1>11 DEF Swaps
  <2>2. SameHist /\ SameIters /\ SameSnaps
    BY <2>1, NameFacts DEF Writes, SameHist, SameIters, SameSnaps
  <2> QED
    BY <1>11, <2>2, Positions DEF Swaps, Passes
<1>12. CASE Unstales(p) \/ Keeps(p) \/ Finishes(p)
  <2>1. SameHist /\ SameIters /\ SameSnaps /\ (~Keeps(p) => SameGens)
    BY <1>12 DEF Unstales, Keeps, Finishes
  <2>2. copy' = copy /\ launches' = launches /\ waived' = waived
    BY <1>12 DEF Unstales, Keeps, Finishes, Passes
  <2> QED
    BY <2>1, <2>2, Positions
<1>13. CASE MovesAway(p)
  <2>1. pc[p] = "move" /\ copy' = copy /\ launches' = launches /\ waived' = waived
    BY <1>13 DEF MovesAway, Passes
  <2> QED
    BY <2>1
<1> HIDE DEF Framed
<1> QED
  BY <1>2, <1>3, <1>4, <1>5, <1>6, <1>7, <1>8, <1>9, <1>10, <1>11, <1>12, <1>13 DEF Does

(* Who assigns which local. *)
LocalsFramed(p) ==
    LET r == run[p]
        s == run'[p]
    IN  /\ pc[p] \notin {"load", "copylib"} => s.id = r.id /\ s.init = r.init
        /\ pc[p] \notin {"load", "collect"} => s.traj = r.traj
        /\ pc[p] \notin {"load", "snapshot", "build"} => s.pin = r.pin
        /\ pc[p] \notin {"load", "copylib", "gate"} => s.i = r.i
        /\ pc[p] \notin {"lineage", "history"} => s.rows = r.rows
        /\ pc[p] \notin {"load", "echo"} => s.saved = r.saved
        /\ "allow_bridge_mismatch" \in s.opts <=> "allow_bridge_mismatch" \in r.opts
        /\ pc[p] \notin {"load", "copylib"} => s.opts = r.opts

LEMMA LocalsFrame ==
    ASSUME TypeInv, NEW p \in Procs, Does(p), pc[p] # "idle", pc'[p] # "idle"
    PROVE  LocalsFramed(p)
<1> DEFINE s == run'[p]
<1>0. run[p] \in RunRec
  BY DEF TypeInv
<1>1. ASSUME s = run[p] PROVE LocalsFramed(p)
  BY <1>1 DEF LocalsFramed
<1>2. CASE Loads(p)
  <2>1. pc[p] = "load" /\ s.rows = run[p].rows /\ s.opts = run[p].opts \ {"accept_legacy_unpinned_state"}
    BY <1>0, <1>2, Positions DEF Loads, RunRec
  <2> QED
    BY <2>1 DEF LocalsFramed
<1>3. CASE Binds(p)
  BY <1>0, <1>3, Positions DEF Binds, RunRec, LocalsFramed
<1>4. CASE Compares(p)
  BY <1>0, <1>4, Positions DEF Compares, RunRec, LocalsFramed
<1>5. CASE Reads(p)
  BY <1>0, <1>5, Positions DEF Reads, RunRec, LocalsFramed
<1>6. CASE SetsAside(p)
  BY <1>0, <1>6, Positions DEF SetsAside, RunRec, LocalsFramed
<1>7. CASE Builds(p)
  BY <1>0, <1>7, Positions DEF Builds, RunRec, LocalsFramed
<1>8. CASE StartsRun(p)
  <2>1. /\ pc[p] = "copylib" /\ s.rows = run[p].rows /\ s.opts = run[p].opts \cap {"allow_bridge_mismatch"}
        /\ s.traj = run[p].traj /\ s.pin = run[p].pin /\ s.saved = run[p].saved
    BY <1>0, <1>8, Positions DEF StartsRun, RunRec
  <2> QED
    BY <2>1 DEF LocalsFramed
<1>9. CASE Collects(p)
  BY <1>0, <1>9, Positions DEF Collects, RunRec, LocalsFramed
<1>10. CASE Unstales(p)
  BY <1>0, <1>10, Positions DEF Unstales, RunRec, LocalsFramed
<1>11. CASE Records(p)
  BY <1>0, <1>11, Positions DEF Records, RunRec, LocalsFramed
<1>12. CASE Swaps(p)
  BY <1>0, <1>12, Positions DEF Swaps, RunRec, LocalsFramed
<1>13. CASE Advances(p)
  BY <1>0, <1>13, Positions DEF Advances, RunRec, LocalsFramed
<1>14. CASE Truncates(p) \/ MovesAway(p) \/ Saves(p) \/ Keeps(p)
  BY <1>1, <1>14 DEF Truncates, MovesAway, Saves, Keeps
<1>15. ASSUME NEW a, NEW b, Moves(p, a, b) PROVE LocalsFramed(p)
  BY <1>1, <1>15 DEF Moves
<1> QED
  BY <1>2, <1>3, <1>4, <1>5, <1>6, <1>7, <1>8, <1>9, <1>10, <1>11, <1>12, <1>13, <1>14, <1>15,
     Positions DEF Does

-----------------------------------------------------------------------------
(* Who is older than whom: a launch is newer than all it finds. *)
UpTo(traj, n) == \A j \in DOMAIN traj : traj[j].by \in 1 .. n
AgedFile(f, n) == f.run \in 1 .. n /\ UpTo(f.traj, n)
AgedFiles(d, c, n) ==
    /\ \A m \in {State, Prev} : Readable(d[m]) => AgedFile(d[m], n)
    /\ c # None => AgedFile(c, n)

AgedAt(p) ==
    /\ pc[p] \in {"load"} \cup Empty => AgedFiles(disk, copy, launches - 1)
    /\ pc[p] \in Empty => run[p].traj = <<>> /\ run[p].rows = <<>>
    /\ pc[p] \in Bound => run[p].id \in 1 .. launches /\ UpTo(run[p].traj, launches)
    /\ pc[p] \in Comparing \cup {"lineage"} \cup Accepted => UpTo(run[p].traj, launches - 1)

Aged == AgedFiles(disk, copy, launches) /\ \A p \in Procs : AgedAt(p)

LEMMA AgedLater ==
    ASSUME NEW n \in Int, NEW d, NEW c, AgedFiles(d, c, n)
    PROVE  AgedFiles(d, c, n + 1)
<1>1. \A m : m \in 1 .. n => m \in 1 .. n + 1
  OBVIOUS
<1> QED
  BY <1>1 DEF AgedFiles, AgedFile, UpTo

LEMMA AgedFilesNext ==
    ASSUME TypeInv, NEW p \in Procs, Does(p), Aged
    PROVE  AgedFiles(disk', copy', launches')
<1>1. CASE pc[p] = "idle"
  <2>1. launches' = launches + 1 /\ disk' = disk /\ copy' = copy
    <3>1. StartsFresh(p) \/ StartsAgain(p) \/ StartsCopy(p)
      BY <1>1, Positions DEF Does
    <3> QED
      BY <3>1 DEF StartsFresh, StartsAgain, StartsCopy, Starts
  <2>2. launches \in Int
    BY DEF TypeInv
  <2> QED
    BY <2>1, <2>2, AgedLater DEF Aged
<1>2. CASE pc[p] # "idle"
  <2>1. launches' = launches /\ copy' = copy
    BY <1>2, FilesFrame
  <2>2. CASE pc[p] \notin {"keep", "swap", "move"}
    BY <1>2, <2>1, <2>2, FilesFrame DEF Aged, AgedFiles, SameGens
  <2>3. CASE pc[p] \in {"keep", "swap", "move"} /\ disk' = disk
    BY <2>1, <2>3 DEF Aged
  <2>4. CASE Keeps(p)
    BY <2>1, <2>4, NameFacts DEF Keeps, SameGens, Aged, AgedFiles, Readable
  <2>5. CASE Swaps(p)
    <3>1. /\ pc[p] = "swap" /\ disk'[Prev] = disk[Prev]
          /\ disk'[State].run = run[p].id /\ disk'[State].traj = run[p].traj
      BY <2>5, NameFacts DEF Swaps, Passes, Writes
    <3>2. AgedFile(disk'[State], launches)
      BY <3>1 DEF Aged, AgedAt, Bound, Publishing, Within, AgedFile
    <3> QED
      BY <2>1, <3>1, <3>2, NameFacts DEF Aged, AgedFiles
  <2>6. CASE MovesAway(p)
    <3>1. \A n \in Names : disk'[n] \in {disk[n], None}
      BY <2>6 DEF MovesAway, Writes
    <3> QED
      BY <2>1, <3>1, NameFacts DEF Aged, AgedFiles, Readable
  <2> QED
    BY <2>2, <2>3, <2>4, <2>5, <2>6, Positions DEF Does, Moves
<1> QED
  BY <1>1, <1>2

LEMMA AgedKept ==
    ASSUME TypeInv, NEW p \in Procs, Does(p), Aged, pc'[p] # "idle"
    PROVE  AgedAt(p)'
<1>0. launches \in Int
  BY DEF TypeInv
<1>1. CASE pc[p] = "idle"
  <2>1. StartsFresh(p) \/ StartsAgain(p) \/ StartsCopy(p)
    BY <1>1, Positions DEF Does
  <2>2. \E l \in {"scan", "load"} : Starts(p, l)
    BY <2>1 DEF StartsFresh, StartsAgain, StartsCopy
  <2>3. /\ launches' = launches + 1 /\ disk' = disk /\ copy' = copy
        /\ run'[p].traj = <<>> /\ run'[p].rows = <<>> /\ pc'[p] \in {"scan", "load"}
    BY <2>2 DEF Starts
  <2>4. AgedFiles(disk', copy', launches' - 1)
    BY <1>0, <2>3 DEF Aged
  <2> QED
    BY <2>3, <2>4 DEF AgedAt, Empty, Bound, Comparing, Accepted, Publishing, Within
<1>2. CASE pc[p] # "idle"
  <2>1. launches' = launches /\ copy' = copy /\ LocalsFramed(p) /\ AgedAt(p)
    BY <1>2, FilesFrame, LocalsFrame DEF Aged
  <2>2. ASSUME pc[p] \in Empty, pc'[p] \in Empty
        PROVE  AgedFiles(disk', copy', launches - 1) /\ run'[p].traj = <<>> /\ run'[p].rows = <<>>
    <3>1. AgedFiles(disk, copy, launches - 1) /\ run[p].traj = <<>> /\ run[p].rows = <<>>
      BY <2>1, <2>2 DEF AgedAt
    <3>2. \A n \in {State, Prev} : disk'[n] \in {disk[n], None}
      <4>1. CASE pc[p] = "move"
        <5>1. CASE MovesAway(p)
          BY <5>1, NameFacts DEF MovesAway, Writes
        <5>2. CASE Moves(p, "move", "copylib")
          BY <5>2 DEF Moves
        <5> QED
          BY <1>2, <4>1, <5>1, <5>2, DoesAt
      <4>2. CASE pc[p] # "move"
        BY <2>2, <4>2, FilesFrame DEF SameGens, Empty
      <4> QED
        BY <4>1, <4>2
    <3>3. AgedFiles(disk', copy', launches - 1)
      BY <2>1, <3>1, <3>2 DEF AgedFiles, Readable
    <3>4. run'[p].traj = <<>> /\ run'[p].rows = <<>>
      BY <2>1, <2>2, <3>1 DEF LocalsFramed, Empty
    <3> QED
      BY <3>3, <3>4
  <2>3. ASSUME pc[p] = "load", pc'[p] # "idle"
        PROVE  pc'[p] = "bridge" /\ run'[p].id \in 1 .. launches - 1 /\ UpTo(run'[p].traj, launches - 1)
    <3> DEFINE g == Generation(run[p].from)
    <3>1. Loads(p)
      BY <1>2, <2>3, DoesAt
    <3>2. pc'[p] = "bridge" /\ Readable(g) /\ run'[p].id = g.run /\ run'[p].traj = g.traj
      <4>1. run[p] \in RunRec
        BY DEF TypeInv
      <4> QED
        BY <3>1, <4>1 DEF Loads, Passes, RunRec
    <3>3. AgedFile(g, launches - 1)
      BY <2>1, <2>3, <3>2 DEF AgedAt, AgedFiles, Generation, Readable
    <3> QED
      BY <3>2, <3>3 DEF AgedFile
  <2>4. CASE pc[p] = "load"
    <3>1. \A m : m \in 1 .. launches - 1 => m \in 1 .. launches
      BY <1>0
    <3> HIDE DEF LocalsFramed
    <3> QED
      BY <1>2, <2>1, <2>3, <2>4, <3>1 DEF AgedAt, UpTo, Empty, Bound, Comparing
  <2>5. CASE pc[p] \in Empty
    <3>1. CASE pc'[p] \in Empty
      BY <2>1, <2>2, <2>5, <3>1 DEF AgedAt, Empty, Bound, Comparing, Accepted, Publishing, Within
    <3>2. CASE pc'[p] \notin Empty
      <4>1. StartsRun(p) /\ pc[p] = "copylib"
        BY <1>2, <2>5, <3>2, DoesAt, Positions DEF Empty
      <4>2. run[p] \in RunRec /\ run[p].by \in Launches /\ run[p].by = launches
        BY <1>2, Alone
      <4>3. pc'[p] = "loop" /\ run'[p].id = launches /\ run'[p].traj = run[p].traj
        BY <4>1, <4>2 DEF StartsRun, Passes, RunRec
      <4>4. run'[p].id \in 1 .. launches /\ UpTo(run'[p].traj, launches)
        BY <2>1, <2>5, <4>2, <4>3 DEF AgedAt, UpTo, Launches
      <4> QED
        BY <2>1, <4>3, <4>4 DEF AgedAt, Empty, Comparing, Accepted
    <3> QED
      BY <3>1, <3>2
  <2>6. CASE pc[p] \in Bound
    <3>1. run[p].id \in 1 .. launches /\ UpTo(run[p].traj, launches) /\ run'[p].id = run[p].id
      BY <2>1, <2>6 DEF AgedAt, LocalsFramed, Bound, Comparing, Accepted, Publishing, Within
    <3>2. pc'[p] \in Bound
      BY <1>2, <2>6, DoesAt, Positions DEF Bound, Comparing, Accepted, Publishing, Within
    <3>3. UpTo(run'[p].traj, launches)
      <4>1. CASE pc[p] = "collect"
        <5>0. Collects(p) /\ run[p] \in RunRec /\ run[p].by \in 1 .. launches
          BY <1>2, <4>1, DoesAt, Alone DEF Launches
        <5> DEFINE w(moved) == [by |-> run[p].by, lib |-> Loaded(p).content, recipe |-> run[p].recipe,
                                rate |-> Rate(p), moved |-> moved]
        <5>1. PICK moved \in BOOLEAN : run'[p] = [run[p] EXCEPT !.traj = Append(@, w(moved))]
          BY <5>0 DEF Collects
        <5>2. w(moved).by \in 1 .. launches
          BY <5>0
        <5> HIDE DEF w
        <5>3. run'[p].traj = Append(run[p].traj, w(moved)) /\ run[p].traj \in Seq(Update)
          BY <5>0, <5>1 DEF RunRec, Weights
        <5> QED
          BY <3>1, <5>2, <5>3 DEF UpTo
      <4>2. CASE pc[p] # "collect"
        BY <2>1, <2>6, <3>1, <4>2 DEF LocalsFramed, Bound, Comparing, Accepted, Publishing, Within
      <4> QED
        BY <4>1, <4>2
    <3>4. pc'[p] \in Comparing \cup {"lineage"} \cup Accepted => UpTo(run'[p].traj, launches - 1)
      <4>1. CASE pc[p] \in Comparing \cup {"lineage"} \cup Accepted
        BY <2>1, <4>1 DEF AgedAt, LocalsFramed, Comparing, Accepted
      <4>2. CASE pc[p] \in Publishing
        BY <1>2, <4>2, DoesAt, Positions DEF Comparing, Accepted, Publishing, Within
      <4> QED
        BY <2>6, <4>1, <4>2 DEF Bound
    <3> QED
      BY <2>1, <3>1, <3>2, <3>3, <3>4 DEF AgedAt, Empty, Bound, Comparing, Accepted, Publishing, Within
  <2> QED
    BY <1>2, <2>4, <2>5, <2>6 DEF TypeInv, Stages
<1> QED
  BY <1>1, <1>2

LEMMA AgedIdle == ASSUME NEW q \in Procs, pc'[q] = "idle" PROVE AgedAt(q)'
  BY StageFacts, AcceptedFacts DEF AgedAt, Bound, Empty, Comparing, Accepted, Publishing, Within

LEMMA AgedNext ==
    ASSUME TypeInv, Aged, [Next]_vars
    PROVE  Aged'
<1>1. CASE UNCHANGED vars
  BY <1>1 DEF vars, Aged, AgedAt, AgedFiles, AgedFile, UpTo, Readable
<1>2. ASSUME NEW p \in Procs, Does(p) PROVE Aged'
  <2>1. \A q \in Procs \ {p} : AgedAt(q)'
    BY <1>2, DoneTypes, AgedIdle
  <2>2. AgedAt(p)'
    BY <1>2, AgedIdle, AgedKept
  <2>3. AgedFiles(disk', copy', launches')
    BY <1>2, AgedFilesNext
  <2> QED
    BY <2>1, <2>2, <2>3 DEF Aged
<1>3. CASE Suffers
  <2>1. /\ pc' = pc /\ run' = run /\ launches' = launches
        /\ disk'[State] \in {disk[State], Corrupt} /\ disk'[Prev] = disk[Prev]
        /\ copy' = copy \/ (Readable(disk[State]) /\ copy' = disk[State])
    BY <1>3 DEF Suffers, SameGens
  <2>2. ASSUME NEW n, AgedFiles(disk, copy, n) PROVE AgedFiles(disk', copy', n)
    BY <2>1, <2>2 DEF AgedFiles, Readable
  <2> QED
    BY <2>1, <2>2 DEF Aged, AgedAt
<1> QED
  BY <1>1, <1>2, <1>3, ProcessDoes, SurroundingsDo DEF Next

LEMMA AgedInit == ASSUME Init PROVE Aged
<1>1. pc = [p \in Procs |-> "idle"] /\ copy = None
  BY DEF Init
<1>2. CASE disk = NoFiles
  BY <1>1, <1>2, NameFacts, StageFacts, AcceptedFacts
     DEF Aged, AgedAt, AgedFiles, NoFiles, Readable, Bound, Empty, Comparing, Accepted, Publishing, Within
<1>3. ASSUME launches = 1, NEW v \in Invocations, NEW pin \in {None, lib}, lib \in Libs,
             disk = OlderRun(lib, v.recipe, pin, MaxIter)
      PROVE  Aged
  <2>1. OlderFiles(disk, lib, v.recipe, pin)
    BY <1>3, OlderTypes
  <2>2. /\ disk[State].run = 1 /\ disk[State].traj = <<OlderUpdate(lib, v.recipe)>>
        /\ disk[Prev] = None
    <3>1. 1 \in 1 .. MaxIter
      BY MaxIterFacts
    <3>2. Prev \in Names \ {Iter(1), Hist, State, Snapshot(lib)}
      BY <1>3, <3>1, NameFacts
    <3> QED
      BY <2>1, <3>2 DEF OlderFiles
  <2>3. UpTo(disk[State].traj, 1)
    BY <2>2 DEF UpTo, OlderUpdate
  <2>4. AgedFiles(disk, copy, launches)
    BY <1>1, <1>3, <2>2, <2>3 DEF AgedFiles, AgedFile, Readable
  <2> QED
    BY <1>1, <2>4, StageFacts, AcceptedFacts
       DEF Aged, AgedAt, Bound, Empty, Comparing, Accepted, Publishing, Within
<1> QED
  BY <1>2, <1>3 DEF Init

LEMMA SpecAged == Spec => []Aged
<1>1. Init => Aged
  BY AgedInit
<1>2. TypeInv /\ Aged /\ [Next]_vars => Aged'
  BY AgedNext
<1> QED
  BY <1>1, <1>2, SpecTypes, PTL DEF Spec

-----------------------------------------------------------------------------
(* How the updates behind a checkpoint were made. *)
OfPin(traj, pin) == \A j \in DOMAIN traj : traj[j].lib = pin
AlikeTo(r, seed, echo) == r.base_seed = seed /\ SameRecipe(Echo(r), echo)
AllAlikeTo(traj, seed, echo) == \A j \in DOMAIN traj : AlikeTo(traj[j].recipe, seed, echo)
AllAlike(traj, r) == \A j \in DOMAIN traj : Alike(traj[j].recipe, r)
WarmOK(r, init) == r.head_lr => r.head_lr_iters > 0 /\ "init_from_bc" \in init
PacedAt(u, j, init) ==
    /\ WarmOK(u.recipe, init)
    /\ u.rate = "head_lr" <=> u.recipe.head_lr /\ j <= u.recipe.head_lr_iters
Paced(traj, init) == \A j \in DOMAIN traj : PacedAt(traj[j], j, init)
Lost(d, l) == d[Snapshot(l)] = None \/ \E m \in Libs \ {l} : d[Snapshot(l)] = [content |-> m]
Cautious(traj) == \A j, k \in DOMAIN traj : j < k /\ ~traj[j].moved => traj[k].by # traj[j].by

GoodFile(c) == OneSimulator(c) /\ OneRecipe(c) /\ Cautious(c.traj)
GoodState(g) ==
    /\ OneSimulator(g) /\ Cautious(g.traj) /\ Paced(g.traj, g.init)
    /\ g.run \in waived \/ g.pin = None \/ OfPin(g.traj, g.pin)
    /\ Len(g.traj) = g.next - 1
    /\ AllAlikeTo(g.traj, g.seed, g.echo)

Trained == {"verify", "save", "unstale", "history", "keep", "swap", "gate"}

WaivedAt(p) == pc[p] \in Bound /\ Mismatch(p) => run[p].id \in waived
PinnedAt(p) ==
    LET r == run[p] IN
    /\ pc[p] \in Bound \ {"verify"} => r.id \in waived \/ OfPin(r.traj, r.pin)
    /\ pc[p] = "collect" => \/ r.id \in waived \/ Lost(disk, r.pin)
                            \/ disk[Snapshot(r.pin)] = [content |-> r.pin]
    /\ pc[p] = "verify" => r.id \in waived \/ Lost(disk, r.pin) \/ OfPin(r.traj, r.pin)
AllMoved(traj, by, n) == \A j \in 1 .. n : traj[j].by = by => traj[j].moved
CountedAt(p) ==
    LET r == run[p] IN
    pc[p] \in Bound => /\ Len(r.traj) = IF pc[p] \in Trained THEN r.i ELSE r.i - 1
                       /\ AllMoved(r.traj, r.by, r.i - 1)
                       /\ Cautious(r.traj)
                       /\ pc[p] \in Comparing => r.i > 1
RecipeAt(p) ==
    LET r == run[p] IN
    /\ pc[p] \in Bound => Paced(r.traj, r.init)
    /\ pc[p] \in Empty => WarmOK(r.recipe, r.opts)
    /\ pc[p] \in Comparing => AllAlikeTo(r.traj, r.recipe.base_seed, r.saved.echo)
    /\ pc[p] \in {"lineage"} \cup Accepted \cup Publishing =>
          WarmOK(r.recipe, r.init) /\ AllAlike(r.traj, r.recipe)

GoodFiles ==
    /\ \A n \in 1 .. MaxIter : disk[Iter(n)] # None => GoodFile(disk[Iter(n)])
    /\ \A n \in {State, Prev} : Readable(disk[n]) => GoodState(disk[n])
    /\ copy # None => GoodState(copy)

MadeAt(p) == WaivedAt(p) /\ PinnedAt(p) /\ CountedAt(p) /\ RecipeAt(p)
Made == GoodFiles /\ \A p \in Procs : MadeAt(p)

LEMMA StageSets ==
    /\ Bound = {"bridge", "snapshot", "echo", "lineage", "quarantine", "truncate", "loop", "collect",
                "verify", "save", "unstale", "history", "keep", "swap", "gate"}
    /\ Comparing = {"bridge", "snapshot", "echo"}
    /\ {"lineage"} \cup Accepted \cup Publishing =
          {"lineage", "quarantine", "truncate", "loop", "collect", "verify", "save", "unstale",
           "history", "keep", "swap", "gate"}
    /\ Empty = {"scan", "build", "move", "copylib"}
    /\ Trained = {"verify", "save", "unstale", "history", "keep", "swap", "gate"}
  BY DEF Bound, Comparing, Accepted, Publishing, Within, Empty, Trained

LEMMA MadeIdle == ASSUME NEW q \in Procs, pc'[q] = "idle" PROVE MadeAt(q)'
  BY StageSets DEF MadeAt, WaivedAt, PinnedAt, CountedAt, RecipeAt

(* A launch that is bound to a run came from a load, from the start of one, or was bound. *)
LEMMA BoundFrom ==
    ASSUME TypeInv, NEW p \in Procs, Does(p), pc[p] # "idle", pc'[p] # "idle"
    PROVE  /\ pc'[p] \in Bound => pc[p] \in Bound \cup {"load", "copylib"}
           /\ pc[p] \in Bound => pc'[p] \in Bound
           /\ pc'[p] \in Comparing => pc[p] \in Comparing \cup {"load"}
           /\ pc'[p] \in Empty => pc[p] \in Empty
           /\ pc[p] = "collect" <=> pc'[p] = "verify"
           /\ pc[p] \in Trained \ {"gate"} => pc'[p] \in Trained
           /\ pc'[p] \in Trained => pc[p] \in Trained \cup {"collect"}
<1>1. <<pc[p], pc'[p]>> \in
         {<<"load", "bridge">>, <<"bridge", "snapshot">>, <<"snapshot", "echo">>, <<"echo", "lineage">>,
          <<"lineage", "quarantine">>, <<"quarantine", "quarantine">>, <<"quarantine", "truncate">>,
          <<"truncate", "loop">>, <<"scan", "build">>, <<"build", "move">>, <<"move", "move">>,
          <<"move", "copylib">>, <<"copylib", "loop">>, <<"loop", "collect">>, <<"collect", "verify">>,
          <<"verify", "save">>, <<"save", "unstale">>, <<"unstale", "history">>, <<"history", "keep">>,
          <<"history", "gate">>, <<"keep", "swap">>, <<"swap", "gate">>, <<"gate", "loop">>}
  BY Positions DEF Does
<1> QED
  BY <1>1, StageSets

LEMMA WaivedKept ==
    ASSUME TypeInv, NEW p \in Procs, Does(p), WaivedAt(p), pc'[p] \in Bound, pc[p] # "idle"
    PROVE  WaivedAt(p)'
<1>0. run[p] \in RunRec /\ LocalsFramed(p) /\ waived \subseteq waived' /\ pc'[p] # "idle"
  BY LocalsFrame, FilesFrame, StageSets DEF TypeInv
<1>1. CASE pc[p] = "load"
  <2>1. Loads(p)
    BY <1>0, <1>1, DoesAt
  <2>2. run'[p].id = Generation(run[p].from).run
    BY <1>0, <2>1 DEF Loads, RunRec
  <2>3. Mismatch(p)' => Mismatch(p)
    BY <1>0 DEF LocalsFramed, Mismatch
  <2> QED
    BY <2>1, <2>2, <2>3 DEF Loads, WaivedAt
<1>2. CASE pc[p] = "copylib"
  <2>1. StartsRun(p)
    BY <1>0, <1>2, DoesAt
  <2>2. run'[p].id = run[p].by
    BY <1>0, <2>1 DEF StartsRun, RunRec
  <2>3. Mismatch(p)' => Mismatch(p)
    BY <1>0 DEF LocalsFramed, Mismatch
  <2> QED
    BY <2>1, <2>2, <2>3 DEF StartsRun, WaivedAt
<1>3. CASE pc[p] \in Bound
  BY <1>0, <1>3, StageSets DEF LocalsFramed, WaivedAt, Mismatch
<1> QED
  BY <1>0, <1>1, <1>2, <1>3, BoundFrom

LEMMA CollectFacts ==
    ASSUME TypeInv, NEW p \in Procs, Collects(p)
    PROVE  \E u : /\ run'[p].traj = Append(run[p].traj, u) /\ run[p].traj \in Seq(Update)
                  /\ u.by = run[p].by /\ u.lib = Loaded(p).content /\ u.recipe = run[p].recipe
                  /\ u.rate = Rate(p) /\ u.moved \in BOOLEAN
<1> DEFINE w(moved) == [by |-> run[p].by, lib |-> Loaded(p).content, recipe |-> run[p].recipe,
                        rate |-> Rate(p), moved |-> moved]
<1>1. PICK moved \in BOOLEAN : run'[p] = [run[p] EXCEPT !.traj = Append(@, w(moved))]
  BY DEF Collects
<1>2. /\ w(moved).by = run[p].by /\ w(moved).lib = Loaded(p).content /\ w(moved).recipe = run[p].recipe
      /\ w(moved).rate = Rate(p) /\ w(moved).moved \in BOOLEAN
  OBVIOUS
<1>3. run[p] \in RunRec
  BY DEF TypeInv
<1> HIDE DEF w
<1>4. run'[p].traj = Append(run[p].traj, w(moved)) /\ run[p].traj \in Seq(Update)
  BY <1>1, <1>3 DEF RunRec, Weights
<1> QED
  BY <1>2, <1>4

LEMMA PinnedKept ==
    ASSUME TypeInv, NEW p \in Procs, Does(p), WaivedAt(p), PinnedAt(p), AgedAt(p), GoodFiles,
           pc'[p] \in Bound, pc[p] # "idle"
    PROVE  PinnedAt(p)'
<1>0. run[p] \in RunRec /\ LocalsFramed(p) /\ waived \subseteq waived' /\ pc'[p] # "idle"
  BY LocalsFrame, FilesFrame, StageSets DEF TypeInv
<1>1. CASE pc[p] = "load"
  <2> DEFINE g == Generation(run[p].from)
  <2>1. Loads(p) /\ pc'[p] = "bridge"
    BY <1>0, <1>1, DoesAt, Positions
  <2>2. /\ run'[p].id = g.run /\ run'[p].traj = g.traj /\ run'[p].pin = IF g.pin = None THEN lib ELSE g.pin
        /\ g.pin = None => g.run \in waived'
        /\ Readable(g)
    BY <1>0, <2>1 DEF Loads, RunRec
  <2>3. GoodState(g)
    BY <2>2 DEF GoodFiles, Generation, Readable
  <2>4. g.run \in waived' \/ OfPin(run'[p].traj, run'[p].pin)
    BY <1>0, <2>2, <2>3 DEF GoodState
  <2> QED
    BY <2>1, <2>2, <2>4 DEF PinnedAt
<1>2. CASE pc[p] = "copylib"
  <2>1. StartsRun(p) /\ pc'[p] = "loop"
    BY <1>0, <1>2, DoesAt, Positions
  <2>2. run'[p].traj = <<>>
    BY <1>0, <1>2 DEF LocalsFramed, AgedAt, Empty
  <2> QED
    BY <2>1, <2>2 DEF PinnedAt, OfPin
<1>3. CASE pc[p] = "snapshot"
  <2>1. Binds(p) /\ pc'[p] = "echo"
    BY <1>0, <1>3, DoesAt, Positions
  <2>2. PICK bound \in Libs : bound # run[p].pin => Mismatch(p) /\ run'[p] = [run[p] EXCEPT !.pin = bound]
    BY <2>1 DEF Binds
  <2>3. \/ run[p].id \in waived
        \/ run'[p].pin = run[p].pin
    BY <1>0, <1>3, <2>1, <2>2, StageSets DEF Binds, WaivedAt, RunRec
  <2>4. run'[p].traj = run[p].traj /\ run'[p].id = run[p].id
    BY <1>0, <1>3 DEF LocalsFramed
  <2>5. run[p].id \in waived \/ OfPin(run[p].traj, run[p].pin)
    BY <1>3, StageSets DEF PinnedAt
  <2> QED
    BY <1>0, <2>1, <2>3, <2>4, <2>5 DEF PinnedAt
<1>4. CASE pc[p] = "loop"
  <2>1. Moves(p, "loop", "collect") /\ Unchanged(p) /\ pc'[p] = "collect"
    BY <1>0, <1>4, DoesAt, Positions
  <2>2. run[p].id \in waived \/ disk[Snapshot(run[p].pin)] = [content |-> run[p].pin]
    BY <1>4, <2>1, StageSets DEF Unchanged, Loaded, WaivedAt
  <2>3. run[p].id \in waived \/ OfPin(run[p].traj, run[p].pin)
    BY <1>4, StageSets DEF PinnedAt
  <2>4. disk' = disk /\ run'[p] = run[p] /\ waived' = waived
    BY <2>1 DEF Moves
  <2> QED
    BY <2>1, <2>2, <2>3, <2>4 DEF PinnedAt
<1>5. CASE pc[p] = "collect"
  <2>1. Collects(p) /\ pc'[p] = "verify"
    BY <1>0, <1>5, DoesAt, Positions
  <2>2. PICK u : /\ run'[p].traj = Append(run[p].traj, u) /\ run[p].traj \in Seq(Update)
                 /\ u.lib = Loaded(p).content
    BY <2>1, CollectFacts
  <2>3. disk' = disk /\ waived' = waived /\ run'[p].pin = run[p].pin /\ run'[p].id = run[p].id
    BY <1>0, <1>5, <2>1 DEF Collects, LocalsFramed
  <2>4. CASE run[p].id \in waived \/ Lost(disk, run[p].pin)
    BY <2>1, <2>3, <2>4 DEF PinnedAt, Lost
  <2>5. CASE ~(run[p].id \in waived \/ Lost(disk, run[p].pin))
    <3>1. disk[Snapshot(run[p].pin)] = [content |-> run[p].pin] /\ OfPin(run[p].traj, run[p].pin)
      BY <1>5, <2>5, StageSets DEF PinnedAt
    <3>2. u.lib = run[p].pin
      BY <2>2, <3>1 DEF Loaded
    <3>3. OfPin(run'[p].traj, run[p].pin)
      BY <2>2, <3>1, <3>2 DEF OfPin
    <3> QED
      BY <2>1, <2>3, <3>3 DEF PinnedAt
  <2> QED
    BY <2>4, <2>5
<1>6. CASE pc[p] = "verify"
  <2>1. Moves(p, "verify", "save") /\ Unchanged(p) /\ pc'[p] = "save"
    BY <1>0, <1>6, DoesAt, Positions
  <2>2. run[p].id \in waived \/ ~Lost(disk, run[p].pin)
    <3>1. CASE Mismatch(p)
      BY <1>6, <3>1, StageSets DEF WaivedAt
    <3>2. CASE ~Mismatch(p)
      <4>1. disk[Snapshot(run[p].pin)] # None /\ disk[Snapshot(run[p].pin)] = [content |-> run[p].pin]
        BY <2>1, <3>2 DEF Unchanged, Loaded
      <4>2. \A m : [content |-> m] = [content |-> run[p].pin] => m = run[p].pin
        OBVIOUS
      <4> QED
        BY <4>1, <4>2 DEF Lost
    <3> QED
      BY <3>1, <3>2
  <2>3. run[p].id \in waived \/ OfPin(run[p].traj, run[p].pin)
    BY <1>6, <2>2 DEF PinnedAt
  <2>4. disk' = disk /\ run'[p] = run[p] /\ waived' = waived
    BY <2>1 DEF Moves
  <2> QED
    BY <2>1, <2>3, <2>4 DEF PinnedAt
<1>7. CASE pc[p] \in Bound \ {"snapshot", "loop", "collect", "verify"}
  <2>1. run[p].id \in waived \/ OfPin(run[p].traj, run[p].pin)
    BY <1>7 DEF PinnedAt
  <2>2. run'[p].id = run[p].id /\ run'[p].traj = run[p].traj /\ run'[p].pin = run[p].pin
    BY <1>0, <1>7, StageSets DEF LocalsFramed
  <2>3. pc'[p] \notin {"collect", "verify"}
    BY <1>0, <1>7, BoundFrom, DoesAt, Positions, StageSets
  <2> QED
    BY <1>0, <2>1, <2>2, <2>3 DEF PinnedAt
<1> QED
  BY <1>0, <1>1, <1>2, <1>3, <1>4, <1>5, <1>6, <1>7, BoundFrom, StageSets

(* Appending one more update. *)
LEMMA CautiousAppend ==
    ASSUME NEW S, NEW traj \in Seq(S), NEW u, Cautious(traj), AllMoved(traj, u.by, Len(traj))
    PROVE  Cautious(Append(traj, u))
<1>1. SUFFICES ASSUME NEW j \in 1 .. Len(traj) + 1, NEW k \in 1 .. Len(traj) + 1, j < k,
                      ~Append(traj, u)[j].moved
               PROVE  Append(traj, u)[k].by # Append(traj, u)[j].by
  BY DEF Cautious
<1>2. j \in 1 .. Len(traj) /\ Append(traj, u)[j] = traj[j]
  BY <1>1
<1>3. CASE k \in 1 .. Len(traj)
  BY <1>1, <1>2, <1>3 DEF Cautious
<1>4. CASE k = Len(traj) + 1
  BY <1>1, <1>2, <1>4 DEF AllMoved
<1> QED
  BY <1>1, <1>3, <1>4

LEMMA CountedKept ==
    ASSUME TypeInv, NEW p \in Procs, Does(p), CountedAt(p), AgedAt(p), GoodFiles,
           pc'[p] \in Bound, pc[p] # "idle"
    PROVE  CountedAt(p)'
<1>0. /\ run[p] \in RunRec /\ LocalsFramed(p) /\ pc'[p] # "idle" /\ run'[p].by = run[p].by
      /\ run[p].by = launches /\ launches \in Int
  BY LocalsFrame, LocalsKept, StageSets, Alone DEF TypeInv
<1>1. CASE pc[p] = "load"
  <2> DEFINE g == Generation(run[p].from)
  <2>1. Loads(p) /\ pc'[p] = "bridge"
    BY <1>0, <1>1, DoesAt, Positions
  <2>2. run'[p].i = g.next /\ run'[p].traj = g.traj /\ Readable(g)
    BY <1>0, <2>1 DEF Loads, RunRec
  <2>3. GoodState(g) /\ AgedFile(g, launches - 1)
    BY <1>1, <2>2 DEF GoodFiles, Generation, Readable, AgedAt, AgedFiles
  <2>4. Len(g.traj) = g.next - 1 /\ Cautious(g.traj)
    BY <2>3 DEF GoodState
  <2>5. g \in StateFile
    BY <2>1 DEF Loads
  <2>6. g.traj \in Seq(Update)
    BY <2>5 DEF StateFile, Weights
  <2>7. AllMoved(g.traj, run[p].by, g.next - 1)
    BY <1>0, <2>3, <2>4, <2>6 DEF AgedFile, UpTo, AllMoved
  <2>8. g.next > 1
    BY <2>5, MaxIterFacts DEF StateFile
  <2> QED
    BY <1>0, <2>1, <2>2, <2>4, <2>7, <2>8 DEF CountedAt, Trained
<1>2. CASE pc[p] = "copylib"
  <2>1. StartsRun(p) /\ pc'[p] = "loop"
    BY <1>0, <1>2, DoesAt, Positions
  <2>2. run'[p].traj = <<>> /\ run'[p].i = 1
    BY <1>0, <1>2, <2>1 DEF LocalsFramed, AgedAt, Empty, StartsRun, RunRec
  <2> QED
    BY <2>1, <2>2, StageSets DEF CountedAt, Cautious, AllMoved
<1>3. CASE pc[p] = "collect"
  <2>1. Collects(p) /\ pc'[p] = "verify"
    BY <1>0, <1>3, DoesAt, Positions
  <2>2. PICK u : /\ run'[p].traj = Append(run[p].traj, u) /\ run[p].traj \in Seq(Update)
                 /\ u.by = run[p].by
    BY <2>1, CollectFacts
  <2>3. run'[p].i = run[p].i /\ run[p].i \in Int
    BY <1>0, <1>3, BoundFacts, StageSets, MaxIterFacts DEF LocalsFramed
  <2>4. Len(run[p].traj) = run[p].i - 1 /\ AllMoved(run[p].traj, run[p].by, run[p].i - 1)
        /\ Cautious(run[p].traj)
    BY <1>3, StageSets DEF CountedAt
  <2>5. Len(run'[p].traj) = run'[p].i
    BY <2>2, <2>3, <2>4
  <2>6. AllMoved(run'[p].traj, run[p].by, run'[p].i - 1)
    BY <2>2, <2>3, <2>4 DEF AllMoved
  <2>7. Cautious(run'[p].traj)
    BY <2>2, <2>4, CautiousAppend
  <2> QED
    BY <1>0, <2>1, <2>5, <2>6, <2>7, StageSets DEF CountedAt
<1>4. CASE pc[p] = "gate"
  <2>1. Advances(p) /\ pc'[p] = "loop"
    BY <1>0, <1>4, DoesAt, Positions
  <2>2. run'[p].i = run[p].i + 1 /\ run[p].i \in Int /\ run'[p].traj = run[p].traj
    BY <1>0, <1>4, <2>1, BoundFacts, StageSets, MaxIterFacts DEF Advances, RunRec
  <2>3. Len(run[p].traj) = run[p].i /\ AllMoved(run[p].traj, run[p].by, run[p].i - 1)
        /\ Cautious(run[p].traj) /\ run[p].traj[Len(run[p].traj)].moved
    BY <1>4, <2>1, StageSets DEF CountedAt, Advances, Halted
  <2>4. AllMoved(run[p].traj, run[p].by, run'[p].i - 1)
    BY <2>2, <2>3 DEF AllMoved
  <2> QED
    BY <1>0, <2>1, <2>2, <2>3, <2>4, StageSets DEF CountedAt
<1>5. CASE pc[p] \in Bound \ {"collect", "gate"}
  <2>1. run'[p].traj = run[p].traj /\ run'[p].i = run[p].i
    BY <1>0, <1>5, StageSets DEF LocalsFramed
  <2>2. /\ pc[p] \in Trained <=> pc'[p] \in Trained
        /\ pc'[p] \in Comparing => pc[p] \in Comparing
    BY <1>0, <1>5, BoundFrom, StageSets
  <2> QED
    BY <1>0, <1>5, <2>1, <2>2 DEF CountedAt
<1> QED
  BY <1>0, <1>1, <1>2, <1>3, <1>4, <1>5, BoundFrom, StageSets

(* Recipes compared through a saved one are alike, and alike recipes are saved alike. *)
LEMMA EchoDomain == ASSUME NEW r \in Recipes, NEW q \in Recipes PROVE DOMAIN Echo(r) = DOMAIN Echo(q)
  BY RecipeFacts DEF Echo

LEMMA AlikeBySaved ==
    ASSUME NEW r \in Recipes, NEW q \in Recipes, NEW seed, NEW echo,
           AlikeTo(r, seed, echo), AlikeTo(q, seed, echo)
    PROVE  Alike(r, q)
<1>1. Filled(Echo(r), echo) = Filled(Echo(q), echo)
  BY EchoDomain DEF Filled
<1> DEFINE before == Filled(Echo(r), echo)
<1>2. /\ DOMAIN before = DOMAIN Echo(r)
      /\ \A f \in DOMAIN Echo(r) \ Logged : before[f] = Echo(r)[f]
      /\ \A f \in DOMAIN Echo(q) \ Logged : before[f] = Echo(q)[f]
  BY <1>1 DEF AlikeTo, SameRecipe
<1> HIDE DEF before
<1>3. r.base_seed = seed /\ q.base_seed = seed
  BY DEF AlikeTo
<1>4. SUFFICES ASSUME NEW f \in DOMAIN r \ Logged PROVE r[f] = q[f]
  BY DEF Alike
<1>5. CASE f = "base_seed"
  BY <1>3, <1>5
<1>6. CASE f # "base_seed"
  <2>1. f \in DOMAIN Echo(r) \ Logged /\ f \in DOMAIN Echo(q) \ Logged
    BY <1>4, <1>6, RecipeFacts DEF Echo
  <2>2. Echo(r)[f] = r[f] /\ Echo(q)[f] = q[f]
    BY <2>1 DEF Echo
  <2> QED
    BY <1>2, <2>1, <2>2
<1> QED
  BY <1>5, <1>6

LEMMA SavedAlike ==
    ASSUME NEW r \in Recipes, NEW q \in Recipes, Alike(r, q)
    PROVE  AlikeTo(r, q.base_seed, Echo(q))
<1>1. DOMAIN Echo(r) = DOMAIN Echo(q) /\ DOMAIN Echo(r) = DOMAIN r \ {"base_seed"} /\ DOMAIN r = DOMAIN q
  BY RecipeFacts DEF Echo
<1> DEFINE before == Filled(Echo(r), Echo(q))
<1>2. before = [f \in DOMAIN Echo(q) |-> Echo(q)[f]]
  BY <1>1 DEF Filled
<1>3. DOMAIN before = DOMAIN Echo(r)
  BY <1>1, <1>2
<1>4. ASSUME NEW f \in DOMAIN Echo(r) \ Logged PROVE before[f] = Echo(r)[f]
  <2>1. before[f] = q[f] /\ Echo(r)[f] = r[f]
    BY <1>1, <1>2, <1>4 DEF Echo
  <2> QED
    BY <1>1, <1>4, <2>1 DEF Alike
<1>5. r.base_seed = q.base_seed
  BY RecipeFacts DEF Alike, Logged
<1> QED
  BY <1>3, <1>4, <1>5 DEF AlikeTo, SameRecipe

LEMMA OlderAlike ==
    ASSUME NEW r \in Recipes,
           \A f \in DOMAIN LegacyAdditions : f \in DOMAIN r /\ r[f] = LegacyAdditions[f]
    PROVE  AlikeTo(r, r.base_seed, OlderEcho(r))
<1> DEFINE before == Filled(Echo(r), OlderEcho(r))
           L == DOMAIN LegacyAdditions
<1>1. DOMAIN Echo(r) = DOMAIN r \ {"base_seed"} /\ DOMAIN OlderEcho(r) = DOMAIN Echo(r) \ L
  BY DEF Echo, OlderEcho
<1>2. DOMAIN before = DOMAIN Echo(r)
  BY <1>1 DEF Filled
<1>3. ASSUME NEW f \in DOMAIN Echo(r) PROVE before[f] = Echo(r)[f]
  <2>1. Echo(r)[f] = r[f]
    BY <1>3 DEF Echo
  <2>2. before[f] = IF f \in DOMAIN OlderEcho(r) THEN OlderEcho(r)[f] ELSE LegacyAdditions[f]
    BY <1>1, <1>3 DEF Filled
  <2>3. f \in DOMAIN OlderEcho(r) => OlderEcho(r)[f] = r[f]
    BY DEF OlderEcho
  <2>4. f \notin DOMAIN OlderEcho(r) => LegacyAdditions[f] = r[f]
    BY <1>1, <1>3
  <2> QED
    BY <2>1, <2>2, <2>3, <2>4
<1> QED
  BY <1>2, <1>3 DEF AlikeTo, SameRecipe

LEMMA AlikeFacts ==
    /\ \A r \in Recipes : Alike(r, r)
    /\ \A r, q, t \in Recipes : Alike(r, t) /\ Alike(q, t) => Alike(r, q)
    /\ \A r, q \in Recipes : Alike(r, q) => r.head_lr = q.head_lr /\ r.head_lr_iters = q.head_lr_iters
<1>1. \A r, q, t \in Recipes : Alike(r, t) /\ Alike(q, t) => Alike(r, q)
  BY RecipeFacts DEF Alike
<1>2. \A r, q \in Recipes : Alike(r, q) => r.head_lr = q.head_lr /\ r.head_lr_iters = q.head_lr_iters
  BY RecipeFacts DEF Alike, Logged
<1> QED
  BY <1>1, <1>2 DEF Alike

LEMMA WeightFacts ==
    ASSUME NEW traj \in Weights
    PROVE  /\ traj \in Seq(Update) /\ Len(traj) \in Nat /\ DOMAIN traj = 1 .. Len(traj)
           /\ \A j \in DOMAIN traj : traj[j] \in Update /\ traj[j].recipe \in Recipes
                                     /\ traj[j].rate \in {"lr", "head_lr"} /\ traj[j].moved \in BOOLEAN
<1>1. traj \in Seq(Update) /\ Len(traj) \in Nat /\ DOMAIN traj = 1 .. Len(traj)
  BY DEF Weights
<1>2. \A j \in DOMAIN traj : traj[j] \in Update
  BY <1>1, ElementOfSeq
<1> QED
  BY <1>1, <1>2 DEF Update

LEMMA RecipeKept ==
    ASSUME TypeInv, NEW p \in Procs, Does(p), RecipeAt(p), CountedAt(p), AgedAt(p), GoodFiles,
           pc'[p] # "idle"
    PROVE  RecipeAt(p)'
<1>1. CASE pc[p] = "idle"
  <2>1. CASE StartsFresh(p)
    <3>1. pc'[p] = "scan" /\ WarmOK(run'[p].recipe, run'[p].opts)
      BY <2>1 DEF StartsFresh, Starts, WarmOK
    <3> QED
      BY <3>1, StageSets DEF RecipeAt
  <2>2. CASE StartsAgain(p) \/ StartsCopy(p)
    <3>1. pc'[p] = "load"
      BY <2>2 DEF StartsAgain, StartsCopy, Starts
    <3> QED
      BY <3>1, StageSets DEF RecipeAt
  <2> QED
    BY <1>1, <2>1, <2>2, Positions DEF Does
<1>2. CASE pc[p] # "idle"
  <2> DEFINE s == run'[p]
  <2>0. /\ run[p] \in RunRec /\ LocalsFramed(p) /\ s.recipe = run[p].recipe /\ run[p].recipe \in Recipes
        /\ run[p].traj \in Weights
    BY <1>2, LocalsFrame, LocalsKept, Alone DEF RunRec
  <2>1. CASE pc[p] = "load"
    <3> DEFINE g == Generation(run[p].from)
    <3>1. Loads(p) /\ pc'[p] = "bridge"
      BY <2>1, DoesAt, Positions
    <3>2. /\ s.traj = g.traj /\ s.init = g.init /\ s.saved = [target |-> g.target, echo |-> g.echo]
          /\ Readable(g) /\ g.seed = run[p].recipe.base_seed
      BY <2>0, <3>1 DEF Loads, RunRec
    <3>3. GoodState(g)
      BY <3>2 DEF GoodFiles, Generation, Readable
    <3>4. s.saved.echo = g.echo
      BY <3>2
    <3>5. Paced(s.traj, s.init) /\ AllAlikeTo(s.traj, s.recipe.base_seed, s.saved.echo)
      BY <2>0, <3>2, <3>3, <3>4 DEF GoodState
    <3> QED
      BY <3>1, <3>5, StageSets DEF RecipeAt
  <2>2. CASE pc[p] = "copylib"
    <3>1. StartsRun(p) /\ pc'[p] = "loop"
      BY <1>2, <2>2, DoesAt, Positions
    <3>2. s.traj = <<>> /\ s.init = run[p].opts \cap {"scratch", "champion", "init_from_bc"}
      BY <2>0, <2>2, <3>1, StageSets DEF LocalsFramed, AgedAt, StartsRun, RunRec
    <3>3. WarmOK(s.recipe, s.init)
      BY <2>0, <2>2, <3>2, StageSets DEF RecipeAt, WarmOK
    <3> QED
      BY <3>1, <3>2, <3>3, StageSets DEF RecipeAt, Paced, AllAlike
  <2>3. CASE pc[p] = "echo"
    <3>1. Compares(p) /\ pc'[p] = "lineage"
      BY <2>3, DoesAt, Positions
    <3>2. s.traj = run[p].traj /\ s.init = run[p].init
      BY <2>0, <2>3 DEF LocalsFramed
    <3>3. /\ Paced(run[p].traj, run[p].init)
          /\ AllAlikeTo(run[p].traj, run[p].recipe.base_seed, run[p].saved.echo)
      BY <2>3, StageSets DEF RecipeAt
    <3>4. AlikeTo(run[p].recipe, run[p].recipe.base_seed, run[p].saved.echo)
      BY <3>1 DEF Compares, AlikeTo
    <3>5. AllAlike(run[p].traj, run[p].recipe)
      BY <2>0, <3>3, <3>4, WeightFacts, AlikeBySaved DEF AllAlike, AllAlikeTo
    <3>6. WarmOK(run[p].recipe, run[p].init)
      <4>1. run[p].i > 1 /\ Len(run[p].traj) = run[p].i - 1 /\ run[p].i \in Int
        BY <2>3, StageSets, BoundFacts, MaxIterFacts DEF CountedAt
      <4>2. 1 \in DOMAIN run[p].traj
        BY <2>0, <4>1, WeightFacts, MaxIterFacts
      <4>3. run[p].traj[1].recipe \in Recipes /\ Alike(run[p].traj[1].recipe, run[p].recipe)
            /\ WarmOK(run[p].traj[1].recipe, run[p].init)
        BY <2>0, <3>3, <3>5, <4>2, WeightFacts DEF AllAlike, Paced, PacedAt
      <4> QED
        BY <2>0, <4>3, AlikeFacts DEF WarmOK
    <3> QED
      BY <2>0, <3>1, <3>2, <3>3, <3>5, <3>6, StageSets DEF RecipeAt
  <2>4. CASE pc[p] = "collect"
    <3>1. Collects(p) /\ pc'[p] = "verify"
      BY <2>4, DoesAt, Positions
    <3>2. PICK u : /\ s.traj = Append(run[p].traj, u) /\ run[p].traj \in Seq(Update)
                   /\ u.recipe = run[p].recipe /\ u.rate = Rate(p)
      BY <3>1, CollectFacts
    <3>3. /\ Paced(run[p].traj, run[p].init) /\ WarmOK(run[p].recipe, run[p].init)
          /\ AllAlike(run[p].traj, run[p].recipe) /\ s.init = run[p].init
      BY <2>0, <2>4, StageSets DEF RecipeAt, LocalsFramed
    <3>4. Len(run[p].traj) = run[p].i - 1 /\ run[p].i \in Int
      BY <2>0, <2>4, StageSets, BoundFacts, MaxIterFacts DEF CountedAt, Trained
    <3>5. PacedAt(u, Len(run[p].traj) + 1, run[p].init)
      BY <3>2, <3>3, <3>4 DEF PacedAt, Rate
    <3>6. Paced(s.traj, s.init)
      BY <3>2, <3>3, <3>5 DEF Paced
    <3>7. AllAlike(s.traj, run[p].recipe)
      BY <2>0, <3>2, <3>3, AlikeFacts DEF AllAlike
    <3> QED
      BY <2>0, <3>1, <3>3, <3>6, <3>7, StageSets DEF RecipeAt
  <2>5. CASE pc[p] \in (Bound \cup Empty) \ {"echo", "collect", "copylib"}
    <3>1. /\ s.traj = run[p].traj /\ s.init = run[p].init /\ s.opts = run[p].opts
          /\ s.saved = run[p].saved
      BY <2>0, <2>5, StageSets DEF LocalsFramed
    <3>2. /\ pc'[p] \in Bound => pc[p] \in Bound
          /\ pc'[p] \in Empty => pc[p] \in Empty
          /\ pc'[p] \in Comparing => pc[p] \in Comparing
          /\ pc'[p] \in {"lineage"} \cup Accepted \cup Publishing =>
                pc[p] \in {"lineage"} \cup Accepted \cup Publishing
      BY <1>2, <2>5, BoundFrom, DoesAt, Positions, StageSets
    <3> QED
      BY <2>0, <3>1, <3>2 DEF RecipeAt
  <2> QED
    BY <1>2, <2>1, <2>2, <2>3, <2>4, <2>5, StageSets DEF TypeInv, Stages
<1> QED
  BY <1>1, <1>2

LEMMA GoodStill ==
    ASSUME waived \subseteq waived'
    PROVE  /\ \A c : GoodFile(c) => GoodFile(c)'
           /\ \A g : GoodState(g) => GoodState(g)'
  BY DEF GoodFile, GoodState, OneSimulator, OneRecipe

LEMMA OneRecipeOf ==
    ASSUME NEW c, c.traj \in Weights, Paced(c.traj, c.init),
           \A j, k \in DOMAIN c.traj : Alike(c.traj[j].recipe, c.traj[k].recipe)
    PROVE  OneRecipe(c)
<1>1. SUFFICES ASSUME NEW j \in DOMAIN c.traj
               PROVE  LET u == c.traj[j] IN
                      /\ Alike(u.recipe, c.traj[1].recipe)
                      /\ (u.rate = "head_lr") = (u.recipe.head_lr /\ j <= IF u.recipe.head_lr_iters > 1
                                                            THEN u.recipe.head_lr_iters ELSE 1)
                      /\ u.rate = "head_lr" => "init_from_bc" \in c.init
  BY DEF OneRecipe
<1> DEFINE r == c.traj[j].recipe
           n == r.head_lr_iters
<1>2. DOMAIN c.traj = 1 .. Len(c.traj) /\ Len(c.traj) \in Nat /\ r \in Recipes
  BY <1>1, WeightFacts
<1>3. 1 \in DOMAIN c.traj
  BY <1>1, <1>2
<1>4. r.head_lr \in BOOLEAN /\ n \in Nat
  BY <1>2, RecipeFacts
<1>5. /\ c.traj[j].rate = "head_lr" <=> r.head_lr /\ j <= n
      /\ r.head_lr => n > 0 /\ "init_from_bc" \in c.init
  BY <1>1 DEF Paced, PacedAt, WarmOK
<1> HIDE DEF r, n
<1>6. r.head_lr => (j <= n <=> j <= IF n > 1 THEN n ELSE 1)
  BY <1>4, <1>5
<1>7. (c.traj[j].rate = "head_lr") = (r.head_lr /\ j <= IF n > 1 THEN n ELSE 1)
  BY <1>4, <1>5, <1>6
<1> QED
  BY <1>1, <1>3, <1>5, <1>7 DEF r, n

LEMMA SavedIsGood ==
    ASSUME TypeInv, NEW p \in Procs, pc[p] \in Trained \ {"verify"}, MadeAt(p),
           NEW c, c.run = run[p].id, c.traj = run[p].traj, c.init = run[p].init
    PROVE  GoodFile(c)
<1>0. run[p].traj \in Weights /\ run[p].recipe \in Recipes
  BY Alone, StageSets DEF RunRec
<1>1. /\ run[p].id \in waived \/ OfPin(run[p].traj, run[p].pin)
      /\ Cautious(run[p].traj) /\ Paced(run[p].traj, run[p].init)
      /\ AllAlike(run[p].traj, run[p].recipe)
  BY StageSets DEF MadeAt, PinnedAt, CountedAt, RecipeAt
<1>2. OneSimulator(c)
  BY <1>1 DEF OneSimulator, OfPin
<1>3. \A j, k \in DOMAIN c.traj : Alike(c.traj[j].recipe, c.traj[k].recipe)
  <2> TAKE j, k \in DOMAIN c.traj
  <2>1. /\ c.traj[j].recipe \in Recipes /\ c.traj[k].recipe \in Recipes
        /\ Alike(c.traj[j].recipe, run[p].recipe) /\ Alike(c.traj[k].recipe, run[p].recipe)
    BY <1>0, <1>1, WeightFacts DEF AllAlike
  <2> QED
    BY <1>0, <2>1, AlikeFacts
<1>4. OneRecipe(c)
  BY <1>0, <1>1, <1>3, OneRecipeOf
<1> QED
  BY <1>1, <1>2, <1>4 DEF GoodFile

LEMMA StateIsGood ==
    ASSUME TypeInv, NEW p \in Procs, pc[p] = "swap", MadeAt(p),
           NEW g, g.run = run[p].id, g.traj = run[p].traj, g.init = run[p].init, g.next = run[p].i + 1,
           g.pin = run[p].pin, g.seed = run[p].recipe.base_seed, g.echo = Echo(run[p].recipe)
    PROVE  GoodState(g)
<1>0. run[p].traj \in Weights /\ run[p].recipe \in Recipes /\ run[p].i \in Int
  BY Alone, BoundFacts, StageSets, MaxIterFacts DEF RunRec
<1>1. /\ run[p].id \in waived \/ OfPin(run[p].traj, run[p].pin)
      /\ Cautious(run[p].traj) /\ Paced(run[p].traj, run[p].init) /\ Len(run[p].traj) = run[p].i
      /\ AllAlike(run[p].traj, run[p].recipe)
  BY StageSets DEF MadeAt, PinnedAt, CountedAt, RecipeAt
<1>2. OneSimulator(g)
  BY <1>1 DEF OneSimulator, OfPin
<1>3. AllAlikeTo(g.traj, g.seed, g.echo)
  BY <1>0, <1>1, WeightFacts, SavedAlike DEF AllAlike, AllAlikeTo
<1> QED
  BY <1>0, <1>1, <1>2, <1>3 DEF GoodState

LEMMA ItersKept ==
    ASSUME TypeInv, NEW p \in Procs, Does(p), MadeAt(p), GoodFiles, NEW n \in 1 .. MaxIter,
           disk'[Iter(n)] # None
    PROVE  GoodFile(disk'[Iter(n)])
<1>1. ASSUME disk'[Iter(n)] \in {disk[Iter(n)], None} PROVE GoodFile(disk'[Iter(n)])
  BY <1>1 DEF GoodFiles
<1>2. CASE SameIters
  BY <1>1, <1>2 DEF SameIters
<1>3. CASE SetsAside(p)
  BY <1>1, <1>3, NameFacts DEF SetsAside
<1>4. CASE MovesAway(p)
  BY <1>1, <1>4, NameFacts DEF MovesAway, Writes
<1>5. CASE Saves(p)
  <2>1. pc[p] = "save" /\ Writes(Iter(run[p].i), [run |-> run[p].id, traj |-> run[p].traj, init |-> run[p].init])
    BY <1>5 DEF Saves, Passes
  <2>2. run[p].i \in 1 .. MaxIter
    BY <2>1, WithinFacts DEF Within
  <2>3. CASE n = run[p].i
    <3>1. disk'[Iter(n)].run = run[p].id /\ disk'[Iter(n)].traj = run[p].traj
          /\ disk'[Iter(n)].init = run[p].init
      BY <2>1, <2>3 DEF Writes
    <3> QED
      BY <2>1, <3>1, SavedIsGood, StageSets
  <2>4. CASE n # run[p].i
    BY <1>1, <2>1, <2>2, <2>4, NameFacts DEF Writes
  <2> QED
    BY <2>3, <2>4
<1>6. SameIters \/ SetsAside(p) \/ MovesAway(p) \/ Saves(p)
  <2>1. CASE pc[p] \notin {"quarantine", "save", "move"}
    BY <2>1, FilesFrame
  <2>2. CASE pc[p] \in {"quarantine", "save", "move"} /\ pc'[p] = "idle"
    <3>1. Quits(p) /\ disk' = disk
      BY <2>2, Positions DEF Does
    <3> QED
      BY <3>1 DEF SameIters
  <2>3. CASE pc[p] \in {"quarantine", "save", "move"} /\ pc'[p] # "idle"
    <3>1. SetsAside(p) \/ MovesAway(p) \/ Saves(p) \/ \E a, b : Moves(p, a, b)
      BY <2>3, DoesAt
    <3>2. (\E a, b : Moves(p, a, b)) => SameIters
      BY DEF Moves, SameIters
    <3> QED
      BY <3>1, <3>2
  <2> QED
    BY <2>1, <2>2, <2>3
<1> QED
  BY <1>2, <1>3, <1>4, <1>5, <1>6

LEMMA GensKept ==
    ASSUME TypeInv, NEW p \in Procs, Does(p), MadeAt(p), GoodFiles, NEW n \in {State, Prev},
           Readable(disk'[n])
    PROVE  GoodState(disk'[n])
<1>1. ASSUME disk'[n] \in {disk[State], disk[Prev], None} PROVE GoodState(disk'[n])
  BY <1>1 DEF GoodFiles, Readable
<1>2. CASE SameGens
  BY <1>1, <1>2 DEF SameGens
<1>3. CASE Keeps(p)
  BY <1>1, <1>3 DEF Keeps, SameGens
<1>4. CASE MovesAway(p)
  <2>1. \A m \in Names : disk'[m] \in {disk[m], None}
    BY <1>4 DEF MovesAway, Writes
  <2> QED
    BY <1>1, <2>1, NameFacts
<1>5. CASE Swaps(p)
  <2>1. CASE n = State
    <3>1. /\ disk'[n].run = run[p].id /\ disk'[n].next = run[p].i + 1 /\ disk'[n].traj = run[p].traj
          /\ disk'[n].pin = run[p].pin /\ disk'[n].init = run[p].init
          /\ disk'[n].seed = run[p].recipe.base_seed /\ disk'[n].echo = Echo(run[p].recipe)
          /\ pc[p] = "swap"
      BY <1>5, <2>1 DEF Swaps, Passes, Writes
    <3> QED
      BY <3>1, StateIsGood
  <2>2. CASE n = Prev
    BY <1>1, <1>5, <2>2, NameFacts DEF Swaps, Writes
  <2> QED
    BY <2>1, <2>2
<1>6. SameGens \/ Keeps(p) \/ MovesAway(p) \/ Swaps(p)
  <2>1. CASE pc[p] \notin {"keep", "swap", "move"}
    BY <2>1, FilesFrame
  <2>2. CASE pc[p] \in {"keep", "swap", "move"} /\ pc'[p] = "idle"
    <3>1. Quits(p) /\ disk' = disk
      BY <2>2, Positions DEF Does
    <3> QED
      BY <3>1 DEF SameGens
  <2>3. CASE pc[p] \in {"keep", "swap", "move"} /\ pc'[p] # "idle"
    <3>1. Keeps(p) \/ MovesAway(p) \/ Swaps(p) \/ \E a, b : Moves(p, a, b)
      BY <2>3, DoesAt
    <3>2. (\E a, b : Moves(p, a, b)) => SameGens
      BY DEF Moves, SameGens
    <3> QED
      BY <3>1, <3>2
  <2> QED
    BY <2>1, <2>2, <2>3
<1> QED
  BY <1>2, <1>3, <1>4, <1>5, <1>6

LEMMA MadeKept ==
    ASSUME TypeInv, Aged, Made, NEW p \in Procs, Does(p)
    PROVE  Made'
<1>0. waived \subseteq waived' /\ copy' = copy /\ GoodFiles /\ MadeAt(p) /\ AgedAt(p)
  BY FilesFrame DEF Made, Aged
<1>1. \A q \in Procs \ {p} : MadeAt(q)'
  BY DoneTypes, MadeIdle
<1>2. MadeAt(p)'
  <2>1. CASE pc'[p] = "idle"
    BY <2>1, MadeIdle
  <2>2. CASE pc'[p] # "idle"
    <3>1. RecipeAt(p)'
      BY <1>0, <2>2, RecipeKept DEF MadeAt
    <3>2. CASE pc'[p] \in Bound /\ pc[p] # "idle"
      BY <1>0, <3>1, <3>2, WaivedKept, PinnedKept, CountedKept DEF MadeAt
    <3>3. CASE pc'[p] \notin Bound
      BY <3>1, <3>3, StageSets DEF MadeAt, WaivedAt, PinnedAt, CountedAt
    <3>4. CASE pc[p] = "idle"
      <4>1. StartsFresh(p) \/ StartsAgain(p) \/ StartsCopy(p)
        BY <2>2, <3>4, DoesAt
      <4>2. pc'[p] \in {"scan", "load"}
        BY <4>1 DEF StartsFresh, StartsAgain, StartsCopy, Starts
      <4> QED
        BY <3>3, <4>2, StageSets
    <3> QED
      BY <3>2, <3>3, <3>4
  <2> QED
    BY <2>1, <2>2
<1>3. GoodFiles'
  <2>1. \A n \in 1 .. MaxIter : disk'[Iter(n)] # None => GoodFile(disk'[Iter(n)])
    BY <1>0, ItersKept
  <2>2. \A n \in {State, Prev} : Readable(disk'[n]) => GoodState(disk'[n])
    BY <1>0, GensKept
  <2>3. copy' # None => GoodState(copy')
    BY <1>0 DEF GoodFiles
  <2> QED
    BY <1>0, <2>1, <2>2, <2>3, GoodStill DEF GoodFiles, Readable
<1> QED
  BY <1>1, <1>2, <1>3 DEF Made

LEMMA MadeSuffered == ASSUME TypeInv, Made, Suffers PROVE Made'
<1>1. /\ pc' = pc /\ run' = run /\ waived' = waived /\ SameIters /\ disk'[Prev] = disk[Prev]
      /\ disk'[State] \in {disk[State], Corrupt}
      /\ copy' = copy \/ (Readable(disk[State]) /\ copy' = disk[State])
  BY DEF Suffers, SameGens
<1>2. GoodFiles'
  <2>1. \A n \in 1 .. MaxIter : disk'[Iter(n)] # None => GoodFile(disk'[Iter(n)])
    BY <1>1 DEF SameIters, Made, GoodFiles
  <2>2. \A n \in {State, Prev} : Readable(disk'[n]) => GoodState(disk'[n])
    BY <1>1 DEF Made, GoodFiles, Readable
  <2>3. copy' # None => GoodState(copy')
    BY <1>1 DEF Made, GoodFiles
  <2> QED
    BY <1>1, <2>1, <2>2, <2>3, GoodStill DEF GoodFiles, Readable
<1>3. ASSUME NEW p \in Procs PROVE MadeAt(p)'
  <2>1. MadeAt(p)
    BY DEF Made
  <2>2. WaivedAt(p)' /\ CountedAt(p)' /\ RecipeAt(p)'
    BY <1>1, <2>1 DEF MadeAt, WaivedAt, Mismatch, CountedAt, RecipeAt
  <2>3. PinnedAt(p)'
    <3> DEFINE l == run[p].pin
               Sound(d) == Lost(d, l) \/ d[Snapshot(l)] = [content |-> l]
    <3>1. ASSUME pc[p] \in Bound
          PROVE  /\ Lost(disk, l) => Lost(disk', l)
                 /\ Sound(disk) => Sound(disk')
      <4>1. l \in Libs
        BY <3>1, BoundFacts
      <4>2. CASE disk'[Snapshot(l)] = disk[Snapshot(l)]
        BY <4>2 DEF Lost
      <4>3. CASE disk'[Snapshot(l)] # disk[Snapshot(l)]
        <5>1. \E k \in Libs : /\ \/ disk'[Snapshot(k)] = None
                                 \/ \E m \in Libs \ {k} : disk'[Snapshot(k)] = [content |-> m]
                              /\ \A m \in Libs \ {k} : disk'[Snapshot(m)] = disk[Snapshot(m)]
          BY <4>1, <4>3 DEF Suffers, SameSnaps
        <5> QED
          BY <4>1, <4>3, <5>1 DEF Lost
      <4> QED
        BY <4>2, <4>3
    <3> HIDE DEF Sound
    <3>2. /\ pc[p] \in Bound \ {"verify"} => run[p].id \in waived \/ OfPin(run[p].traj, run[p].pin)
          /\ pc[p] = "collect" => run[p].id \in waived \/ Sound(disk)
          /\ pc[p] = "verify" => run[p].id \in waived \/ Lost(disk, l) \/ OfPin(run[p].traj, run[p].pin)
      BY <2>1 DEF MadeAt, PinnedAt, Sound
    <3>3. /\ pc[p] = "collect" => run[p].id \in waived \/ Sound(disk')
          /\ pc[p] = "verify" => run[p].id \in waived \/ Lost(disk', l) \/ OfPin(run[p].traj, run[p].pin)
      BY <3>1, <3>2, StageSets
    <3> QED
      BY <1>1, <3>2, <3>3 DEF PinnedAt, Sound
  <2> QED
    BY <2>2, <2>3 DEF MadeAt
<1> QED
  BY <1>2, <1>3 DEF Made

LEMMA MadeInit == ASSUME Init PROVE Made
<1>1. pc = [p \in Procs |-> "idle"] /\ copy = None
  BY DEF Init
<1>2. \A p \in Procs : MadeAt(p)
  BY <1>1, StageSets DEF MadeAt, WaivedAt, PinnedAt, CountedAt, RecipeAt
<1>3. CASE disk = NoFiles
  BY <1>1, <1>2, <1>3, NameFacts DEF Made, GoodFiles, NoFiles, Readable
<1>4. ASSUME NEW v \in Invocations, NEW pin \in {None, lib}, lib \in Libs,
             \A f \in DOMAIN LegacyAdditions : f \in DOMAIN v.recipe /\ v.recipe[f] = LegacyAdditions[f],
             disk = OlderRun(lib, v.recipe, pin, MaxIter)
      PROVE  Made
  <2> DEFINE r == v.recipe
             u == OlderUpdate(lib, r)
             g == disk[State]
  <2>0. r \in Recipes /\ ~r.head_lr
    <3>1. r.head_lr = LegacyAdditions["head_lr"]
      BY <1>4 DEF LegacyAdditions
    <3> QED
      BY <3>1 DEF LegacyAdditions, Recipes
  <2>1. OlderFiles(disk, lib, r, pin)
    BY <1>4, OlderTypes
  <2>2. 1 \in 1 .. MaxIter
    BY MaxIterFacts
  <2>3. disk[Prev] = None /\ \A n \in 1 .. MaxIter : n # 1 => disk[Iter(n)] = None
    <3>1. Prev \in Names \ {Iter(1), Hist, State, Snapshot(lib)}
      BY <1>4, <2>2, NameFacts
    <3>2. \A n \in 1 .. MaxIter : n # 1 => Iter(n) \in Names \ {Iter(1), Hist, State, Snapshot(lib)}
      BY <1>4, <2>2, NameFacts
    <3> QED
      BY <2>1, <3>1, <3>2 DEF OlderFiles
  <2>4. /\ disk[Iter(1)].traj = <<u>> /\ disk[Iter(1)].init = {}
        /\ g.run = 1 /\ g.next = 2 /\ g.traj = <<u>> /\ g.pin = pin /\ g.init = {}
        /\ g.seed = r.base_seed /\ g.echo = OlderEcho(r)
    BY <2>1 DEF OlderFiles
  <2>5. u.lib = lib /\ u.recipe = r /\ u.rate = "lr" /\ u.moved
    BY DEF OlderUpdate
  <2> HIDE DEF u, g, r
  <2>6. /\ DOMAIN <<u>> = {1} /\ <<u>>[1] = u /\ Len(<<u>>) = 1
    OBVIOUS
  <2>7. Cautious(<<u>>) /\ Paced(<<u>>, {}) /\ OfPin(<<u>>, lib) /\ Alike(r, r)
    BY <2>0, <2>5, <2>6 DEF Cautious, Paced, PacedAt, WarmOK, OfPin, Alike
  <2>8. AllAlikeTo(<<u>>, g.seed, g.echo)
    <3>1. AlikeTo(r, r.base_seed, OlderEcho(r))
      BY <1>4, <2>0, OlderAlike DEF r
    <3> QED
      BY <2>4, <2>5, <2>6, <3>1 DEF AllAlikeTo
  <2>9. GoodFile(disk[Iter(1)])
    <3>1. OneSimulator(disk[Iter(1)]) /\ Cautious(disk[Iter(1)].traj)
      BY <2>4, <2>6, <2>7 DEF OneSimulator
    <3>2. OneRecipe(disk[Iter(1)])
      BY <2>0, <2>4, <2>5, <2>6, <2>7 DEF OneRecipe
    <3> QED
      BY <3>1, <3>2 DEF GoodFile
  <2>10. GoodState(g)
    <3>1. OneSimulator(g) /\ (g.pin = None \/ OfPin(g.traj, g.pin))
      BY <1>4, <2>4, <2>6, <2>7 DEF OneSimulator
    <3> QED
      BY <2>4, <2>6, <2>7, <2>8, <3>1 DEF GoodState
  <2> QED
    BY <1>1, <1>2, <2>3, <2>9, <2>10 DEF Made, GoodFiles, Readable, g
<1> QED
  BY <1>3, <1>4 DEF Init

LEMMA MadeNext ==
    ASSUME TypeInv, Aged, Made, [Next]_vars
    PROVE  Made'
<1>1. CASE UNCHANGED vars
  <2>1. disk' = disk /\ copy' = copy /\ pc' = pc /\ run' = run /\ waived' = waived
    BY <1>1 DEF vars
  <2>2. GoodFiles'
    BY <2>1, GoodStill DEF Made, GoodFiles, Readable
  <2>3. \A p \in Procs : MadeAt(p)'
    BY <2>1 DEF Made, MadeAt, WaivedAt, Mismatch, PinnedAt, CountedAt, RecipeAt
  <2> QED
    BY <2>2, <2>3 DEF Made
<1> QED
  BY <1>1, MadeKept, MadeSuffered, ProcessDoes, SurroundingsDo DEF Next

(* MadeAlike: whoever made the updates behind a checkpoint or a saved state, and        *)
(* however often the run was resumed, they were collected with one simulator unless the  *)
(* operator waived the pin, by one recipe, the heads at their own rate for exactly the   *)
(* iterations the recipe names; and no launch went on after its event path stood still.  *)
THEOREM UpdatesAreAlike == Spec => []MadeAlike
<1>1. Init => Made
  BY MadeInit
<1>2. TypeInv /\ Aged /\ Made /\ [Next]_vars => Made'
  BY MadeNext
<1>3. TypeInv /\ Made => MadeAlike
  <2> SUFFICES ASSUME TypeInv, Made, NEW c \in Checkpoints \cup Generations
               PROVE  OneSimulator(c) /\ OneRecipe(c) /\ NothingAfterHalt(c)
    BY DEF MadeAlike
  <2>1. CASE c \in Checkpoints
    <3>1. GoodFile(c)
      BY <2>1 DEF Checkpoints, LiveIters, Made, GoodFiles
    <3> QED
      BY <3>1 DEF GoodFile, Cautious, NothingAfterHalt
  <2>2. CASE c \in Generations
    <3>1. GoodState(c) /\ c \in StateFile
      BY <2>2 DEF Generations, Made, GoodFiles, Readable, TypeInv, DiskTypes
    <3>2. c.traj \in Weights
      BY <3>1 DEF StateFile
    <3>3. \A j, k \in DOMAIN c.traj : Alike(c.traj[j].recipe, c.traj[k].recipe)
      BY <3>1, <3>2, WeightFacts, AlikeBySaved DEF GoodState, AllAlikeTo
    <3>4. OneRecipe(c)
      BY <3>1, <3>2, <3>3, OneRecipeOf DEF GoodState
    <3> QED
      BY <3>1, <3>4 DEF GoodState, Cautious, NothingAfterHalt
  <2> QED
    BY <2>1, <2>2
<1> QED
  BY <1>1, <1>2, <1>3, SpecTypes, SpecAged, PTL DEF Spec

-----------------------------------------------------------------------------
(* The rows of history.json, and the iterations they reach. *)
HistoryOf(d, r) == d[Hist] # None /\ d[Hist].run = r
NoGeneration(d, r) == \A n \in {State, Prev} : Readable(d[n]) => d[n].run # r
CopyOnly(d, c, r) == c # None /\ c.run = r /\ NoGeneration(d, r)

StatesBelow(d, c, id, n) ==
    /\ \A m \in {State, Prev} : Readable(d[m]) /\ d[m].run = id => d[m].next <= n
    /\ CopyOnly(d, c, id) => c.next <= n

HistoryFiles(d, c) ==
    /\ d[Hist] # None => InRow(d[Hist].rows)
    /\ \A n \in {State, Prev} : Readable(d[n]) /\ HistoryOf(d, d[n].run) => Reaches(d[Hist].rows, d[n].next)
    /\ c # None /\ CopyOnly(d, c, c.run) /\ HistoryOf(d, c.run) => Reaches(d[Hist].rows, c.next)
    /\ Readable(d[State]) /\ Readable(d[Prev]) => d[Prev].run = d[State].run /\ d[Prev].next <= d[State].next

Rowed == {"keep", "swap", "gate"}

BelowAt(p) ==
    LET r == run[p] IN
    /\ pc[p] = "load" /\ r.from = None => copy # None /\ CopyOnly(disk, copy, copy.run)
    /\ pc[p] \in Bound \ {"gate"} => StatesBelow(disk, copy, r.id, r.i)
    /\ pc[p] = "gate" => StatesBelow(disk, copy, r.id, r.i + 1)

RowsAt(p) ==
    LET r == run[p] IN
    /\ pc[p] \in Comparing \cup {"lineage"} /\ HistoryOf(disk, r.id) => Reaches(disk[Hist].rows, r.i)
    /\ pc[p] \in (Accepted \cup Publishing) \ Rowed => EndsBefore(r.rows, r.i)
    /\ pc[p] \in Rowed => EndsBefore(r.rows, r.i + 1)
    /\ pc[p] \in {"keep", "swap"} => HistoryOf(disk, r.id) /\ disk[Hist].rows = r.rows

HistoryAt(p) == BelowAt(p) /\ RowsAt(p)
History == HistoryFiles(disk, copy) /\ \A p \in Procs : HistoryAt(p)

LEMMA RowedSets ==
    /\ (Accepted \cup Publishing) \ Rowed =
          {"quarantine", "truncate", "loop", "collect", "verify", "save", "unstale", "history"}
    /\ Rowed = {"keep", "swap", "gate"}
    /\ Comparing \cup {"lineage"} = {"bridge", "snapshot", "echo", "lineage"}
  BY DEF Accepted, Publishing, Within, Rowed, Comparing

LEMMA HistoryIdle == ASSUME NEW q \in Procs, pc'[q] = "idle" PROVE HistoryAt(q)'
  BY StageSets, RowedSets DEF HistoryAt, BelowAt, RowsAt

LEMMA EndsReach ==
    ASSUME NEW rows, NEW n \in Int, EndsBefore(rows, n), NEW m \in Int, m <= n
    PROVE  Reaches(rows, m)
  BY DEF EndsBefore, Reaches

LEMMA AppendEnds ==
    ASSUME NEW rows \in Rows, NEW n \in Nat, EndsBefore(rows, n), NEW row, row.iteration = n
    PROVE  EndsBefore(Append(rows, row), n + 1)
<1> DEFINE more == Append(rows, row)
<1>1. /\ Len(rows) \in Nat /\ DOMAIN rows = 1 .. Len(rows) /\ (rows = <<>> <=> Len(rows) = 0)
      /\ \A k \in 1 .. Len(rows) : rows[k].iteration \in Nat
  <2>1. Len(rows) \in Nat /\ DOMAIN rows = 1 .. Len(rows)
    BY RowFacts
  <2>2. \A k \in 1 .. Len(rows) : rows[k] \in Row
    BY ElementOfSeq DEF Rows
  <2>3. rows = <<>> <=> Len(rows) = 0
    BY DEF Rows
  <2> QED
    BY <2>1, <2>2, <2>3, RowFacts
<1>2. /\ Len(more) = Len(rows) + 1 /\ DOMAIN more = 1 .. Len(rows) + 1
      /\ more[Len(rows) + 1] = row /\ \A k \in 1 .. Len(rows) : more[k] = rows[k]
  BY <1>1 DEF Rows
<1> HIDE DEF more
<1>3. LastRow(more) = n
  BY <1>2 DEF LastRow
<1>4. InRow(more)
  <2>1. CASE Len(rows) = 0
    BY <1>2, <2>1 DEF InRow
  <2>2. CASE Len(rows) # 0
    <3>1. rows[Len(rows)].iteration = n - 1 /\ InRow(rows)
      BY <1>1, <2>2 DEF EndsBefore, LastRow
    <3>2. rows[Len(rows)].iteration = rows[1].iteration + Len(rows) - 1
      BY <1>1, <2>2, <3>1 DEF InRow
    <3>3. n = rows[1].iteration + Len(rows)
      BY <1>1, <2>2, <3>1, <3>2
    <3>4. more[1] = rows[1]
      BY <1>1, <1>2, <2>2
    <3>5. \A k \in 1 .. Len(rows) : more[k].iteration = more[1].iteration + k - 1
      BY <1>1, <1>2, <3>1, <3>4 DEF InRow
    <3>6. more[Len(rows) + 1].iteration = more[1].iteration + (Len(rows) + 1) - 1
      BY <1>1, <1>2, <2>2, <3>3, <3>4
    <3> QED
      BY <1>1, <1>2, <3>5, <3>6 DEF InRow
  <2> QED
    BY <2>1, <2>2
<1> QED
  BY <1>3, <1>4 DEF EndsBefore, more

(* The files seen by a step that writes neither history nor state. *)
LEMMA HistorySame ==
    ASSUME SameHist, SameGens, HistoryFiles(disk, copy)
    PROVE  HistoryFiles(disk', copy)
  BY DEF SameHist, SameGens, HistoryFiles, HistoryOf, CopyOnly, NoGeneration, Readable

LEMMA StateNext ==
    ASSUME TypeInv
    PROVE  /\ \A m \in {State, Prev} : Readable(disk[m]) => disk[m].next \in Int /\ disk[m].run \in Launches
           /\ copy # None => copy.next \in Int
<1>1. \A g \in StateFile : g.next \in Int /\ g.run \in Launches
  BY MaxIterFacts DEF StateFile
<1> QED
  BY <1>1 DEF TypeInv, DiskTypes, Readable

(* A history that ends where the launch is reaches every state of its run. *)
LEMMA HistoryWritten ==
    ASSUME TypeInv, HistoryFiles(disk, copy), SameGens, NEW id, NEW rows, NEW n \in Int,
           disk'[Hist] = [run |-> id, rows |-> rows], disk'[Hist] # None,
           EndsBefore(rows, n), StatesBelow(disk, copy, id, n)
    PROVE  HistoryFiles(disk', copy)
<1>1. disk'[Hist].run = id /\ disk'[Hist].rows = rows
  OBVIOUS
<1>2. disk'[State] = disk[State] /\ disk'[Prev] = disk[Prev]
  BY DEF SameGens
<1>3. InRow(rows)
  BY DEF EndsBefore
<1>4. ASSUME NEW m \in {State, Prev}, Readable(disk[m]), disk[m].run = id
      PROVE  Reaches(rows, disk[m].next)
  <2>1. disk[m].next <= n /\ disk[m].next \in Int
    BY <1>4, StateNext DEF StatesBelow
  <2> QED
    BY <2>1, EndsReach
<1>5. ASSUME copy # None, CopyOnly(disk, copy, copy.run), copy.run = id
      PROVE  Reaches(rows, copy.next)
  <2>1. copy.next <= n /\ copy.next \in Int
    BY <1>5, StateNext DEF StatesBelow
  <2> QED
    BY <2>1, EndsReach
<1>6. Readable(disk[State]) /\ Readable(disk[Prev]) =>
         disk[Prev].run = disk[State].run /\ disk[Prev].next <= disk[State].next
  BY DEF HistoryFiles
<1>7. CopyOnly(disk', copy, copy.run) <=> CopyOnly(disk, copy, copy.run)
  BY <1>2 DEF CopyOnly, NoGeneration
<1> QED
  BY <1>1, <1>2, <1>3, <1>4, <1>5, <1>6, <1>7 DEF HistoryFiles, HistoryOf

LEMMA RankFacts ==
    ASSUME NEW n \in Names, Rank(n) <= Rank(Hist)
    PROVE  n = Hist
<1>1. Rank(Hist) = 0
  BY DEF Rank, Hist, State, Prev
<1>2. MaxIter \in Nat
  BY MaxIterFacts
<1>3. CASE n = State \/ n = Prev
  <2>1. Rank(State) = 1 /\ Rank(Prev) = 2
    BY DEF Rank, Hist, State, Prev
  <2> QED
    BY <1>1, <1>3, <2>1
<1>4. ASSUME NEW k \in 1 .. MaxIter, n = Iter(k) PROVE FALSE
  BY <1>1, <1>2, <1>4, NameFacts DEF Rank, Iter
<1>5. ASSUME NEW k \in 1 .. MaxIter, n = Stale(k) PROVE FALSE
  BY <1>1, <1>2, <1>5, NameFacts DEF Rank, Stale
<1>6. ASSUME NEW l \in Libs, n = Snapshot(l) PROVE FALSE
  BY <1>1, <1>2, <1>6, NameFacts DEF Rank, Snapshot
<1> QED
  BY <1>3, <1>4, <1>5, <1>6 DEF Names

(* A file that holds what it should is neither missing nor corrupt. *)
LEMMA FilesAreReadable ==
    /\ \A f \in HistFile : f # None
    /\ \A g \in StateFile : Readable(g)
<1>1. \A g \in StateFile : g # Corrupt
  BY DEF StateFile, Corrupt
<1> QED
  BY <1>1, NoneIsNoFile DEF Readable

(* The newest generation becomes the previous one: the same runs have states. *)
LEMMA HistoryRotated ==
    ASSUME TypeInv, NEW p \in Procs, Keeps(p), HistoryFiles(disk, copy)
    PROVE  HistoryFiles(disk', copy) /\ \A r : NoGeneration(disk', r) <=> NoGeneration(disk, r)
<1>1. CASE ~Readable(disk[State]) /\ SameGens
  BY <1>1, HistorySame DEF Keeps, SameGens, NoGeneration
<1>2. CASE Readable(disk[State]) /\ disk'[Prev] = disk[State] /\ disk'[State] = None
  <2>1. ~Readable(disk'[State]) /\ disk'[Hist] = disk[Hist]
    BY <1>2 DEF Readable, Keeps, SameHist
  <2>2. Readable(disk[Prev]) => disk[Prev].run = disk[State].run
    BY <1>2 DEF HistoryFiles
  <2>3. \A r : NoGeneration(disk', r) <=> NoGeneration(disk, r)
    BY <1>2, <2>1, <2>2 DEF NoGeneration
  <2>4. \A r : HistoryOf(disk', r) <=> HistoryOf(disk, r)
    BY <2>1 DEF HistoryOf
  <2>5. \A c, r : CopyOnly(disk', c, r) <=> CopyOnly(disk, c, r)
    BY <2>3 DEF CopyOnly
  <2>6. HistoryFiles(disk', copy)
    BY <1>2, <2>1, <2>4, <2>5 DEF HistoryFiles
  <2> QED
    BY <2>3, <2>6
<1> QED
  BY <1>1, <1>2 DEF Keeps

(* A new state is the newest of its run, and all there are. *)
LEMMA HistorySwapped ==
    ASSUME TypeInv, NEW p \in Procs, Swaps(p), HistoryFiles(disk, copy), HistoryAt(p), LineageAt(p)
    PROVE  /\ HistoryFiles(disk', copy)
           /\ StatesBelow(disk', copy, run[p].id, run[p].i + 1)
<1> DEFINE id == run[p].id
           i  == run[p].i
<1>1. pc[p] = "swap" /\ i \in Int /\ id \in Launches
  BY Positions, BoundFacts, StageSets, MaxIterFacts
<1>2. /\ disk'[State].run = id /\ disk'[State].next = i + 1 /\ Readable(disk'[State])
      /\ disk'[Prev] = disk[Prev] /\ disk'[Hist] = disk[Hist]
  <2>1. disk'[State].run = id /\ disk'[State].next = i + 1 /\ disk'[Prev] = disk[Prev] /\ disk'[Hist] = disk[Hist]
    BY NameFacts DEF Swaps, Writes
  <2>2. disk'[State] \in StateFile
    BY FileTypes
  <2> QED
    BY <2>1, <2>2, FilesAreReadable
<1>3. /\ \A n \in {State, Prev} : Readable(disk[n]) => disk[n].run = id
      /\ disk[Hist] # None /\ disk[Hist].run = id
  BY <1>1, AcceptedFacts DEF LineageAt, AllOf, HistoryAt, RowsAt, HistoryOf
<1>4. /\ \A n \in {State, Prev} : Readable(disk[n]) /\ disk[n].run = id => disk[n].next <= i
      /\ EndsBefore(disk[Hist].rows, i + 1)
  BY <1>1, StageSets, RowedSets DEF HistoryAt, BelowAt, RowsAt, StatesBelow
<1>5. Readable(disk'[Prev]) => /\ disk'[Prev].run = id /\ disk'[Prev].next \in Int
                               /\ disk'[Prev].next <= i
  BY <1>2, <1>3, <1>4, StateNext
<1>6. \A m \in Int : m <= i + 1 => Reaches(disk'[Hist].rows, m)
  BY <1>1, <1>2, <1>4, EndsReach
<1>7. \A m \in {State, Prev} : Readable(disk'[m]) => /\ disk'[m].run = id /\ disk'[m].next \in Int
                                                    /\ disk'[m].next <= i + 1
  BY <1>1, <1>2, <1>5
<1>8. \A c, r : CopyOnly(disk', c, r) => r # id /\ CopyOnly(disk, c, r)
  BY <1>2, <1>3 DEF CopyOnly, NoGeneration
<1>9. StatesBelow(disk', copy, id, i + 1)
  BY <1>7, <1>8 DEF StatesBelow
<1>10. HistoryFiles(disk', copy)
  <2>1. disk'[Hist] # None => InRow(disk'[Hist].rows)
    BY <1>2 DEF HistoryFiles
  <2>2. \A n \in {State, Prev} : Readable(disk'[n]) => Reaches(disk'[Hist].rows, disk'[n].next)
    BY <1>6, <1>7
  <2>3. copy # None /\ CopyOnly(disk', copy, copy.run) => ~HistoryOf(disk', copy.run)
    BY <1>2, <1>3, <1>8 DEF HistoryOf
  <2>4. Readable(disk'[State]) /\ Readable(disk'[Prev]) =>
           disk'[Prev].run = disk'[State].run /\ disk'[Prev].next <= disk'[State].next
    BY <1>1, <1>2, <1>5
  <2> QED
    BY <2>1, <2>2, <2>3, <2>4 DEF HistoryFiles
<1> QED
  BY <1>9, <1>10

LEMMA HistoryMoved ==
    ASSUME TypeInv, NEW p \in Procs, MovesAway(p), HistoryFiles(disk, copy)
    PROVE  HistoryFiles(disk', copy)
<1>1. PICK n \in Names : /\ disk[n] # None /\ \A m \in Names : disk[m] # None => Rank(n) <= Rank(m)
                         /\ Writes(n, None)
  BY DEF MovesAway
<1>2. disk'[Hist] = None
  <2>1. CASE disk[Hist] # None
    BY <1>1, <2>1, NameFacts, RankFacts DEF Writes
  <2>2. CASE disk[Hist] = None
    BY <1>1, <2>2, NameFacts DEF Writes
  <2> QED
    BY <2>1, <2>2
<1>3. disk'[State] \in {disk[State], None} /\ disk'[Prev] \in {disk[Prev], None}
  BY <1>1, NameFacts DEF Writes
<1> QED
  BY <1>2, <1>3 DEF HistoryFiles, HistoryOf, Readable

LEMMA HistoryFilesNext ==
    ASSUME TypeInv, NEW p \in Procs, Does(p), HistoryFiles(disk, copy), HistoryAt(p), LineageAt(p)
    PROVE  HistoryFiles(disk', copy')
<1>0. copy' = copy
  BY FilesFrame
<1>1. CASE SameHist /\ SameGens
  BY <1>0, <1>1, HistorySame
<1>2. CASE Truncates(p)
  <2>1. /\ pc[p] = "truncate" /\ disk'[Hist] = [run |-> run[p].id, rows |-> run[p].rows]
        /\ SameGens
    BY <1>2, FilesFrame DEF Truncates, Passes, Writes
  <2>2. EndsBefore(run[p].rows, run[p].i) /\ StatesBelow(disk, copy, run[p].id, run[p].i)
    BY <2>1, StageSets, RowedSets DEF HistoryAt, BelowAt, RowsAt
  <2>3. run[p].i \in Int /\ disk'[Hist] # None
    BY <1>2, <2>1, FileTypes, FilesAreReadable, BoundFacts, StageSets, MaxIterFacts
  <2> HIDE DEF HistoryFiles
  <2> QED
    BY <1>0, <2>1, <2>2, <2>3, HistoryWritten
<1>3. CASE Records(p)
  <2> DEFINE rows == Append(run[p].rows, [iteration |-> run[p].i, traj |-> run[p].traj])
  <2>1. /\ pc[p] = "history" /\ disk'[Hist] = [run |-> run[p].id, rows |-> rows]
        /\ SameGens
    BY <1>3, FilesFrame DEF Records, Passes, Writes
  <2>2. EndsBefore(run[p].rows, run[p].i) /\ StatesBelow(disk, copy, run[p].id, run[p].i)
    BY <2>1, StageSets, RowedSets DEF HistoryAt, BelowAt, RowsAt
  <2>3. run[p].i \in Nat /\ run[p].i + 1 \in Int /\ disk'[Hist] # None /\ run[p].rows \in Rows
    <3>1. run[p].i \in Nat /\ run[p].i + 1 \in Int
      BY <2>1, BoundFacts, StageSets, MaxIterFacts
    <3>2. disk'[Hist] # None
      BY <1>3, FileTypes, FilesAreReadable
    <3>3. run[p].rows \in Rows
      BY DEF TypeInv, RunRec
    <3> QED
      BY <3>1, <3>2, <3>3
  <2>4. EndsBefore(rows, run[p].i + 1)
    BY <2>2, <2>3, AppendEnds
  <2>5. StatesBelow(disk, copy, run[p].id, run[p].i + 1)
    BY <2>2, <2>3, StateNext DEF StatesBelow, CopyOnly
  <2> HIDE DEF rows
  <2> QED
    BY <1>0, <2>1, <2>3, <2>4, <2>5, HistoryWritten
<1>4. CASE Keeps(p)
  BY <1>0, <1>4, HistoryRotated
<1>5. CASE Swaps(p)
  BY <1>0, <1>5, HistorySwapped
<1>6. CASE MovesAway(p)
  BY <1>0, <1>6, HistoryMoved
<1>7. ASSUME NEW a, NEW b, Moves(p, a, b) PROVE SameHist /\ SameGens
  BY <1>7 DEF Moves, SameHist, SameGens
<1>8. Quits(p) /\ disk' = disk => SameHist /\ SameGens
  BY DEF SameHist, SameGens
<1>9. CASE pc[p] \in {"keep", "swap", "move", "truncate", "history"}
  BY <1>1, <1>2, <1>3, <1>4, <1>5, <1>6, <1>7, <1>8, <1>9, Positions DEF Does
<1>10. CASE pc[p] \notin {"keep", "swap", "move", "truncate", "history"}
  BY <1>1, <1>10, FilesFrame
<1> QED
  BY <1>9, <1>10

LEMMA BelowLater ==
    ASSUME TypeInv, NEW id, NEW n \in Int, StatesBelow(disk, copy, id, n)
    PROVE  StatesBelow(disk, copy, id, n + 1)
  BY StateNext DEF StatesBelow, CopyOnly

LEMMA BelowKept ==
    ASSUME ~Rewind, TypeInv, NEW p \in Procs, Does(p), HistoryFiles(disk, copy), HistoryAt(p),
           LineageAt(p), AgedAt(p), pc'[p] # "idle"
    PROVE  BelowAt(p)'
<1> DEFINE s == run'[p]
<1>0. copy' = copy
  BY FilesFrame
<1>1. CASE pc[p] = "idle"
  <2>1. CASE StartsFresh(p)
    <3>1. pc'[p] = "scan"
      BY <2>1 DEF StartsFresh, Starts
    <3> QED
      BY <3>1, StageSets DEF BelowAt
  <2>2. CASE StartsAgain(p)
    <3>1. pc'[p] = "load" /\ s.from # None
      BY <2>2, NameFacts DEF StartsAgain, Starts
    <3> QED
      BY <3>1, StageSets DEF BelowAt
  <2>3. CASE StartsCopy(p)
    <3>1. pc'[p] = "load" /\ disk' = disk /\ copy # None /\ CopyOnly(disk, copy, copy.run)
      BY <2>3 DEF StartsCopy, Starts, CopyOnly, NoGeneration
    <3> QED
      BY <1>0, <3>1, StageSets DEF BelowAt, CopyOnly, NoGeneration, Readable
  <2> QED
    BY <1>1, <2>1, <2>2, <2>3, DoesAt
<1>2. CASE pc[p] # "idle"
  <2>0. run[p] \in RunRec /\ LocalsFramed(p)
    BY <1>2, LocalsFrame DEF TypeInv
  <2> HIDE DEF s
  <2>1. CASE pc[p] = "load"
    <3> DEFINE g == Generation(run[p].from)
    <3>1. Loads(p) /\ pc'[p] = "bridge" /\ disk' = disk
      BY <1>2, <2>1, DoesAt, Positions DEF Loads
    <3>2. s.id = g.run /\ s.i = g.next /\ Readable(g)
      BY <2>0, <3>1 DEF s, Loads, RunRec
    <3>3. StatesBelow(disk, copy, g.run, g.next)
      <4>1. CASE run[p].from = None
        <5>1. g = copy /\ copy # None /\ CopyOnly(disk, copy, copy.run)
          BY <2>1, <4>1 DEF Generation, HistoryAt, BelowAt
        <5> QED
          BY <5>1, StateNext DEF StatesBelow, CopyOnly, NoGeneration
      <4>2. CASE run[p].from # None /\ Readable(disk[State])
        <5>1. g = disk[State]
          BY <4>2 DEF Generation
        <5>2. ~CopyOnly(disk, copy, g.run)
          BY <3>2, <5>1 DEF CopyOnly, NoGeneration
        <5>3. /\ disk[State].next <= g.next
              /\ Readable(disk[Prev]) => disk[Prev].next <= g.next
          BY <4>2, <5>1, StateNext DEF HistoryFiles
        <5> QED
          BY <5>2, <5>3 DEF StatesBelow
      <4>3. CASE run[p].from # None /\ ~Readable(disk[State])
        <5>1. g = disk[Prev]
          BY <4>3 DEF Generation
        <5>2. ~CopyOnly(disk, copy, g.run)
          BY <3>2, <5>1 DEF CopyOnly, NoGeneration
        <5>3. disk[Prev].next <= g.next
          BY <3>2, <5>1, StateNext
        <5> QED
          BY <4>3, <5>2, <5>3 DEF StatesBelow
      <4> QED
        BY <4>1, <4>2, <4>3
    <3> QED
      BY <1>0, <3>1, <3>2, <3>3, StageSets DEF s, BelowAt, StatesBelow, CopyOnly, NoGeneration, Readable
  <2>2. CASE pc[p] = "copylib"
    <3>1. StartsRun(p) /\ pc'[p] = "loop" /\ SameGens
      BY <1>2, <2>2, DoesAt, Positions, FilesFrame
    <3>2. s.id = launches /\ s.i = 1
      BY <1>2, <2>0, <3>1, Alone DEF s, StartsRun, RunRec
    <3>3. launches \notin 1 .. launches - 1
      BY DEF TypeInv
    <3>4. AgedFiles(disk, copy, launches - 1)
      BY <2>2, StageSets DEF AgedAt
    <3>5. /\ \A n \in {State, Prev} : Readable(disk[n]) => disk[n].run # launches
          /\ copy # None => copy.run # launches
      BY <3>3, <3>4 DEF AgedFiles, AgedFile
    <3>6. StatesBelow(disk', copy, s.id, s.i)
      BY <3>1, <3>2, <3>5 DEF StatesBelow, CopyOnly, SameGens
    <3> QED
      BY <1>0, <3>1, <3>6 DEF s, BelowAt
  <2>3. CASE pc[p] = "gate"
    <3>1. Advances(p) /\ pc'[p] = "loop" /\ disk' = disk
      BY <1>2, <2>3, DoesAt, Positions DEF Advances
    <3>2. s.id = run[p].id /\ s.i = run[p].i + 1
      BY <2>0, <3>1 DEF s, Advances, RunRec
    <3> QED
      BY <1>0, <2>3, <3>1, <3>2 DEF s, HistoryAt, BelowAt, StatesBelow, CopyOnly, NoGeneration, Readable
  <2>4. CASE pc[p] = "keep"
    <3>1. Keeps(p) /\ pc'[p] = "swap"
      BY <1>2, <2>4, DoesAt, Positions
    <3>2. s = run[p] /\ StatesBelow(disk, copy, run[p].id, run[p].i)
      BY <2>4, <3>1, StageSets DEF s, Keeps, HistoryAt, BelowAt
    <3>3. \A r : NoGeneration(disk', r) <=> NoGeneration(disk, r)
      BY <3>1, HistoryRotated
    <3>4. \A n \in {State, Prev} : disk'[n] \in {disk[State], disk[Prev], None}
      BY <3>1 DEF Keeps, SameGens
    <3>5. StatesBelow(disk', copy, run[p].id, run[p].i)
      BY <3>2, <3>3, <3>4 DEF StatesBelow, CopyOnly, Readable
    <3> QED
      BY <1>0, <3>1, <3>2, <3>5 DEF s, BelowAt
  <2>5. CASE pc[p] = "swap"
    <3>1. Swaps(p) /\ pc'[p] = "gate"
      BY <1>2, <2>5, DoesAt, Positions
    <3>2. s.id = run[p].id /\ s.i = run[p].i
      BY <2>0, <2>5 DEF s, LocalsFramed
    <3> QED
      BY <1>0, <3>1, <3>2, HistorySwapped DEF s, BelowAt
  <2>6. CASE pc[p] \in Bound \ {"gate", "keep", "swap"}
    <3>1. SameGens /\ s.id = run[p].id /\ s.i = run[p].i
      BY <1>2, <2>0, <2>6, FilesFrame, StageSets DEF s, LocalsFramed
    <3>2. run[p].i \in Int /\ StatesBelow(disk, copy, run[p].id, run[p].i)
      BY <2>6, BoundFacts, MaxIterFacts DEF HistoryAt, BelowAt
    <3>3. StatesBelow(disk, copy, run[p].id, run[p].i + 1)
      BY <3>2, BelowLater
    <3>4. pc'[p] \in Bound
      BY <1>2, <2>6, BoundFrom
    <3>5. \A n : StatesBelow(disk, copy, s.id, n) => StatesBelow(disk', copy, s.id, n)
      BY <3>1 DEF SameGens, StatesBelow, CopyOnly, NoGeneration
    <3> QED
      BY <1>0, <3>1, <3>2, <3>3, <3>4, <3>5, StageSets DEF s, BelowAt
  <2>7. CASE pc[p] \in Empty \ {"copylib"}
    <3>1. pc'[p] \in Empty
      BY <1>2, <2>7, DoesAt, Positions, StageSets
    <3> QED
      BY <3>1, StageSets DEF BelowAt
  <2> QED
    BY <1>2, <2>1, <2>2, <2>3, <2>4, <2>5, <2>6, <2>7 DEF TypeInv, Stages
<1> QED
  BY <1>1, <1>2

LEMMA RowsKept ==
    ASSUME TypeInv, NEW p \in Procs, Does(p), HistoryFiles(disk, copy), HistoryAt(p), AgedAt(p),
           pc'[p] # "idle"
    PROVE  RowsAt(p)'
<1> DEFINE s == run'[p]
<1>1. CASE pc[p] = "idle"
  <2>1. pc'[p] \in {"scan", "load"}
    BY <1>1, DoesAt DEF StartsFresh, StartsAgain, StartsCopy, Starts
  <2> QED
    BY <2>1, StageSets, RowedSets DEF RowsAt
<1>2. CASE pc[p] # "idle"
  <2>0. run[p] \in RunRec /\ LocalsFramed(p) /\ RowsAt(p)
    BY <1>2, LocalsFrame DEF TypeInv, HistoryAt
  <2> HIDE DEF s
  <2>1. CASE pc[p] = "load"
    <3> DEFINE g == Generation(run[p].from)
    <3>1. Loads(p) /\ pc'[p] = "bridge" /\ disk' = disk
      BY <1>2, <2>1, DoesAt, Positions DEF Loads
    <3>2. s.id = g.run /\ s.i = g.next /\ Readable(g)
      BY <2>0, <3>1 DEF s, Loads, RunRec
    <3>3. HistoryOf(disk, g.run) => Reaches(disk[Hist].rows, g.next)
      <4>1. CASE run[p].from = None
        <5>1. g = copy /\ copy # None /\ CopyOnly(disk, copy, copy.run)
          BY <2>1, <4>1 DEF Generation, HistoryAt, BelowAt
        <5> QED
          BY <5>1 DEF HistoryFiles
      <4>2. CASE run[p].from # None
        <5>1. g \in {disk[State], disk[Prev]}
          BY <4>2 DEF Generation
        <5> QED
          BY <3>2, <5>1 DEF HistoryFiles
      <4> QED
        BY <4>1, <4>2
    <3> HIDE DEF g
    <3> QED
      BY <3>1, <3>2, <3>3, StageSets, RowedSets DEF s, RowsAt, HistoryOf
  <2>2. CASE pc[p] \in Comparing
    <3>1. SameHist /\ s.id = run[p].id /\ s.i = run[p].i
      BY <1>2, <2>0, <2>2, FilesFrame, StageSets DEF s, LocalsFramed
    <3>2. pc'[p] \in {"snapshot", "echo", "lineage"}
      BY <1>2, <2>2, DoesAt, Positions, StageSets
    <3>3. HistoryOf(disk, run[p].id) => Reaches(disk[Hist].rows, run[p].i)
      BY <2>0, <2>2 DEF RowsAt
    <3> QED
      BY <3>1, <3>2, <3>3, StageSets, RowedSets DEF s, RowsAt, HistoryOf, SameHist
  <2>3. CASE pc[p] = "lineage"
    <3>1. Reads(p) /\ pc'[p] = "quarantine"
      BY <1>2, <2>3, DoesAt, Positions
    <3>2. /\ s.i = run[p].i
          /\ disk[Hist] # None => disk[Hist].run = run[p].id
          /\ s.rows = IF disk[Hist] = None THEN <<>> ELSE RowsBefore(disk[Hist].rows, run[p].i)
      BY <2>0, <3>1 DEF s, Reads, RunRec
    <3>3. run[p].i \in Nat
      BY <2>3, BoundFacts, StageSets, MaxIterFacts
    <3>4. EndsBefore(s.rows, s.i)
      <4>1. CASE disk[Hist] = None
        BY <3>2, <4>1 DEF EndsBefore, InRow
      <4>2. CASE disk[Hist] # None
        <5>1. disk[Hist].rows \in Rows
          BY <4>2 DEF TypeInv, DiskTypes, HistFile
        <5>2. InRow(disk[Hist].rows)
          BY <4>2 DEF HistoryFiles
        <5>3. Reaches(disk[Hist].rows, run[p].i)
          BY <2>0, <2>3, <3>2, <4>2 DEF RowsAt, HistoryOf
        <5> QED
          BY <3>2, <3>3, <4>2, <5>1, <5>2, <5>3, RowsBeforeEnds
      <4> QED
        BY <4>1, <4>2
    <3> QED
      BY <3>1, <3>4, StageSets, RowedSets DEF s, RowsAt
  <2>4. CASE pc[p] \in {"quarantine", "truncate", "loop", "collect", "verify", "save", "unstale"}
    <3>1. s.i = run[p].i /\ s.rows = run[p].rows
      BY <2>0, <2>4 DEF s, LocalsFramed
    <3>2. pc'[p] \in {"quarantine", "truncate", "loop", "collect", "verify", "save", "unstale", "history"}
      BY <1>2, <2>4, DoesAt, Positions
    <3>3. EndsBefore(run[p].rows, run[p].i)
      BY <2>0, <2>4, RowedSets DEF RowsAt
    <3> QED
      BY <3>1, <3>2, <3>3, StageSets, RowedSets DEF s, RowsAt
  <2>5. CASE pc[p] = "history"
    <3> DEFINE row == [iteration |-> run[p].i, traj |-> run[p].traj]
               rows == Append(run[p].rows, row)
    <3>1. Records(p) /\ pc'[p] \in {"keep", "gate"}
      BY <1>2, <2>5, DoesAt, Positions
    <3>2. /\ s.rows = rows /\ s.i = run[p].i /\ s.id = run[p].id
          /\ disk'[Hist].run = run[p].id /\ disk'[Hist].rows = rows
      <4>1. s.rows = rows
        BY <2>0, <3>1 DEF s, Records, RunRec
      <4>2. s.i = run[p].i /\ s.id = run[p].id
        BY <2>0, <2>5 DEF s, LocalsFramed
      <4>3. disk'[Hist] = [run |-> run[p].id, rows |-> rows]
        BY <3>1 DEF Records, Writes
      <4> QED
        BY <4>1, <4>2, <4>3
    <3>3. disk'[Hist] # None
      BY <3>1, FileTypes, FilesAreReadable
    <3>4. EndsBefore(rows, run[p].i + 1)
      <4>1. run[p].rows \in Rows /\ run[p].i \in Nat
        BY <2>0, <2>5, BoundFacts, StageSets, MaxIterFacts DEF RunRec
      <4>2. EndsBefore(run[p].rows, run[p].i) /\ row.iteration = run[p].i
        BY <2>0, <2>5, RowedSets DEF RowsAt
      <4> QED
        BY <4>1, <4>2, AppendEnds
    <3> HIDE DEF rows
    <3> QED
      BY <3>1, <3>2, <3>3, <3>4, StageSets, RowedSets DEF s, RowsAt, HistoryOf
  <2>6. CASE pc[p] = "keep"
    <3>1. SameHist /\ s = run[p] /\ pc'[p] = "swap"
      BY <1>2, <2>6, DoesAt, Positions DEF s, Keeps
    <3>2. EndsBefore(run[p].rows, run[p].i + 1) /\ HistoryOf(disk, run[p].id) /\ disk[Hist].rows = run[p].rows
      BY <2>0, <2>6, RowedSets DEF RowsAt
    <3> QED
      BY <3>1, <3>2, StageSets, RowedSets DEF s, RowsAt, HistoryOf, SameHist
  <2>7. CASE pc[p] = "swap"
    <3>1. s.i = run[p].i /\ s.rows = run[p].rows /\ pc'[p] = "gate"
      BY <1>2, <2>0, <2>7, DoesAt, Positions DEF s, LocalsFramed
    <3>2. EndsBefore(run[p].rows, run[p].i + 1)
      BY <2>0, <2>7, RowedSets DEF RowsAt
    <3> QED
      BY <3>1, <3>2, StageSets, RowedSets DEF s, RowsAt
  <2>8. CASE pc[p] = "gate"
    <3>1. Advances(p) /\ pc'[p] = "loop"
      BY <1>2, <2>8, DoesAt, Positions
    <3>2. s.i = run[p].i + 1 /\ s.rows = run[p].rows
      BY <2>0, <3>1 DEF s, Advances, RunRec
    <3>3. EndsBefore(run[p].rows, run[p].i + 1)
      BY <2>0, <2>8, RowedSets DEF RowsAt
    <3> QED
      BY <3>1, <3>2, <3>3, StageSets, RowedSets DEF s, RowsAt
  <2>9. CASE pc[p] = "copylib"
    <3>1. s.rows = <<>> /\ pc'[p] = "loop"
      BY <1>2, <2>0, <2>9, DoesAt, Positions, StageSets DEF s, LocalsFramed, AgedAt
    <3>2. EndsBefore(s.rows, s.i)
      BY <3>1 DEF EndsBefore, InRow
    <3> QED
      BY <3>1, <3>2, StageSets, RowedSets DEF s, RowsAt
  <2>10. CASE pc[p] \in Empty \ {"copylib"}
    <3>1. pc'[p] \in Empty
      BY <1>2, <2>10, DoesAt, Positions, StageSets
    <3> QED
      BY <3>1, StageSets, RowedSets DEF RowsAt
  <2>11. pc[p] \in Stages
    BY DEF TypeInv
  <2> QED
    BY <1>2, <2>1, <2>2, <2>3, <2>4, <2>5, <2>6, <2>7, <2>8, <2>9, <2>10, <2>11, StageSets, StageFacts
<1> QED
  BY <1>1, <1>2

(* A copy is taken of the newest generation, and a generation is lost only where an *)
(* older one of the same run is left.                                               *)
LEMMA HistorySuffered ==
    ASSUME TypeInv, History, Suffers
    PROVE  History'
<1>0. pc' = pc /\ run' = run /\ disk'[Hist] = disk[Hist] /\ disk'[Prev] = disk[Prev]
  BY DEF Suffers, SameHist
<1>1. CASE SameGens /\ copy' = copy
  <2>1. HistoryFiles(disk', copy')
    BY <1>1, HistorySame DEF History, Suffers
  <2>2. ASSUME NEW p \in Procs PROVE HistoryAt(p)'
    BY <1>0, <1>1 DEF History, HistoryAt, BelowAt, RowsAt, SameGens, StatesBelow, CopyOnly,
                      NoGeneration, HistoryOf, Readable
  <2> QED
    BY <2>1, <2>2 DEF History
<1>2. CASE Readable(disk[State]) /\ Readable(disk[Prev]) /\ disk'[State] = Corrupt /\ copy' = copy
  <2>1. ~Readable(disk'[State]) /\ disk[State].run = disk[Prev].run
    BY <1>2 DEF Readable, History, HistoryFiles
  <2>2. \A r : NoGeneration(disk', r) <=> NoGeneration(disk, r)
    BY <1>0, <1>2, <2>1 DEF NoGeneration
  <2>3. \A r : CopyOnly(disk', copy, r) <=> CopyOnly(disk, copy, r)
    BY <2>2 DEF CopyOnly
  <2>4. \A r : HistoryOf(disk', r) <=> HistoryOf(disk, r)
    BY <1>0 DEF HistoryOf
  <2>5. HistoryFiles(disk', copy')
    BY <1>0, <1>2, <2>1, <2>3, <2>4 DEF History, HistoryFiles
  <2>6. ASSUME NEW id, NEW n, StatesBelow(disk, copy, id, n) PROVE StatesBelow(disk', copy', id, n)
    BY <1>0, <1>2, <2>1, <2>3, <2>6 DEF StatesBelow
  <2>7. ASSUME NEW p \in Procs PROVE HistoryAt(p)'
    <3>1. BelowAt(p)'
      BY <1>0, <1>2, <2>3, <2>6 DEF History, HistoryAt, BelowAt
    <3>2. RowsAt(p)'
      BY <1>0, <2>4 DEF History, HistoryAt, RowsAt
    <3> QED
      BY <3>1, <3>2 DEF HistoryAt
  <2> QED
    BY <2>5, <2>7 DEF History
<1>3. CASE disk' = disk /\ Readable(disk[State]) /\ copy = None /\ copy' = disk[State]
  <2>1. \A r : ~CopyOnly(disk, copy', r) /\ ~CopyOnly(disk, copy, r)
    BY <1>3 DEF CopyOnly, NoGeneration
  <2>2. HistoryFiles(disk', copy')
    BY <1>3, <2>1 DEF History, HistoryFiles
  <2>3. ASSUME NEW id, NEW n, StatesBelow(disk, copy, id, n) PROVE StatesBelow(disk', copy', id, n)
    BY <1>3, <2>1, <2>3 DEF StatesBelow
  <2>4. ASSUME NEW p \in Procs PROVE HistoryAt(p)'
    <3>1. BelowAt(p)'
      BY <1>0, <1>3, <2>1, <2>3 DEF History, HistoryAt, BelowAt
    <3>2. RowsAt(p)'
      BY <1>0, <1>3 DEF History, HistoryAt, RowsAt, HistoryOf
    <3> QED
      BY <3>1, <3>2 DEF HistoryAt
  <2> QED
    BY <2>2, <2>4 DEF History
<1> QED
  BY <1>1, <1>2, <1>3 DEF Suffers, SameGens

LEMMA HistoryInit == ASSUME Init PROVE History
<1>1. pc = [p \in Procs |-> "idle"] /\ copy = None
  BY DEF Init
<1>2. \A p \in Procs : HistoryAt(p)
  BY <1>1, StageSets, RowedSets DEF HistoryAt, BelowAt, RowsAt
<1>3. CASE disk = NoFiles
  BY <1>1, <1>2, <1>3, NameFacts DEF History, HistoryFiles, NoFiles, Readable
<1>4. ASSUME NEW v \in Invocations, NEW pin \in {None, lib}, lib \in Libs,
             disk = OlderRun(lib, v.recipe, pin, MaxIter)
      PROVE  History
  <2> DEFINE row == [iteration |-> 1, traj |-> <<OlderUpdate(lib, v.recipe)>>]
  <2>1. OlderFiles(disk, lib, v.recipe, pin)
    BY <1>4, OlderTypes
  <2>2. disk[Prev] = None /\ disk[Hist].rows = <<row>> /\ disk[State].next = 2
    <3>1. Prev \in Names \ {Iter(1), Hist, State, Snapshot(lib)}
      BY <1>4, MaxIterFacts, NameFacts
    <3> QED
      BY <2>1, <3>1 DEF OlderFiles
  <2>3. DOMAIN <<row>> = {1} /\ Len(<<row>>) = 1 /\ <<row>>[1] = row /\ row.iteration = 1
    OBVIOUS
  <2> HIDE DEF row
  <2>4. InRow(disk[Hist].rows) /\ Reaches(disk[Hist].rows, 2)
    BY <2>2, <2>3 DEF InRow, Reaches, LastRow
  <2> QED
    BY <1>1, <1>2, <2>2, <2>4 DEF History, HistoryFiles, Readable
<1> QED
  BY <1>3, <1>4 DEF Init

LEMMA HistoryNext ==
    ASSUME ~Rewind, TypeInv, Lineage, Aged, History, [Next]_vars
    PROVE  History'
<1>1. CASE UNCHANGED vars
  BY <1>1 DEF vars, History, HistoryFiles, HistoryAt, BelowAt, RowsAt, StatesBelow, CopyOnly,
              NoGeneration, HistoryOf, Readable
<1>2. ASSUME NEW p \in Procs, Does(p) PROVE History'
  <2>0. HistoryFiles(disk, copy) /\ HistoryAt(p) /\ LineageAt(p) /\ AgedAt(p)
    BY DEF History, Lineage, Aged
  <2>1. \A q \in Procs \ {p} : HistoryAt(q)'
    BY <1>2, DoneTypes, HistoryIdle
  <2>2. CASE pc'[p] = "idle"
    BY <1>2, <2>0, <2>1, <2>2, HistoryIdle, HistoryFilesNext DEF History
  <2>3. CASE pc'[p] # "idle"
    <3>1. BelowAt(p)'
      BY <1>2, <2>0, <2>3, BelowKept
    <3>2. RowsAt(p)'
      BY <1>2, <2>0, <2>3, RowsKept
    <3>3. HistoryFiles(disk', copy')
      BY <1>2, <2>0, HistoryFilesNext
    <3> QED
      BY <2>1, <3>1, <3>2, <3>3 DEF History, HistoryAt
  <2> QED
    BY <2>2, <2>3
<1> QED
  BY <1>1, <1>2, HistorySuffered, ProcessDoes, SurroundingsDo DEF Next

(* HistoryContiguous: unless an operator resumes a copy where the directory still holds *)
(* a state of that run, or has the lineage check skipped, the rows of history.json are  *)
(* consecutive iterations: no crash loses one and no replay adds one twice.             *)
THEOREM HistoryHasNoGaps == ASSUME NoForce, ~Rewind PROVE Spec => []HistoryContiguous
<1>1. Init => TypeInv /\ Lineage /\ Aged /\ History
  BY TypeInit, LineageInit, AgedInit, HistoryInit
<1>2. TypeInv /\ Lineage /\ Aged /\ History /\ [Next]_vars => (TypeInv /\ Lineage /\ Aged /\ History)'
  BY TypeNext, LineageNext, AgedNext, HistoryNext
<1>3. TypeInv /\ Lineage /\ Aged /\ History => HistoryContiguous
  <2> SUFFICES ASSUME TypeInv, History, disk[Hist] # None, NEW k \in 2 .. Len(disk[Hist].rows)
               PROVE  disk[Hist].rows[k].iteration = disk[Hist].rows[k - 1].iteration + 1
    BY DEF HistoryContiguous
  <2> DEFINE rows == disk[Hist].rows
  <2>1. rows \in Rows /\ InRow(rows)
    BY DEF TypeInv, DiskTypes, HistFile, History, HistoryFiles
  <2> HIDE DEF rows
  <2>2. Len(rows) \in Nat /\ DOMAIN rows = 1 .. Len(rows) /\ \A j \in 1 .. Len(rows) : rows[j] \in Row
    <3>1. Len(rows) \in Nat /\ DOMAIN rows = 1 .. Len(rows)
      BY <2>1, RowFacts
    <3>2. \A j \in 1 .. Len(rows) : rows[j] \in Row
      BY <2>1, ElementOfSeq DEF Rows
    <3> QED
      BY <3>1, <3>2
  <2>3. k \in DOMAIN rows /\ k - 1 \in DOMAIN rows /\ 1 \in DOMAIN rows /\ k \in Int
    BY <2>2 DEF rows
  <2>4. rows[1].iteration \in Nat
    BY <2>2, <2>3, RowFacts
  <2>5. /\ rows[k].iteration = rows[1].iteration + k - 1
        /\ rows[k - 1].iteration = rows[1].iteration + (k - 1) - 1
    BY <2>1, <2>3 DEF InRow
  <2> QED
    BY <2>3, <2>4, <2>5 DEF rows
<1> QED
  BY <1>1, <1>2, <1>3, PTL DEF Spec
-----------------------------------------------------------------------------
(* What was last saved: where a state of that run is found. *)
Found(d, r, next, any) == \E n \in {State, Prev} : Readable(d[n]) /\ d[n].run = r /\ (d[n].next = next \/ any)
Held(r) ==
    \/ Found(disk, r, lastSaved[r], damaged)
    \/ \E b \in Launches : Found(backups[b], r, lastSaved[r], damaged)
Superseded(r) == \E q \in Launches : q > r /\ lastSaved[q] > 0
NothingIn(d) == d[State] = None /\ d[Prev] = None

LedgerTypes ==
    /\ lastSaved \in [Launches -> Nat]
    /\ backups = [b \in Launches |-> backups[b]]
    /\ \A b \in Launches : backups[b] = [n \in Names |-> backups[b][n]]

LedgerFiles ==
    /\ \A b \in Launches : b > launches => NothingIn(backups[b]) /\ lastSaved[b] = 0
    /\ Readable(disk[State]) => disk[State].next = lastSaved[disk[State].run]
    /\ Readable(disk[State]) /\ Readable(disk[Prev]) => disk[Prev].run = disk[State].run
    /\ \A r \in Launches : lastSaved[r] > 0 => Held(r) \/ Superseded(r)

LedgerAt(p) ==
    LET r == run[p] IN
    /\ pc[p] \in {"scan", "build"} => NothingIn(backups[r.by])
    /\ pc[p] # "idle" /\ r.backup # 0 => /\ r.backup = r.by /\ pc[p] \in {"move", "copylib"} \cup Publishing
                                         /\ pc[p] \in Publishing => r.id = r.by
    /\ pc[p] = "move" /\ r.backup # 0 =>
          \A n \in {State, Prev} : disk[n] # None => backups[r.backup][n] = None

Ledger == LedgerTypes /\ LedgerFiles /\ \A p \in Procs : LedgerAt(p)

Kept == backups' = backups /\ lastSaved' = lastSaved /\ damaged' = damaged
Process(p) == LaunchFresh(p) \/ LaunchResume(p) \/ LaunchResumeCopy(p) \/ Step(p) \/ Crash(p)

MovesOne(p) ==
    /\ pc[p] = "move" /\ run[p].backup # 0
    /\ lastSaved' = lastSaved /\ damaged' = damaged
    /\ \E n \in Names : /\ disk[n] # None /\ Writes(n, None)
                        /\ backups' = [backups EXCEPT ![run[p].backup][n] = disk[n]]

(* Only three steps write a saved state, a backup or what was last saved. *)
LEMMA LedgerDoes ==
    ASSUME TypeInv, StateEvery # 0, NEW p \in Procs, Process(p)
    PROVE  (Kept /\ (SameGens \/ Keeps(p))) \/ (MovesAway(p) /\ MovesOne(p)) \/ (Swaps(p) /\ SwapState(p))
<1>0. Does(p)
  BY ProcessDoes DEF Process
<1>1. CASE LaunchFresh(p) \/ LaunchResume(p) \/ LaunchResumeCopy(p)
  <2>1. \E l, flags, recipe, from : Launch(p, l, flags, recipe, from)
    BY <1>1 DEF LaunchFresh, LaunchResume, LaunchResumeCopy, Resume
  <2> QED
    BY <2>1 DEF Launch, files, Kept, SameGens
<1>2. Raise(p) => Kept /\ SameGens
  BY DEF Raise, files, ghosts, Kept, SameGens
<1>3. CASE Step(p)
  <2>1. CASE LoadState(p) \/ CheckBridge(p) \/ BindSnapshot(p) \/ CheckTarget(p) \/ LoadHistory(p)
    <3>1. pc[p] \notin {"keep", "swap", "move"}
      BY <2>1 DEF LoadState, CheckBridge, BindSnapshot, CheckTarget, LoadHistory
    <3>2. Kept
      <4>1. CASE LoadState(p)
        BY <1>2, <4>1 DEF LoadState, Kept, files
      <4>2. CASE CheckBridge(p)
        BY <1>2, <4>2 DEF CheckBridge, Kept, files, ghosts
      <4>3. CASE BindSnapshot(p)
        BY <1>2, <4>3 DEF BindSnapshot, Kept, ghosts
      <4>4. CASE CheckTarget(p)
        BY <1>2, <4>4 DEF CheckTarget, Kept, files, ghosts
      <4>5. CASE LoadHistory(p)
        BY <1>2, <4>5 DEF LoadHistory, Kept, files, ghosts
      <4> QED
        BY <2>1, <4>1, <4>2, <4>3, <4>4, <4>5
    <3> QED
      BY <1>0, <3>1, <3>2, FilesFrame
  <2>2. CASE Quarantine(p) \/ TruncateHistory(p) \/ Scan(p) \/ Build(p) \/ StartFresh(p)
    <3>1. pc[p] \notin {"keep", "swap", "move"}
      BY <2>2 DEF Quarantine, TruncateHistory, Scan, Build, StartFresh
    <3>2. Kept
      <4>1. CASE Quarantine(p)
        BY <4>1 DEF Quarantine, Kept, files, ghosts
      <4>2. CASE TruncateHistory(p)
        BY <4>2 DEF TruncateHistory, Kept, ghosts
      <4>3. CASE Scan(p)
        BY <1>2, <4>3 DEF Scan, Kept, files, ghosts
      <4>4. CASE Build(p)
        BY <1>2, <4>4 DEF Build, Kept, files, ghosts
      <4>5. CASE StartFresh(p)
        BY <4>5 DEF StartFresh, Kept
      <4> QED
        BY <2>2, <4>1, <4>2, <4>3, <4>4, <4>5
    <3> QED
      BY <1>0, <3>1, <3>2, FilesFrame
  <2>3. CASE BeginIteration(p) \/ CollectAndUpdate(p) \/ VerifyAgain(p) \/ SaveIter(p) \/ DropStale(p)
    <3>1. pc[p] \notin {"keep", "swap", "move"}
      BY <2>3 DEF BeginIteration, CollectAndUpdate, VerifyAgain, SaveIter, DropStale
    <3>2. Kept
      <4>1. CASE BeginIteration(p)
        BY <1>2, <4>1 DEF BeginIteration, Kept, files, ghosts
      <4>2. CASE CollectAndUpdate(p)
        BY <1>2, <4>2 DEF CollectAndUpdate, Kept, files
      <4>3. CASE VerifyAgain(p)
        BY <1>2, <4>3 DEF VerifyAgain, Kept, files, ghosts
      <4>4. CASE SaveIter(p)
        BY <4>4 DEF SaveIter, Kept, ghosts
      <4>5. CASE DropStale(p)
        BY <4>5 DEF DropStale, Kept, ghosts
      <4> QED
        BY <2>3, <4>1, <4>2, <4>3, <4>4, <4>5
    <3> QED
      BY <1>0, <3>1, <3>2, FilesFrame
  <2>4. CASE SaveHistory(p) \/ EndIteration(p) \/ Finish(p)
    <3>1. pc[p] \notin {"keep", "swap", "move"}
      BY <2>4 DEF SaveHistory, EndIteration, Finish
    <3>2. Kept
      <4>1. CASE SaveHistory(p)
        BY <4>1 DEF SaveHistory, Kept, ghosts
      <4>2. CASE EndIteration(p)
        BY <1>2, <4>2 DEF EndIteration, Kept, files, ghosts
      <4>3. CASE Finish(p)
        BY <4>3 DEF Finish, Kept, ghosts
      <4> QED
        BY <2>4, <4>1, <4>2, <4>3
    <3> QED
      BY <1>0, <3>1, <3>2, FilesFrame
  <2>5. CASE KeepPrevious(p)
    BY <2>5, KeepDoes DEF KeepPrevious, Kept, ghosts
  <2>6. CASE SwapState(p)
    BY <2>6, SwapDoes
  <2>7. CASE MoveAway(p)
    <3>1. pc[p] = "move"
      BY <2>7 DEF MoveAway
    <3>2. CASE Managed = {} \/ run[p].backup = 0
      BY <2>7, <3>2 DEF MoveAway, Kept, SameGens, files, ghosts
    <3>3. CASE ~(Managed = {} \/ run[p].backup = 0)
      <4>1. PICK n \in Managed :
              /\ disk' = [disk EXCEPT ![n] = None]
              /\ backups' = [backups EXCEPT ![run[p].backup][n] = disk[n]]
              /\ UNCHANGED <<lib, copy, lock, pc, run, ghosts>>
        BY <2>7, <3>3 DEF MoveAway
      <4>2. n \in Names /\ disk[n] # None
        BY <4>1 DEF Managed
      <4>3. Writes(n, None)
        BY <4>1, <4>2, Written DEF TypeInv, DiskTypes
      <4>4. lastSaved' = lastSaved /\ damaged' = damaged /\ pc' = pc
        BY <4>1 DEF ghosts
      <4>5. MovesOne(p)
        BY <3>1, <3>3, <4>1, <4>2, <4>3, <4>4 DEF MovesOne
      <4>6. ~Moves(p, "move", "copylib")
        BY <3>1, <4>4 DEF Moves, Passes
      <4> QED
        BY <2>7, <4>5, <4>6, MoveDoes
    <3> QED
      BY <3>2, <3>3
  <2> QED
    BY <1>3, <2>1, <2>2, <2>3, <2>4, <2>5, <2>6, <2>7 DEF Step
<1> QED
  BY <1>1, <1>2, <1>3 DEF Process, Crash

LEMMA LedgerIdle == ASSUME NEW q \in Procs, pc'[q] = "idle" PROVE LedgerAt(q)'
  BY StageSets DEF LedgerAt

LEMMA BackupFrame ==
    ASSUME TypeInv, NEW p \in Procs, Does(p), pc[p] # "idle", pc'[p] # "idle"
    PROVE  /\ pc[p] # "build" => run'[p].backup \in {0, run[p].backup}
           /\ pc[p] = "build" => run'[p].backup \in {0, run[p].by}
<1> DEFINE s == run'[p]
<1>0. run[p] \in RunRec
  BY DEF TypeInv
<1>1. CASE Loads(p) \/ Binds(p) \/ Compares(p) \/ Reads(p)
  BY <1>0, <1>1, Positions DEF Loads, Binds, Compares, Reads, RunRec
<1>2. CASE SetsAside(p) \/ StartsRun(p) \/ Collects(p)
  BY <1>0, <1>2, Positions DEF SetsAside, StartsRun, Collects, RunRec
<1>3. CASE Builds(p)
  BY <1>0, <1>3, Positions DEF Builds, RunRec
<1>4. CASE Unstales(p) \/ Records(p) \/ Swaps(p) \/ Advances(p)
  BY <1>0, <1>4, Positions DEF Unstales, Records, Swaps, Advances, RunRec
<1>5. CASE Truncates(p) \/ MovesAway(p) \/ Saves(p) \/ Keeps(p)
  BY <1>5, Positions DEF Truncates, MovesAway, Saves, Keeps
<1>6. ASSUME NEW a, NEW b, Moves(p, a, b), a # "build" PROVE s = run[p] /\ pc[p] # "build"
  BY <1>6, Positions DEF Moves
<1> QED
  BY <1>1, <1>2, <1>3, <1>4, <1>5, <1>6, Positions DEF Does

(* What a launch of the process knows of its own backup, but for the move itself. *)
LEMMA LedgerAtKept ==
    ASSUME TypeInv, LedgerTypes, LedgerFiles, NEW p \in Procs, Does(p), LedgerAt(p),
           Kept, SameGens \/ Keeps(p), pc'[p] # "idle"
    PROVE  LedgerAt(p)'
<1> DEFINE s == run'[p]
<1>1. CASE pc[p] = "idle"
  <2>1. \E l \in {"scan", "load"} : Starts(p, l)
    BY <1>1, DoesAt DEF StartsFresh, StartsAgain, StartsCopy
  <2>2. s.backup = 0 /\ s.by = launches + 1 /\ launches < MaxLaunches
    BY <2>1 DEF Starts
  <2>3. launches + 1 \in Launches /\ launches + 1 > launches
    BY <2>2, TrainAssumption DEF TypeInv, Launches
  <2>4. NothingIn(backups'[s.by])
    BY <2>2, <2>3 DEF LedgerFiles, Kept
  <2>5. pc'[p] \in {"scan", "load"}
    BY <2>1 DEF Starts
  <2> QED
    BY <2>2, <2>4, <2>5 DEF LedgerAt
<1>2. CASE pc[p] # "idle"
  <2>0. s.by = run[p].by /\ run[p].by \in Launches /\ backups' = backups
    BY <1>2, Alone, LocalsKept DEF Kept
  <2> HIDE DEF s
  <2>1. CASE pc[p] = "scan"
    <3>1. pc'[p] = "build" /\ s = run[p]
      BY <1>2, <2>1, DoesAt, Positions DEF s, Moves
    <3> QED
      BY <2>0, <2>1, <3>1 DEF s, LedgerAt, Publishing, Within
  <2>2. CASE pc[p] = "build"
    <3>1. pc'[p] = "move" /\ s.backup \in {0, run[p].by}
      BY <1>2, <2>2, BackupFrame, DoesAt, Positions DEF s
    <3>2. NothingIn(backups[run[p].by])
      BY <2>2 DEF LedgerAt
    <3> QED
      BY <2>0, <3>1, <3>2 DEF s, LedgerAt, NothingIn, Publishing, Within
  <2>3. CASE pc[p] = "move"
    <3>0. s.backup \in {0, run[p].backup} /\ SameGens
      BY <1>2, <2>3, BackupFrame, Positions DEF s
    <3>1. pc'[p] \in {"move", "copylib"}
      BY <1>2, <2>3, DoesAt, Positions
    <3> QED
      BY <2>0, <2>3, <3>0, <3>1 DEF s, LedgerAt, SameGens, Publishing, Within
  <2>4. CASE pc[p] = "copylib"
    <3>1. StartsRun(p) /\ pc'[p] = "loop" /\ s.backup \in {0, run[p].backup}
      BY <1>2, <2>4, BackupFrame, DoesAt, Positions DEF s
    <3>2. s.id = run[p].by
      <4>1. run[p] \in RunRec
        BY DEF TypeInv
      <4> QED
        BY <3>1, <4>1 DEF s, StartsRun, RunRec
    <3> QED
      BY <2>0, <2>4, <3>1, <3>2 DEF s, LedgerAt, Publishing, Within
  <2>5. CASE pc[p] \in Publishing
    <3>1. s.backup \in {0, run[p].backup} /\ s.id = run[p].id
      BY <1>2, <2>5, BackupFrame, LocalsFrame, AcceptedFacts DEF s, LocalsFramed, Publishing, Within
    <3>2. pc'[p] \in Publishing
      BY <1>2, <2>5, DoesAt, Positions DEF Publishing, Within
    <3> QED
      BY <2>0, <2>5, <3>1, <3>2 DEF s, LedgerAt, Publishing, Within
  <2>6. CASE pc[p] \in {"load", "lineage"} \cup Comparing \cup Accepted
    <3>1. run[p].backup = 0
      BY <2>6 DEF LedgerAt, Publishing, Within, Comparing, Accepted
    <3>2. s.backup = 0
      BY <1>2, <2>6, <3>1, BackupFrame DEF s, Comparing, Accepted
    <3>3. pc'[p] \notin {"scan", "build"}
      BY <1>2, <2>6, DoesAt, Positions DEF Comparing, Accepted
    <3> QED
      BY <3>2, <3>3 DEF s, LedgerAt
  <2> QED
    BY <1>2, <2>1, <2>2, <2>3, <2>4, <2>5, <2>6 DEF TypeInv, Stages, Bound, Empty
<1> QED
  BY <1>1, <1>2

(* A step that leaves the ledger alone, and at most makes the newest state the previous. *)
LEMMA LedgerFilesKept ==
    ASSUME TypeInv, LedgerTypes, LedgerFiles, NEW p \in Procs, Does(p), Kept, SameGens \/ Keeps(p)
    PROVE  (LedgerTypes /\ LedgerFiles)'
<1>1. LedgerTypes'
  BY DEF LedgerTypes, Kept
<1>2. \A b \in Launches : b > launches' => NothingIn(backups'[b]) /\ lastSaved'[b] = 0
  <2>1. launches \in Int /\ launches' \in {launches, launches + 1}
    <3>1. CASE pc[p] = "idle"
      <4>1. StartsFresh(p) \/ StartsAgain(p) \/ StartsCopy(p)
        BY <3>1, Positions DEF Does
      <4> QED
        BY <4>1 DEF StartsFresh, StartsAgain, StartsCopy, Starts, TypeInv
    <3>2. CASE pc[p] # "idle"
      BY <3>2, FilesFrame DEF TypeInv
    <3> QED
      BY <3>1, <3>2
  <2> QED
    BY <2>1 DEF LedgerFiles, Kept, Launches
<1>3. \A r, next, any : Found(disk, r, next, any) =>
         \/ Found(disk', r, next, any)
         \/ r = disk[State].run /\ Readable(disk[State]) /\ Found(disk', r, lastSaved[r], any)
  <2>1. CASE SameGens
    BY <2>1 DEF Found, SameGens, Readable
  <2>2. CASE Keeps(p) /\ ~SameGens
    <3>1. Readable(disk[State]) /\ disk'[Prev] = disk[State] /\ disk'[State] = None
      BY <2>2 DEF Keeps
    <3>2. disk[State].next = lastSaved[disk[State].run]
      BY <3>1 DEF LedgerFiles
    <3>3. \A r, next, any : Found(disk, r, next, any) => r = disk[State].run
      BY <3>1 DEF Found, LedgerFiles
    <3> QED
      BY <3>1, <3>2, <3>3 DEF Found, Readable
  <2> QED
    BY <2>1, <2>2
<1>4. ASSUME NEW r \in Launches, lastSaved'[r] > 0 PROVE Held(r)' \/ Superseded(r)'
  <2>1. Held(r) \/ Superseded(r)
    BY <1>4 DEF LedgerFiles, Kept
  <2>2. Held(r) => Held(r)'
    BY <1>3 DEF Held, Kept
  <2> QED
    BY <2>1, <2>2 DEF Superseded, Kept
<1>5. /\ Readable(disk'[State]) => disk'[State].next = lastSaved'[disk'[State].run]
      /\ Readable(disk'[State]) /\ Readable(disk'[Prev]) => disk'[Prev].run = disk'[State].run
  BY DEF LedgerFiles, Kept, SameGens, Keeps, Readable
<1> QED
  BY <1>1, <1>2, <1>4, <1>5 DEF LedgerFiles

(* What is moved away is found in the backup. *)
LEMMA LedgerMoved ==
    ASSUME TypeInv, LedgerTypes, LedgerFiles, NEW p \in Procs, LedgerAt(p), MovesAway(p), MovesOne(p)
    PROVE  (LedgerTypes /\ LedgerFiles /\ LedgerAt(p))'
<1> DEFINE b == run[p].backup
<1>1. PICK n \in Names : /\ disk[n] # None /\ Writes(n, None)
                         /\ backups' = [backups EXCEPT ![b][n] = disk[n]]
  BY DEF MovesOne
<1>2. /\ pc[p] = "move" /\ pc'[p] = "move" /\ run'[p] = run[p] /\ launches' = launches
      /\ lastSaved' = lastSaved /\ damaged' = damaged /\ b # 0
  BY DEF MovesAway, Passes, MovesOne
<1>3. b = run[p].by /\ b \in Launches /\ b = launches
  BY <1>2, Alone DEF LedgerAt
<1> HIDE DEF b
<1>4. /\ \A c \in Launches \ {b} : backups'[c] = backups[c]
      /\ backups'[b] = [backups[b] EXCEPT ![n] = disk[n]]
      /\ backups' = [c \in Launches |-> backups'[c]]
  BY <1>1, <1>3 DEF LedgerTypes
<1>5. /\ backups'[b][n] = disk[n] /\ \A m \in Names \ {n} : backups'[b][m] = backups[b][m]
      /\ backups'[b] = [m \in Names |-> backups'[b][m]]
  BY <1>1, <1>3, <1>4 DEF LedgerTypes
<1>6. LedgerTypes'
  BY <1>2, <1>4, <1>5 DEF LedgerTypes
<1>7. disk'[n] = None /\ \A m \in Names \ {n} : disk'[m] = disk[m]
  BY <1>1 DEF Writes
<1>8. \A c \in Launches : c > launches' => NothingIn(backups'[c]) /\ lastSaved'[c] = 0
  BY <1>2, <1>3, <1>4 DEF LedgerFiles, Launches
<1>9. /\ Readable(disk'[State]) => disk'[State].next = lastSaved'[disk'[State].run]
      /\ Readable(disk'[State]) /\ Readable(disk'[Prev]) => disk'[Prev].run = disk'[State].run
  <2>1. \A m \in {State, Prev} : Readable(disk'[m]) => disk'[m] = disk[m]
    BY <1>7, NameFacts DEF Readable
  <2> QED
    BY <1>2, <2>1 DEF LedgerFiles
<1>10. \A m \in {State, Prev} : disk[m] # None => backups[b][m] = None
  BY <1>2 DEF LedgerAt, b
<1>11. \A r, next, any : Found(disk, r, next, any) =>
          Found(disk', r, next, any) \/ Found(backups'[b], r, next, any)
  BY <1>5, <1>7, NameFacts DEF Found
<1>12. \A r, next, any : Found(backups[b], r, next, any) => Found(backups'[b], r, next, any)
  BY <1>1, <1>5, <1>10, NameFacts DEF Found, Readable
<1>13. ASSUME NEW r \in Launches, lastSaved'[r] > 0 PROVE Held(r)' \/ Superseded(r)'
  <2>1. Held(r) \/ Superseded(r)
    BY <1>2, <1>13 DEF LedgerFiles
  <2>2. Held(r) => Held(r)'
    <3>1. CASE Found(disk, r, lastSaved[r], damaged)
      BY <1>2, <1>3, <1>11, <3>1 DEF Held
    <3>2. ASSUME NEW c \in Launches, Found(backups[c], r, lastSaved[r], damaged)
          PROVE  Found(backups'[c], r, lastSaved[r], damaged)
      BY <1>4, <1>12, <3>2
    <3> QED
      BY <1>2, <3>1, <3>2 DEF Held
  <2> QED
    BY <1>2, <2>1, <2>2 DEF Superseded
<1>14. LedgerAt(p)'
  <2>1. \A m \in {State, Prev} : disk'[m] # None => backups'[b][m] = None
    BY <1>5, <1>7, <1>10, NameFacts
  <2> QED
    BY <1>2, <2>1 DEF LedgerAt, b
<1> QED
  BY <1>6, <1>8, <1>9, <1>13, <1>14 DEF LedgerFiles

(* The new state is the newest of its run.  A backup is dropped by the launch that made *)
(* it, which is the latest of all and has saved a state now.                            *)
LEMMA LedgerSwapped ==
    ASSUME TypeInv, LedgerTypes, LedgerFiles, NEW p \in Procs, LedgerAt(p), LineageAt(p), AgedAt(p),
           Swaps(p), SwapState(p)
    PROVE  (LedgerTypes /\ LedgerFiles /\ LedgerAt(p))'
<1> DEFINE id == run[p].id
           i  == run[p].i
           b  == run[p].backup
<1>1. /\ pc[p] = "swap" /\ pc'[p] = "gate" /\ run'[p].backup = 0 /\ launches' = launches
      /\ run'[p].by = run[p].by /\ run'[p].id = id
  <2>1. run[p] \in RunRec
    BY DEF TypeInv
  <2> QED
    BY <2>1 DEF Swaps, Passes, RunRec
<1>2. i \in Nat /\ id \in Launches /\ id \in 1 .. launches /\ run[p].by = launches /\ launches \in Launches
  <2>1. i \in Nat /\ id \in Launches
    BY <1>1, BoundFacts, StageSets, MaxIterFacts
  <2>2. id \in 1 .. launches
    BY <1>1, StageSets DEF AgedAt
  <2>3. run[p].by = launches /\ launches \in Launches
    BY <1>1, Alone
  <2> QED
    BY <2>1, <2>2, <2>3
<1>3. /\ lastSaved' = [lastSaved EXCEPT ![id] = i + 1] /\ damaged' = damaged
      /\ backups' = IF b = 0 THEN backups ELSE [backups EXCEPT ![b] = NoFiles]
  BY DEF SwapState, ClearBackup
<1>4. /\ disk'[State].run = id /\ disk'[State].next = i + 1 /\ disk'[Prev] = disk[Prev]
      /\ Readable(disk'[State])
  <2>1. disk'[State].run = id /\ disk'[State].next = i + 1 /\ disk'[Prev] = disk[Prev]
    BY NameFacts DEF Swaps, Writes
  <2>2. disk'[State] \in StateFile
    BY FileTypes
  <2> QED
    BY <2>1, <2>2, FilesAreReadable
<1>5. \A n \in {State, Prev} : Readable(disk[n]) => disk[n].run = id
  BY <1>1, AcceptedFacts DEF LineageAt, AllOf
<1>6. b # 0 => b = launches /\ id = launches
  BY <1>1, <1>2 DEF LedgerAt, Publishing, Within
<1> HIDE DEF id, i, b
<1>7. /\ lastSaved' \in [Launches -> Nat] /\ lastSaved'[id] = i + 1
      /\ \A r \in Launches \ {id} : lastSaved'[r] = lastSaved[r]
  BY <1>2, <1>3 DEF LedgerTypes
<1>8. b # 0 => /\ backups' = [c \in Launches |-> backups'[c]] /\ backups'[b] = NoFiles
               /\ \A c \in Launches \ {b} : backups'[c] = backups[c]
  BY <1>2, <1>3, <1>6 DEF LedgerTypes
<1>9. LedgerTypes'
  <2>1. NoFiles = [n \in Names |-> NoFiles[n]]
    BY DEF NoFiles
  <2>2. CASE b = 0
    BY <1>3, <1>7, <2>2 DEF LedgerTypes
  <2>3. CASE b # 0
    BY <1>7, <1>8, <2>1, <2>3 DEF LedgerTypes
  <2> QED
    BY <2>2, <2>3
<1>10. \A c \in Launches : c > launches' => NothingIn(backups'[c]) /\ lastSaved'[c] = 0
  <2>1. ASSUME NEW c \in Launches, c > launches PROVE c # id /\ c # launches
    BY <1>2, <2>1
  <2>2. \A c \in Launches : c # launches => backups'[c] = backups[c]
    BY <1>3, <1>6, <1>8
  <2> QED
    BY <1>1, <1>7, <2>1, <2>2 DEF LedgerFiles
<1>11. Found(disk', id, i + 1, damaged')
  BY <1>4 DEF Found
<1>12. ASSUME NEW r \in Launches, lastSaved'[r] > 0 PROVE Held(r)' \/ Superseded(r)'
  <2>1. CASE r = id
    BY <1>7, <1>11, <2>1 DEF Held
  <2>2. CASE r # id /\ b # 0
    <3>1. lastSaved[r] > 0
      BY <1>7, <1>12, <2>2
    <3>2. ~(r > launches)
      BY <3>1 DEF LedgerFiles
    <3>3. id > r
      BY <1>2, <1>6, <2>2, <3>2 DEF Launches
    <3>4. lastSaved'[id] > 0
      BY <1>2, <1>7
    <3> QED
      BY <1>2, <3>3, <3>4 DEF Superseded
  <2>3. CASE r # id /\ b = 0
    <3>1. Held(r) \/ Superseded(r)
      BY <1>7, <1>12, <2>3 DEF LedgerFiles
    <3>2. Held(r) => Held(r)'
      <4>1. ~Found(disk, r, lastSaved[r], damaged)
        BY <1>5, <2>3 DEF Found
      <4> QED
        BY <1>3, <1>7, <2>3, <4>1 DEF Held
    <3>3. Superseded(r) => Superseded(r)'
      <4>1. \A q \in Launches : lastSaved[q] > 0 => lastSaved'[q] > 0
        BY <1>2, <1>7
      <4> QED
        BY <4>1 DEF Superseded
    <3> QED
      BY <3>1, <3>2, <3>3
  <2> QED
    BY <2>1, <2>2, <2>3
<1>13. /\ Readable(disk'[State]) => disk'[State].next = lastSaved'[disk'[State].run]
       /\ Readable(disk'[State]) /\ Readable(disk'[Prev]) => disk'[Prev].run = disk'[State].run
  BY <1>4, <1>5, <1>7
<1>14. LedgerAt(p)'
  BY <1>1 DEF LedgerAt
<1> QED
  BY <1>9, <1>10, <1>12, <1>13, <1>14 DEF LedgerFiles

(* A damaged file costs one generation. *)
LEMMA LedgerSuffered ==
    ASSUME TypeInv, Ledger, Rebuild \/ CorruptState \/ DamageSnapshot \/ CopyState
    PROVE  Ledger'
<1>1. Suffers
  BY SurroundingsDo
<1>2. /\ pc' = pc /\ run' = run /\ launches' = launches /\ disk'[Prev] = disk[Prev]
      /\ backups' = backups /\ lastSaved' = lastSaved
  BY <1>1 DEF Suffers, Rebuild, CorruptState, DamageSnapshot, CopyState
<1>3. CASE CorruptState
  <2>1. Readable(disk[State]) /\ Readable(disk[Prev]) /\ disk'[State] = Corrupt /\ damaged'
    <3>1. disk'[State] = Corrupt
      BY <1>3, NameFacts DEF CorruptState, TypeInv, DiskTypes
    <3> QED
      BY <1>3, <3>1 DEF CorruptState
  <2>2. disk[Prev].run = disk[State].run /\ ~Readable(disk'[State])
    BY <2>1 DEF Ledger, LedgerFiles, Readable
  <2>3. ASSUME NEW r \in Launches, Held(r) PROVE Held(r)'
    <3>1. \A next, any : Found(disk, r, next, any) => Found(disk', r, next, damaged')
      BY <1>2, <2>1, <2>2 DEF Found
    <3>2. \A d, next, any : Found(d, r, next, any) => Found(d, r, next, damaged')
      BY <2>1 DEF Found
    <3> QED
      BY <1>2, <2>3, <3>1, <3>2 DEF Held
  <2>4. ASSUME NEW r \in Launches, lastSaved'[r] > 0 PROVE Held(r)' \/ Superseded(r)'
    BY <1>2, <2>3, <2>4 DEF Ledger, LedgerFiles, Superseded
  <2>5. LedgerFiles'
    BY <1>2, <2>2, <2>4 DEF Ledger, LedgerFiles
  <2>6. \A p \in Procs : LedgerAt(p)'
    BY <1>2, <2>1, NameFacts DEF Ledger, LedgerAt, Readable
  <2> QED
    BY <1>2, <2>5, <2>6 DEF Ledger, LedgerTypes
<1>4. CASE Rebuild \/ DamageSnapshot \/ CopyState
  <2>1. damaged' = damaged /\ disk'[State] = disk[State]
    <3>1. CASE Rebuild \/ CopyState
      BY <3>1 DEF Rebuild, CopyState
    <3>2. CASE DamageSnapshot
      <4>1. PICK l \in Libs, c \in {None} \cup {[content |-> m] : m \in Libs} :
               disk' = [disk EXCEPT ![Snapshot(l)] = c]
        BY <3>2 DEF DamageSnapshot
      <4>2. State # Snapshot(l) /\ State \in Names
        BY NameFacts
      <4> QED
        BY <3>2, <4>1, <4>2 DEF DamageSnapshot, TypeInv, DiskTypes
    <3> QED
      BY <1>4, <3>1, <3>2
  <2>2. \A r, next, any : Found(disk, r, next, any) <=> Found(disk', r, next, any)
    BY <1>2, <2>1 DEF Found
  <2>3. \A r \in Launches : (Held(r) => Held(r)') /\ (Superseded(r) => Superseded(r)')
    BY <1>2, <2>1, <2>2 DEF Held, Superseded
  <2>4. LedgerFiles'
    BY <1>2, <2>1, <2>3 DEF Ledger, LedgerFiles
  <2>5. \A p \in Procs : LedgerAt(p)'
    BY <1>2, <2>1 DEF Ledger, LedgerAt
  <2> QED
    BY <1>2, <2>4, <2>5 DEF Ledger, LedgerTypes
<1> QED
  BY <1>3, <1>4

LEMMA LedgerNext ==
    ASSUME StateEvery # 0, TypeInv, Lineage, Aged, Ledger, [Next]_vars
    PROVE  Ledger'
<1>1. CASE UNCHANGED vars
  BY <1>1 DEF vars, Ledger, LedgerTypes, LedgerFiles, LedgerAt, Held, Superseded, Found, NothingIn, Readable
<1>2. ASSUME NEW p \in Procs, Process(p) PROVE Ledger'
  <2>0. /\ Does(p) /\ LedgerTypes /\ LedgerFiles /\ LedgerAt(p) /\ LineageAt(p) /\ AgedAt(p)
        /\ \A q \in Procs \ {p} : pc'[q] = "idle"
    BY <1>2, ProcessDoes, DoneTypes DEF Process, Ledger, Lineage, Aged
  <2>1. \A q \in Procs \ {p} : LedgerAt(q)'
    BY <2>0, LedgerIdle
  <2>2. CASE Kept /\ (SameGens \/ Keeps(p))
    <3>1. LedgerTypes' /\ LedgerFiles'
      BY <2>0, <2>2, LedgerFilesKept
    <3>2. LedgerAt(p)'
      BY <2>0, <2>2, LedgerIdle, LedgerAtKept
    <3> QED
      BY <2>1, <3>1, <3>2 DEF Ledger
  <2>3. CASE MovesAway(p) /\ MovesOne(p)
    BY <2>0, <2>1, <2>3, LedgerMoved DEF Ledger
  <2>4. CASE Swaps(p) /\ SwapState(p)
    BY <2>0, <2>1, <2>4, LedgerSwapped DEF Ledger
  <2> QED
    BY <1>2, <2>2, <2>3, <2>4, LedgerDoes
<1> QED
  BY <1>1, <1>2, LedgerSuffered DEF Next, Process

LEMMA LedgerInit == ASSUME Init PROVE Ledger
<1>1. /\ pc = [p \in Procs |-> "idle"] /\ backups = [b \in Launches |-> NoFiles]
      /\ lastSaved = [r \in Launches |-> IF r <= launches THEN 2 ELSE 0] /\ launches \in {0, 1}
  BY DEF Init
<1>2. LedgerTypes
  BY <1>1 DEF LedgerTypes, NoFiles
<1>3. \A b \in Launches : b > launches => NothingIn(backups[b]) /\ lastSaved[b] = 0
  BY <1>1, NameFacts DEF NothingIn, NoFiles, Launches
<1>4. \A p \in Procs : LedgerAt(p)
  BY <1>1, StageSets DEF LedgerAt
<1>5. CASE disk = NoFiles /\ launches = 0
  <2>1. ~Readable(disk[State]) /\ ~Readable(disk[Prev])
    BY <1>5, NameFacts DEF NoFiles, Readable
  <2>2. \A r \in Launches : lastSaved[r] = 0
    BY <1>1, <1>5 DEF Launches
  <2> QED
    BY <1>2, <1>3, <1>4, <2>1, <2>2 DEF Ledger, LedgerFiles
<1>6. ASSUME launches = 1, NEW v \in Invocations, NEW pin \in {None, lib}, lib \in Libs,
             disk = OlderRun(lib, v.recipe, pin, MaxIter)
      PROVE  Ledger
  <2>1. OlderFiles(disk, lib, v.recipe, pin)
    BY <1>6, OlderTypes
  <2>2. disk[Prev] = None /\ disk[State].run = 1 /\ disk[State].next = 2
    <3>1. Prev \in Names \ {Iter(1), Hist, State, Snapshot(lib)}
      BY <1>6, MaxIterFacts, NameFacts
    <3> QED
      BY <2>1, <3>1 DEF OlderFiles
  <2>3. disk[State] \in StateFile
    <3> DEFINE u == OlderUpdate(lib, v.recipe)
    <3>1. 1 \in Launches /\ MaxIter \in Targets /\ 2 \in 2 .. MaxIter + 1 /\ v.recipe \in Recipes
      BY MaxIterFacts, TrainAssumption DEF Launches, Recipes
    <3>2. u \in Update
      BY <1>6, <3>1 DEF Update, OlderUpdate
    <3> HIDE DEF u
    <3>3. <<u>> \in Weights
      BY <3>2 DEF Weights
    <3>4. v.recipe.base_seed \in {r.base_seed : r \in Recipes} /\ OlderEcho(v.recipe) \in Echoes
      BY <3>1 DEF Echoes
    <3>5. disk[State] = [run |-> 1, next |-> 2, traj |-> <<u>>, pin |-> pin, target |-> MaxIter,
                         seed |-> v.recipe.base_seed, echo |-> OlderEcho(v.recipe), init |-> {}]
      BY <2>1 DEF OlderFiles, u
    <3>6. pin \in Libs \cup {None} /\ {} \in SUBSET InitFlags
      BY <1>6
    <3> QED
      BY <3>1, <3>3, <3>4, <3>5, <3>6 DEF StateFile
  <2>4. 1 \in Launches /\ lastSaved[1] = 2 /\ \A r \in Launches : r # 1 => lastSaved[r] = 0
    <3>1. MaxLaunches \in Nat \ {0}
      BY TrainAssumption
    <3> QED
      BY <1>1, <1>6, <3>1 DEF Launches
  <2>5. Found(disk, 1, 2, damaged)
    BY <2>2, <2>3, FilesAreReadable DEF Found
  <2>6. \A r \in Launches : lastSaved[r] > 0 => Held(r)
    BY <2>4, <2>5 DEF Held
  <2>7. ~Readable(disk[Prev])
    BY <2>2 DEF Readable
  <2> QED
    BY <1>2, <1>3, <1>4, <2>2, <2>4, <2>6, <2>7 DEF Ledger, LedgerFiles
<1> QED
  BY <1>5, <1>6 DEF Init

(* Recoverable: whatever crashes, is damaged, copied or moved away, the state a run last *)
(* saved is found in the directory or in a backup, or a later run has saved one; after a *)
(* damaged file some state of it is.                                                     *)
THEOREM SavedIsNotLost == ASSUME NoForce, StateEvery # 0 PROVE Spec => []Recoverable
<1>1. Init => TypeInv /\ Lineage /\ Aged /\ Ledger
  BY TypeInit, LineageInit, AgedInit, LedgerInit
<1>2. TypeInv /\ Lineage /\ Aged /\ Ledger /\ [Next]_vars => (TypeInv /\ Lineage /\ Aged /\ Ledger)'
  BY TypeNext, LineageNext, AgedNext, LedgerNext
<1>3. Ledger => Recoverable
  <2> SUFFICES ASSUME Ledger, NEW r \in Launches, lastSaved[r] > 0
               PROVE  \/ \E d \in {disk} \cup {backups[b] : b \in Launches} :
                           \E g \in SavedIn(r, d) : g.run = r /\ (g.next = lastSaved[r] \/ damaged)
                      \/ \E q \in Launches : q > r /\ lastSaved[q] > 0
    BY DEF Recoverable
  <2>1. \A d : Found(d, r, lastSaved[r], damaged) =>
               \E g \in SavedIn(r, d) : g.run = r /\ (g.next = lastSaved[r] \/ damaged)
    BY DEF Found, SavedIn, Readable
  <2> QED
    BY <2>1 DEF Ledger, LedgerFiles, Held, Superseded
<1> QED
  BY <1>1, <1>2, <1>3, PTL DEF Spec

-----------------------------------------------------------------------------
(* The updates behind what a reader finds, run by run. *)
Agree(s, t) == \A j \in (DOMAIN s) \cap (DOMAIN t) : s[j] = t[j]

TraceOf(f) == [run |-> f.run, traj |-> f.traj]
Traces(d) ==
    {TraceOf(d[Iter(n)]) : n \in {m \in 1 .. MaxIter : d[Iter(m)] # None}}
    \cup {TraceOf(d[n]) : n \in {m \in {State, Prev} : Readable(d[m])}}
    \cup {[run |-> d[Hist].run, traj |-> d[Hist].rows[k].traj] :
             k \in IF d[Hist] = None THEN {} ELSE DOMAIN d[Hist].rows}

Numbered(d) ==
    /\ \A n \in 1 .. MaxIter : d[Iter(n)] # None => Len(d[Iter(n)].traj) = n
    /\ d[Hist] # None =>
          \A k \in DOMAIN d[Hist].rows : Len(d[Hist].rows[k].traj) = d[Hist].rows[k].iteration
    /\ Readable(d[State]) /\ Readable(d[Prev]) /\ d[Prev].run = d[State].run =>
          Len(d[Prev].traj) <= Len(d[State].traj)

Trails(d) == \A a, b \in Traces(d) : a.run = b.run => Agree(a.traj, b.traj)

RowsAlong(rows, traj) ==
    \A k \in DOMAIN rows : /\ Agree(rows[k].traj, traj)
                           /\ Len(rows[k].traj) = rows[k].iteration
                           /\ rows[k].iteration <= Len(traj)
AllAlong(d, id, traj) == \A a \in Traces(d) : a.run = id /\ Agree(a.traj, traj) /\ Len(a.traj) <= Len(traj)

(* What a directory holds of a run led to these weights or follows from them, and no
   generation of its state is newer. *)
Fits(d, id, traj) ==
    /\ \A a \in Traces(d) : a.run = id => Agree(a.traj, traj)
    /\ \A n \in {State, Prev} : Readable(d[n]) /\ d[n].run = id => Len(d[n].traj) <= Len(traj)

TrailAt(p) ==
    LET r == run[p] IN
    /\ pc[p] = "load" /\ r.from = None => copy # None /\ Fits(disk, copy.run, copy.traj)
    /\ pc[p] \in Comparing \cup {"lineage"} \cup Accepted => Fits(disk, r.id, r.traj)
    /\ pc[p] = "truncate" => \A n \in 1 .. MaxIter : disk[Iter(n)] # None => n <= Len(r.traj)
    /\ pc[p] \in Accepted \cup Publishing => RowsAlong(r.rows, r.traj)
    /\ pc[p] \in Publishing => AllAlong(disk, r.id, r.traj)

Trail == Numbered(disk) /\ Trails(disk) /\ \A p \in Procs : TrailAt(p)

(* A state kept elsewhere is resumed only where it fits what the directory holds. *)
CopyFits(p) == LaunchResumeCopy(p) => Fits(disk, copy.run, copy.traj)

LEMMA TraceTypes ==
    ASSUME TypeInv, NEW a \in Traces(disk)
    PROVE  a.run \in Launches /\ a.traj \in Weights
<1>1. ASSUME NEW n \in 1 .. MaxIter, disk[Iter(n)] # None, a = TraceOf(disk[Iter(n)])
      PROVE  a.run \in Launches /\ a.traj \in Weights
  BY <1>1 DEF TypeInv, DiskTypes, IterFile, TraceOf
<1>2. ASSUME NEW n \in {State, Prev}, Readable(disk[n]), a = TraceOf(disk[n])
      PROVE  a.run \in Launches /\ a.traj \in Weights
  BY <1>2 DEF TypeInv, DiskTypes, StateFile, TraceOf, Readable
<1>3. ASSUME disk[Hist] # None, NEW k \in DOMAIN disk[Hist].rows,
             a = [run |-> disk[Hist].run, traj |-> disk[Hist].rows[k].traj]
      PROVE  a.run \in Launches /\ a.traj \in Weights
  <2>1. disk[Hist].run \in Launches /\ disk[Hist].rows \in Rows
    BY <1>3 DEF TypeInv, DiskTypes, HistFile
  <2>2. disk[Hist].rows[k] \in Row
    BY <2>1, ElementOfSeq DEF Rows
  <2> QED
    BY <1>3, <2>1, <2>2 DEF Row
<1> QED
  BY <1>1, <1>2, <1>3 DEF Traces

Traced == \A a \in Traces(disk) : a.run \in Launches /\ a.traj \in Weights

LEMMA TraceTypesNext == TypeInv' => Traced'
<1>1. TypeInv => Traced
  BY TraceTypes DEF Traced
<1> QED
  BY <1>1, PTL

(* Where no file is written there is nothing new to see. *)
LEMMA TracesFewer ==
    ASSUME \A n \in 1 .. MaxIter : disk'[Iter(n)] \in {disk[Iter(n)], None},
           \A n \in {State, Prev} : disk'[n] \in {disk[State], disk[Prev], None, Corrupt},
           disk'[Hist] \in {disk[Hist], None}
    PROVE  Traces(disk') \subseteq Traces(disk) /\ (Trails(disk) => Trails(disk'))
<1>1. ASSUME NEW a \in Traces(disk') PROVE a \in Traces(disk)
  <2>1. ASSUME NEW n \in 1 .. MaxIter, disk'[Iter(n)] # None, a = TraceOf(disk'[Iter(n)])
        PROVE  a \in Traces(disk)
    BY <2>1 DEF Traces
  <2>2. ASSUME NEW n \in {State, Prev}, Readable(disk'[n]), a = TraceOf(disk'[n])
        PROVE  a \in Traces(disk)
    BY <2>2 DEF Traces, Readable
  <2>3. ASSUME disk'[Hist] # None, NEW k \in DOMAIN disk'[Hist].rows,
               a = [run |-> disk'[Hist].run, traj |-> disk'[Hist].rows[k].traj]
        PROVE  a \in Traces(disk)
    BY <2>3 DEF Traces
  <2> QED
    BY <2>1, <2>2, <2>3 DEF Traces
<1> QED
  BY <1>1 DEF Trails

LEMMA SameTraces ==
    ASSUME SameHist, SameGens, SameIters
    PROVE  Traces(disk') = Traces(disk) /\ (Numbered(disk) => Numbered(disk'))
<1>1. Traces(disk') = Traces(disk)
  BY DEF SameHist, SameGens, SameIters, Traces, TraceOf, Readable
<1>2. Numbered(disk) => Numbered(disk')
  BY DEF SameHist, SameGens, SameIters, Numbered, Readable
<1> QED
  BY <1>1, <1>2

(* Two that agree with a third as long as either agree with each other. *)
LEMMA AlongAgree ==
    ASSUME NEW s \in Weights, NEW t \in Weights, NEW r \in Weights,
           Agree(s, r), Len(s) <= Len(r), Agree(t, r)
    PROVE  Agree(s, t) /\ Agree(t, s)
<1>1. /\ DOMAIN s = 1 .. Len(s) /\ DOMAIN r = 1 .. Len(r) /\ Len(s) \in Nat /\ Len(r) \in Nat
  BY WeightFacts
<1>2. \A j \in DOMAIN s : j \in DOMAIN r
  BY <1>1
<1> QED
  BY <1>2 DEF Agree

LEMMA AppendAlong ==
    ASSUME NEW s \in Weights, NEW r \in Seq(Update), NEW u, Agree(s, r), Len(s) <= Len(r)
    PROVE  Agree(s, Append(r, u)) /\ Len(s) <= Len(Append(r, u))
<1>1. /\ DOMAIN s = 1 .. Len(s) /\ DOMAIN r = 1 .. Len(r) /\ Len(s) \in Nat /\ Len(r) \in Nat
  BY WeightFacts
<1>2. Len(Append(r, u)) = Len(r) + 1 /\ \A j \in 1 .. Len(r) : Append(r, u)[j] = r[j]
  BY <1>1
<1> QED
  BY <1>1, <1>2 DEF Agree

LEMMA TrailsAlong ==
    ASSUME TypeInv', NEW id, NEW r \in Weights, AllAlong(disk', id, r)
    PROVE  Trails(disk')
<1>1. \A a \in Traces(disk') : a.run \in Launches /\ a.traj \in Weights
  BY TraceTypesNext DEF Traced
<1> QED
  BY <1>1, AlongAgree DEF AllAlong, Trails

LEMMA NothingShown ==
    ASSUME Managed = {}
    PROVE  Traces(disk) = {}
<1>1. \A n \in Names : disk[n] = None
  BY DEF Managed
<1>2. /\ disk[Hist] = None /\ disk[State] = None /\ disk[Prev] = None
      /\ \A n \in 1 .. MaxIter : disk[Iter(n)] = None
  BY <1>1, NameFacts
<1> QED
  BY <1>2 DEF Traces, Readable

LEMMA RowsBeforeKeeps ==
    ASSUME NEW rows \in Rows, NEW n \in Int
    PROVE  \A j \in DOMAIN RowsBefore(rows, n) :
              \E k \in DOMAIN rows : rows[k].iteration < n /\ RowsBefore(rows, n)[j] = rows[k]
<1> DEFINE kept == {k \in DOMAIN rows : rows[k].iteration < n}
           nth(j) == CHOOSE k \in kept : Cardinality({m \in kept : m <= k}) = j
<1>1. Len(rows) \in Nat /\ kept \in SUBSET (1 .. Len(rows))
  <2>1. Len(rows) \in Nat /\ DOMAIN rows = 1 .. Len(rows)
    BY RowFacts
  <2> QED
    BY <2>1
<1>2. \A k \in kept : k \in DOMAIN rows /\ rows[k].iteration < n
  OBVIOUS
<1> HIDE DEF kept
<1>3. \A j \in 1 .. Cardinality(kept) : nth(j) \in kept
  BY <1>1, NthOf
<1> HIDE DEF nth
<1>4. RowsBefore(rows, n) = [j \in 1 .. Cardinality(kept) |-> rows[nth(j)]]
  BY DEF RowsBefore, kept, nth
<1> QED
  BY <1>2, <1>3, <1>4

LEMMA TrailIdle == ASSUME NEW q \in Procs, pc'[q] = "idle" PROVE TrailAt(q)'
  BY StageSets, RowedSets DEF TrailAt

Along(t, traj) == Agree(t, traj) /\ Len(t) <= Len(traj)
FilesAlong(d, id, traj) ==
    /\ \A n \in 1 .. MaxIter : d[Iter(n)] # None => d[Iter(n)].run = id /\ Along(d[Iter(n)].traj, traj)
    /\ \A n \in {State, Prev} : Readable(d[n]) => d[n].run = id /\ Along(d[n].traj, traj)
    /\ d[Hist] # None =>
          \A k \in DOMAIN d[Hist].rows : d[Hist].run = id /\ Along(d[Hist].rows[k].traj, traj)

LEMMA TracesHold ==
    ASSUME NEW d
    PROVE  /\ \A n \in 1 .. MaxIter : d[Iter(n)] # None => TraceOf(d[Iter(n)]) \in Traces(d)
           /\ \A n \in {State, Prev} : Readable(d[n]) => TraceOf(d[n]) \in Traces(d)
           /\ d[Hist] # None => \A k \in DOMAIN d[Hist].rows :
                 [run |-> d[Hist].run, traj |-> d[Hist].rows[k].traj] \in Traces(d)
  BY DEF Traces

LEMMA AlongIsAll ==
    ASSUME NEW d, NEW id, NEW traj
    PROVE  FilesAlong(d, id, traj) <=> AllAlong(d, id, traj)
<1>1. ASSUME FilesAlong(d, id, traj), NEW a \in Traces(d)
      PROVE  a.run = id /\ Along(a.traj, traj)
  <2>1. ASSUME NEW n \in 1 .. MaxIter, d[Iter(n)] # None, a = TraceOf(d[Iter(n)])
        PROVE  a.run = id /\ Along(a.traj, traj)
    BY <1>1, <2>1 DEF FilesAlong, TraceOf
  <2>2. ASSUME NEW n \in {State, Prev}, Readable(d[n]), a = TraceOf(d[n])
        PROVE  a.run = id /\ Along(a.traj, traj)
    BY <1>1, <2>2 DEF FilesAlong, TraceOf
  <2>3. ASSUME d[Hist] # None, NEW k \in DOMAIN d[Hist].rows,
               a = [run |-> d[Hist].run, traj |-> d[Hist].rows[k].traj]
        PROVE  a.run = id /\ Along(a.traj, traj)
    BY <1>1, <2>3 DEF FilesAlong
  <2> QED
    BY <2>1, <2>2, <2>3 DEF Traces
<1>2. ASSUME AllAlong(d, id, traj) PROVE FilesAlong(d, id, traj)
  <2>1. \A a \in Traces(d) : a.run = id /\ Along(a.traj, traj)
    BY <1>2 DEF AllAlong, Along
  <2>2. \A n \in 1 .. MaxIter : d[Iter(n)] # None => d[Iter(n)].run = id /\ Along(d[Iter(n)].traj, traj)
    BY <2>1, TracesHold DEF TraceOf
  <2>3. \A n \in {State, Prev} : Readable(d[n]) => d[n].run = id /\ Along(d[n].traj, traj)
    BY <2>1, TracesHold DEF TraceOf
  <2>4. ASSUME d[Hist] # None, NEW k \in DOMAIN d[Hist].rows
        PROVE  d[Hist].run = id /\ Along(d[Hist].rows[k].traj, traj)
    <3> DEFINE a == [run |-> d[Hist].run, traj |-> d[Hist].rows[k].traj]
    <3>1. a \in Traces(d)
      BY <2>4, TracesHold
    <3> QED
      BY <2>1, <3>1
  <2> QED
    BY <2>2, <2>3, <2>4 DEF FilesAlong
<1> QED
  BY <1>1, <1>2 DEF AllAlong, Along

(* Files that are kept or taken away fit as before. *)
LEMMA FitsFewer ==
    ASSUME NEW id, NEW traj, Fits(disk, id, traj),
           \A n \in 1 .. MaxIter : disk'[Iter(n)] \in {disk[Iter(n)], None},
           \A n \in {State, Prev} : disk'[n] \in {disk[State], disk[Prev], None, Corrupt},
           disk'[Hist] \in {disk[Hist], None}
    PROVE  Fits(disk', id, traj)
<1>1. Traces(disk') \subseteq Traces(disk)
  BY TracesFewer
<1>2. \A n \in {State, Prev} : Readable(disk'[n]) /\ disk'[n].run = id => Len(disk'[n].traj) <= Len(traj)
  BY DEF Fits, Readable
<1> QED
  BY <1>1, <1>2 DEF Fits

LEMMA SameIsFewer ==
    ASSUME SameHist, SameGens, SameIters
    PROVE  /\ \A n \in 1 .. MaxIter : disk'[Iter(n)] \in {disk[Iter(n)], None}
           /\ \A n \in {State, Prev} : disk'[n] \in {disk[State], disk[Prev], None, Corrupt}
           /\ disk'[Hist] \in {disk[Hist], None}
  BY DEF SameHist, SameGens, SameIters

(* A launch that loads a state goes on along it. *)
LEMMA LoadFits ==
    ASSUME TypeInv, NEW p \in Procs, Loads(p), Numbered(disk), Trails(disk), TrailAt(p)
    PROVE  Fits(disk, run'[p].id, run'[p].traj) /\ disk' = disk
<1> DEFINE g == Generation(run[p].from)
<1>0. run[p] \in RunRec /\ pc[p] = "load"
  BY Positions DEF TypeInv
<1>1. run'[p].id = g.run /\ run'[p].traj = g.traj /\ disk' = disk /\ Readable(g)
  BY <1>0 DEF Loads, RunRec
<1>2. CASE run[p].from = None
  <2>1. g = copy
    BY <1>2 DEF Generation
  <2> QED
    BY <1>0, <1>1, <1>2, <2>1 DEF TrailAt
<1>3. CASE run[p].from = State
  <2>1. g = IF Readable(disk[State]) THEN disk[State] ELSE disk[Prev]
    BY <1>3, NameFacts DEF Generation
  <2>2. TraceOf(g) \in Traces(disk)
    BY <1>1, <2>1, TracesHold
  <2>3. \A a \in Traces(disk) : a.run = g.run => Agree(a.traj, g.traj)
    BY <2>2 DEF Trails, TraceOf
  <2>4. \A n \in {State, Prev} : Readable(disk[n]) => disk[n].traj \in Weights
    BY DEF TypeInv, DiskTypes, StateFile, Readable
  <2>5. \A n \in {State, Prev} : Readable(disk[n]) => Len(disk[n].traj) \in Nat
    BY <2>4, WeightFacts
  <2>6. \A n \in {State, Prev} : Readable(disk[n]) /\ disk[n].run = g.run => Len(disk[n].traj) <= Len(g.traj)
    BY <1>1, <2>1, <2>5 DEF Numbered
  <2> QED
    BY <1>1, <2>3, <2>6 DEF Fits
<1> QED
  BY <1>0, <1>2, <1>3 DEF RunRec

LEMMA RowAt ==
    ASSUME NEW rows \in Rows, NEW k \in DOMAIN rows
    PROVE  rows[k].iteration \in 1 .. MaxIter /\ rows[k].iteration \in Int /\ rows[k].traj \in Weights
<1>1. k \in 1 .. Len(rows)
  BY RowFacts
<1>2. rows[k] \in Row
  BY <1>1 DEF Rows
<1>3. rows[k].iteration \in 1 .. MaxIter /\ rows[k].traj \in Weights
  BY <1>2 DEF Row
<1>4. MaxIter \in Nat
  BY MaxIterFacts
<1> QED
  BY <1>3, <1>4

(* The rows a launch goes on with are rows of what it loaded. *)
LEMMA RowsFit ==
    ASSUME TypeInv, NEW p \in Procs, Reads(p), Numbered(disk), TrailAt(p), CountedAt(p)
    PROVE  RowsAlong(run'[p].rows, run'[p].traj)
<1>0. run[p] \in RunRec /\ pc[p] = "lineage"
  BY Positions DEF TypeInv
<1>1. /\ disk[Hist] # None => disk[Hist].run = run[p].id
      /\ run'[p].traj = run[p].traj
      /\ run'[p].rows = IF disk[Hist] = None THEN <<>> ELSE RowsBefore(disk[Hist].rows, run[p].i)
  BY <1>0 DEF Reads, RunRec
<1>2. Len(run[p].traj) = run[p].i - 1 /\ run[p].i \in Int
  BY <1>0, StageSets DEF CountedAt, RunRec
<1>3. CASE disk[Hist] = None
  BY <1>1, <1>3 DEF RowsAlong
<1>4. CASE disk[Hist] # None
  <2> DEFINE rows == disk[Hist].rows
  <2>1. rows \in Rows
    BY <1>4 DEF TypeInv, DiskTypes, HistFile
  <2>2. ASSUME NEW k \in DOMAIN rows, rows[k].iteration < run[p].i
        PROVE  /\ Agree(rows[k].traj, run[p].traj) /\ Len(rows[k].traj) = rows[k].iteration
               /\ rows[k].iteration <= Len(run[p].traj)
    <3>1. [run |-> disk[Hist].run, traj |-> rows[k].traj] \in Traces(disk)
      BY <1>4, TracesHold
    <3>2. Fits(disk, run[p].id, run[p].traj)
      BY <1>0 DEF TrailAt
    <3>3. Agree(rows[k].traj, run[p].traj)
      BY <1>1, <1>4, <3>1, <3>2 DEF Fits
    <3>4. rows[k].iteration \in Int
      BY <2>1, RowAt
    <3> QED
      BY <1>2, <1>4, <2>2, <3>3, <3>4 DEF Numbered
  <2>3. \A j \in DOMAIN run'[p].rows :
           \E k \in DOMAIN rows : rows[k].iteration < run[p].i /\ run'[p].rows[j] = rows[k]
    BY <1>1, <1>2, <1>4, <2>1, RowsBeforeKeeps
  <2> HIDE DEF rows
  <2> QED
    BY <1>1, <2>2, <2>3 DEF RowsAlong
<1> QED
  BY <1>3, <1>4

TrailNow(p) == Numbered(disk) /\ Trails(disk) /\ TrailAt(p)

(* From the launch to the point where the history is cut back. *)
LEMMA TrailResumes ==
    ASSUME TypeInv, NEW p \in Procs, Does(p), TrailNow(p), CountedAt(p),
           pc'[p] \in Comparing \cup {"lineage"} \cup Accepted
    PROVE  TrailNow(p)'
<1>0. run[p] \in RunRec /\ pc'[p] # "idle" /\ pc[p] # "idle"
      /\ pc[p] \in {"load"} \cup Comparing \cup {"lineage", "quarantine"}
  <2>1. run[p] \in RunRec /\ pc'[p] # "idle"
    BY RowedSets, StageSets, AcceptedFacts DEF TypeInv, Accepted
  <2>2. pc'[p] \in {"bridge", "snapshot", "echo", "lineage", "quarantine", "truncate"}
    BY DEF Comparing, Accepted
  <2>3. pc[p] \in {"load", "bridge", "snapshot", "echo", "lineage", "quarantine"}
    BY <2>2, Positions DEF Does, StartsFresh, StartsAgain, StartsCopy, Starts
  <2> QED
    BY <2>1, <2>3 DEF Comparing
<1>1. CASE pc[p] = "load"
  <2>1. Loads(p) /\ pc'[p] = "bridge"
    BY <1>0, <1>1, DoesAt, Positions
  <2>2. Fits(disk, run'[p].id, run'[p].traj) /\ disk' = disk
    BY <2>1, LoadFits DEF TrailNow
  <2> QED
    BY <2>1, <2>2, AcceptedFacts, StageSets DEF TrailNow, TrailAt, Accepted, Publishing, Within
<1>2. CASE pc[p] \in Comparing
  <2>1. /\ SameHist /\ SameGens /\ SameIters
        /\ run'[p].id = run[p].id /\ run'[p].traj = run[p].traj
        /\ pc'[p] \in {"snapshot", "echo", "lineage"}
    <3>1. LocalsFramed(p)
      BY <1>0, LocalsFrame
    <3>2. pc'[p] \in {"snapshot", "echo", "lineage"}
      BY <1>0, <1>2, DoesAt, Positions DEF Comparing
    <3> QED
      BY <1>2, <3>1, <3>2, FilesFrame DEF Comparing, LocalsFramed
  <2>2. Fits(disk, run[p].id, run[p].traj)
    BY <1>2 DEF TrailNow, TrailAt
  <2>3. Fits(disk', run'[p].id, run'[p].traj)
    BY <2>1, <2>2, FitsFewer, SameIsFewer
  <2>4. Numbered(disk') /\ Trails(disk')
    BY <2>1, SameTraces DEF TrailNow, Trails
  <2> QED
    BY <2>1, <2>3, <2>4 DEF TrailNow, TrailAt, Accepted, Publishing, Within
<1>3. CASE pc[p] = "lineage"
  <2>1. Reads(p) /\ pc'[p] = "quarantine"
    BY <1>0, <1>3, DoesAt, Positions
  <2>2. disk' = disk /\ run'[p].id = run[p].id /\ run'[p].traj = run[p].traj
    BY <1>0, <2>1 DEF Reads, RunRec
  <2>3. Fits(disk, run[p].id, run[p].traj)
    BY <1>3 DEF TrailNow, TrailAt
  <2>4. RowsAlong(run'[p].rows, run'[p].traj)
    BY <2>1, RowsFit DEF TrailNow
  <2> QED
    BY <2>1, <2>2, <2>3, <2>4 DEF TrailNow, TrailAt, Accepted, Publishing, Within
<1>4. CASE pc[p] = "quarantine"
  <2>0. Fits(disk, run[p].id, run[p].traj) /\ RowsAlong(run[p].rows, run[p].traj)
    BY <1>4 DEF TrailNow, TrailAt, Accepted
  <2>1. CASE SetsAside(p)
    <3>1. PICK n \in 1 .. MaxIter :
            /\ disk'[Stale(n)] = disk[Iter(n)] /\ disk'[Iter(n)] = None
            /\ \A m \in Names \ {Stale(n), Iter(n)} : disk'[m] = disk[m]
            /\ run'[p] = [run[p] EXCEPT !.pending = @ \cup {n}]
      BY <2>1 DEF SetsAside
    <3>2. /\ pc'[p] = "quarantine" /\ run'[p].id = run[p].id /\ run'[p].traj = run[p].traj
          /\ run'[p].rows = run[p].rows
      BY <1>0, <2>1, <3>1, Positions DEF RunRec
    <3>3. \A m \in 1 .. MaxIter : disk'[Iter(m)] \in {disk[Iter(m)], None}
      BY <3>1, NameFacts
    <3>4. disk'[Hist] = disk[Hist] /\ disk'[State] = disk[State] /\ disk'[Prev] = disk[Prev]
      BY <3>1, NameFacts
    <3>5. Fits(disk', run[p].id, run[p].traj)
      BY <2>0, <3>3, <3>4, FitsFewer
    <3>6. Trails(disk')
      BY <3>3, <3>4, TracesFewer DEF TrailNow
    <3>7. Numbered(disk')
      BY <3>3, <3>4 DEF TrailNow, Numbered
    <3> QED
      BY <2>0, <3>2, <3>5, <3>6, <3>7 DEF TrailNow, TrailAt, Accepted, Publishing, Within
  <2>2. CASE Moves(p, "quarantine", "truncate") /\ Outdated(p) = {}
    <3>1. disk' = disk /\ run'[p] = run[p] /\ pc'[p] = "truncate"
      BY <2>2, Positions DEF Moves
    <3>2. Len(run[p].traj) = run[p].i - 1 /\ run[p].i \in Int
      BY <1>0, <1>4, StageSets DEF CountedAt, RunRec
    <3>3. \A n \in 1 .. MaxIter : disk[Iter(n)] # None => n <= Len(run[p].traj)
      BY <2>2, <3>2, MaxIterFacts DEF Outdated
    <3> QED
      BY <2>0, <3>1, <3>3 DEF TrailNow, TrailAt, Accepted, Publishing, Within
  <2> QED
    BY <1>0, <1>4, <2>1, <2>2, DoesAt
<1> QED
  BY <1>0, <1>1, <1>2, <1>3, <1>4

(* The history is cut back: now everything in the directory led to these weights. *)
LEMMA TrailTruncated ==
    ASSUME TypeInv, TypeInv', NEW p \in Procs, Truncates(p), TrailNow(p), LineageAt(p)
    PROVE  TrailNow(p)'
<1> DEFINE id == run[p].id
           r == run[p].traj
           rows == run[p].rows
<1>0. /\ pc[p] = "truncate" /\ pc'[p] = "loop" /\ run'[p] = run[p]
      /\ disk'[Hist] = [run |-> id, rows |-> rows] /\ \A m \in Names \ {Hist} : disk'[m] = disk[m]
  BY Positions DEF Truncates, Writes
<1>1. /\ disk'[State] = disk[State] /\ disk'[Prev] = disk[Prev]
      /\ \A n \in 1 .. MaxIter : disk'[Iter(n)] = disk[Iter(n)]
  BY <1>0, NameFacts
<1>2. /\ Fits(disk, id, r) /\ RowsAlong(rows, r) /\ AllOf(disk, id)
      /\ \A n \in 1 .. MaxIter : disk[Iter(n)] # None => n <= Len(r)
  BY <1>0 DEF TrailNow, TrailAt, LineageAt, Accepted
<1>3. \A n \in 1 .. MaxIter : disk[Iter(n)] # None => disk[Iter(n)].run = id /\ Along(disk[Iter(n)].traj, r)
  <2> SUFFICES ASSUME NEW n \in 1 .. MaxIter, disk[Iter(n)] # None
               PROVE  disk[Iter(n)].run = id /\ Along(disk[Iter(n)].traj, r)
    OBVIOUS
  <2>1. TraceOf(disk[Iter(n)]) \in Traces(disk) /\ disk[Iter(n)].run = id
    BY <1>2, TracesHold DEF AllOf
  <2>2. Agree(disk[Iter(n)].traj, r)
    BY <1>2, <2>1 DEF Fits, TraceOf
  <2> QED
    BY <1>2, <2>1, <2>2 DEF TrailNow, Numbered, Along
<1>4. \A n \in {State, Prev} : Readable(disk[n]) => disk[n].run = id /\ Along(disk[n].traj, r)
  <2> SUFFICES ASSUME NEW n \in {State, Prev}, Readable(disk[n])
               PROVE  disk[n].run = id /\ Along(disk[n].traj, r)
    OBVIOUS
  <2>1. TraceOf(disk[n]) \in Traces(disk) /\ disk[n].run = id
    BY <1>2, TracesHold DEF AllOf
  <2>2. Agree(disk[n].traj, r)
    BY <1>2, <2>1 DEF Fits, TraceOf
  <2> QED
    BY <1>2, <2>1, <2>2 DEF Fits, Along
<1>5. disk'[Hist].run = id /\ disk'[Hist].rows = rows
  BY <1>0
<1>6. \A k \in DOMAIN rows : Along(rows[k].traj, r) /\ Len(rows[k].traj) = rows[k].iteration
  BY <1>2 DEF RowsAlong, Along
<1> HIDE DEF id, r, rows
<1>7. FilesAlong(disk', id, r)
  <2>1. \A n \in 1 .. MaxIter : disk'[Iter(n)] # None => disk'[Iter(n)].run = id /\ Along(disk'[Iter(n)].traj, r)
    BY <1>1, <1>3
  <2>2. \A n \in {State, Prev} : Readable(disk'[n]) => disk'[n].run = id /\ Along(disk'[n].traj, r)
    BY <1>1, <1>4
  <2>3. \A k \in DOMAIN disk'[Hist].rows : disk'[Hist].run = id /\ Along(disk'[Hist].rows[k].traj, r)
    BY <1>5, <1>6
  <2> QED
    BY <2>1, <2>2, <2>3 DEF FilesAlong
<1>8. AllAlong(disk', id, r)
  BY <1>7, AlongIsAll
<1>9. r \in Weights
  BY DEF TypeInv, RunRec, r
<1>10. Trails(disk')
  BY <1>8, <1>9, TrailsAlong
<1>11. Numbered(disk')
  BY <1>1, <1>5, <1>6 DEF TrailNow, Numbered
<1> QED
  BY <1>0, <1>2, <1>8, <1>10, <1>11 DEF TrailNow, TrailAt, Comparing, Accepted, Publishing, Within, id, r, rows

(* Before a fresh run has an artifact of its own. *)
LEMMA TrailFresh ==
    ASSUME TypeInv, TypeInv', NEW p \in Procs, Does(p), TrailNow(p), LineageAt(p), AgedAt(p),
           pc[p] \in Empty, pc'[p] # "idle"
    PROVE  TrailNow(p)'
<1>0. run[p] \in RunRec
  BY DEF TypeInv
<1>1. ASSUME disk' = disk, pc'[p] \in Empty PROVE TrailNow(p)'
  BY <1>1 DEF TrailNow, TrailAt, Empty, Comparing, Accepted, Publishing, Within
<1>2. CASE pc[p] = "scan" \/ pc[p] = "build" \/ (pc[p] = "move" /\ ~MovesAway(p))
  <2>1. Moves(p, "scan", "build") \/ Builds(p) \/ Moves(p, "move", "copylib")
    BY <1>2, DoesAt
  <2>2. disk' = disk /\ pc'[p] \in Empty
    BY <2>1, Positions DEF Moves, Builds, Empty
  <2> QED
    BY <1>1, <2>2
<1>3. CASE MovesAway(p)
  <2>1. \A n \in Names : disk'[n] \in {disk[n], None}
    BY <1>3 DEF MovesAway, Writes
  <2>2. /\ \A n \in 1 .. MaxIter : disk'[Iter(n)] \in {disk[Iter(n)], None}
        /\ disk'[State] \in {disk[State], None} /\ disk'[Prev] \in {disk[Prev], None}
        /\ disk'[Hist] \in {disk[Hist], None}
    BY <2>1, NameFacts
  <2>3. Trails(disk')
    BY <2>2, TracesFewer DEF TrailNow
  <2>4. Numbered(disk')
    BY <2>2 DEF TrailNow, Numbered, Readable
  <2>5. pc'[p] = "move"
    BY <1>3, Positions
  <2> QED
    BY <2>3, <2>4, <2>5 DEF TrailNow, TrailAt, Comparing, Accepted, Publishing, Within
<1>4. CASE pc[p] = "copylib"
  <2>1. StartsRun(p) /\ pc'[p] = "loop"
    BY <1>4, DoesAt, Positions
  <2>2. SameHist /\ SameGens /\ SameIters
    BY <1>4, FilesFrame
  <2>3. Traces(disk) = {}
    BY <1>4, NothingShown DEF LineageAt
  <2>4. Traces(disk') = {} /\ Numbered(disk')
    BY <2>2, <2>3, SameTraces DEF TrailNow
  <2>5. run'[p].rows = <<>>
    BY <1>0, <1>4, <2>1 DEF StartsRun, RunRec, AgedAt, Empty
  <2> QED
    BY <2>1, <2>4, <2>5 DEF TrailNow, Trails, TrailAt, AllAlong, RowsAlong, Comparing, Accepted, Within
<1> QED
  BY <1>2, <1>3, <1>4 DEF Empty

(* While a run publishes, one file at a time. *)
LEMMA AgreeSelf == ASSUME NEW r \in Weights PROVE Along(r, r)
<1>1. Len(r) \in Nat
  BY WeightFacts
<1> QED
  BY <1>1 DEF Along, Agree

LEMMA PublishedTrail ==
    ASSUME TypeInv', NEW p \in Procs, pc'[p] \in Publishing, Numbered(disk'),
           FilesAlong(disk', run'[p].id, run'[p].traj), RowsAlong(run'[p].rows, run'[p].traj)
    PROVE  TrailNow(p)'
<1>1. AllAlong(disk', run'[p].id, run'[p].traj)
  BY AlongIsAll
<1>2. run'[p].traj \in Weights
  BY DEF TypeInv, RunRec
<1>3. Trails(disk')
  BY <1>1, <1>2, TrailsAlong
<1>4. pc'[p] \notin {"load"} \cup Comparing \cup {"lineage"} \cup Accepted
  BY DEF Publishing, Within, Comparing, Accepted
<1>5. pc'[p] # "truncate"
  BY DEF Publishing, Within
<1> QED
  BY <1>1, <1>3, <1>4, <1>5 DEF TrailNow, TrailAt

LEMMA TrailCollected ==
    ASSUME TypeInv, TypeInv', NEW p \in Procs, Does(p), Collects(p), TrailNow(p)
    PROVE  TrailNow(p)'
<1>0. pc[p] = "collect" /\ pc'[p] = "verify" /\ pc'[p] # "idle"
  BY Positions
<1>1. PICK u : run'[p].traj = Append(run[p].traj, u) /\ run[p].traj \in Seq(Update)
  BY CollectFacts
<1>2. disk' = disk /\ run'[p].id = run[p].id /\ run'[p].rows = run[p].rows
  <2>1. LocalsFramed(p)
    BY <1>0, LocalsFrame
  <2> QED
    BY <1>0, <2>1 DEF Collects, LocalsFramed
<1>3. AllAlong(disk, run[p].id, run[p].traj) /\ RowsAlong(run[p].rows, run[p].traj)
  BY <1>0 DEF TrailNow, TrailAt, Publishing, Within
<1>4. AllAlong(disk', run'[p].id, run'[p].traj)
  <2> SUFFICES ASSUME NEW a \in Traces(disk)
               PROVE  a.run = run[p].id /\ Agree(a.traj, run'[p].traj) /\ Len(a.traj) <= Len(run'[p].traj)
    BY <1>2 DEF AllAlong
  <2>1. a.traj \in Weights
    BY TraceTypes
  <2> QED
    BY <1>1, <1>3, <2>1, AppendAlong DEF AllAlong
<1>5. RowsAlong(run'[p].rows, run'[p].traj)
  <2> DEFINE rows == run[p].rows
  <2> SUFFICES ASSUME NEW k \in DOMAIN rows
               PROVE  /\ Agree(rows[k].traj, run'[p].traj) /\ Len(rows[k].traj) = rows[k].iteration
                      /\ rows[k].iteration <= Len(run'[p].traj)
    BY <1>2 DEF RowsAlong
  <2>1. rows \in Rows
    BY DEF TypeInv, RunRec
  <2>2. rows[k].traj \in Weights
    BY <2>1, RowAt
  <2>3. /\ Agree(rows[k].traj, run[p].traj) /\ Len(rows[k].traj) = rows[k].iteration
        /\ rows[k].iteration <= Len(run[p].traj)
    BY <1>3 DEF RowsAlong
  <2>4. Len(rows[k].traj) <= Len(run[p].traj)
    BY <2>3
  <2>5. /\ Agree(rows[k].traj, Append(run[p].traj, u))
        /\ Len(rows[k].traj) <= Len(Append(run[p].traj, u))
    BY <1>1, <2>2, <2>3, <2>4, AppendAlong
  <2> QED
    BY <1>1, <2>3, <2>5
<1>6. Numbered(disk')
  BY <1>2 DEF TrailNow
<1> QED
  BY <1>0, <1>4, <1>5, <1>6, AlongIsAll, PublishedTrail DEF Publishing, Within

LEMMA TrailSaved ==
    ASSUME TypeInv, TypeInv', NEW p \in Procs, Saves(p), TrailNow(p), CountedAt(p), LineageAt(p)
    PROVE  TrailNow(p)'
<1> DEFINE id == run[p].id
           r == run[p].traj
           i == run[p].i
<1>0. /\ pc[p] = "save" /\ pc'[p] = "unstale" /\ run'[p] = run[p] /\ i \in 1 .. MaxIter
      /\ disk'[Iter(i)].run = id /\ disk'[Iter(i)].traj = r
      /\ \A m \in Names \ {Iter(i)} : disk'[m] = disk[m]
  <2>1. pc[p] = "save" /\ pc'[p] = "unstale"
    BY Positions
  <2>2. i \in 1 .. MaxIter
    BY <2>1, WithinFacts DEF Within
  <2> QED
    BY <2>1, <2>2 DEF Saves, Writes
<1>1. /\ disk'[State] = disk[State] /\ disk'[Prev] = disk[Prev] /\ disk'[Hist] = disk[Hist]
      /\ \A n \in 1 .. MaxIter : n # i => disk'[Iter(n)] = disk[Iter(n)]
  BY <1>0, NameFacts
<1>2. AllAlong(disk, id, r) /\ RowsAlong(run[p].rows, r)
  BY <1>0 DEF TrailNow, TrailAt, Publishing, Within
<1>3. r \in Weights /\ Len(r) = i
  BY <1>0, StageSets DEF TypeInv, RunRec, CountedAt
<1> HIDE DEF id, r, i
<1>4. FilesAlong(disk, id, r)
  BY <1>2, AlongIsAll
<1>5. Along(r, r)
  BY <1>3, AgreeSelf
<1>6. FilesAlong(disk', id, r)
  <2>1. \A n \in 1 .. MaxIter : disk'[Iter(n)] # None => disk'[Iter(n)].run = id /\ Along(disk'[Iter(n)].traj, r)
    BY <1>0, <1>1, <1>4, <1>5 DEF FilesAlong
  <2>2. \A n \in {State, Prev} : Readable(disk'[n]) => disk'[n].run = id /\ Along(disk'[n].traj, r)
    BY <1>1, <1>4 DEF FilesAlong
  <2> QED
    BY <1>1, <1>4, <2>1, <2>2 DEF FilesAlong
<1>7. Numbered(disk')
  BY <1>0, <1>1, <1>3 DEF TrailNow, Numbered
<1> QED
  BY <1>0, <1>2, <1>6, <1>7, PublishedTrail DEF Publishing, Within, id, r

LEMMA TrailRecorded ==
    ASSUME TypeInv, TypeInv', NEW p \in Procs, Records(p), TrailNow(p), CountedAt(p)
    PROVE  TrailNow(p)'
<1> DEFINE id == run[p].id
           r == run[p].traj
           i == run[p].i
           row == [iteration |-> i, traj |-> r]
           rows == Append(run[p].rows, row)
<1>0. /\ pc[p] = "history" /\ pc'[p] \in {"keep", "gate"} /\ run'[p] = [run[p] EXCEPT !.rows = rows]
      /\ disk'[Hist] = [run |-> id, rows |-> rows] /\ \A m \in Names \ {Hist} : disk'[m] = disk[m]
  BY Positions DEF Records, Writes
<1>1. /\ disk'[State] = disk[State] /\ disk'[Prev] = disk[Prev]
      /\ \A n \in 1 .. MaxIter : disk'[Iter(n)] = disk[Iter(n)]
  BY <1>0, NameFacts
<1>2. AllAlong(disk, id, r) /\ RowsAlong(run[p].rows, r)
  BY <1>0 DEF TrailNow, TrailAt, Publishing, Within
<1>3. r \in Weights /\ Len(r) = i /\ run[p] \in RunRec /\ run[p].rows \in Rows
  BY <1>0, StageSets DEF TypeInv, RunRec, CountedAt
<1>4. run'[p].id = id /\ run'[p].traj = r /\ run'[p].rows = rows
  <2> HIDE DEF rows
  <2> QED
    BY <1>0, <1>3 DEF RunRec
<1>5. Along(r, r) /\ Len(r) \in Nat
  BY <1>3, AgreeSelf, WeightFacts
<1>6. RowsAlong(rows, r)
  <2> SUFFICES ASSUME NEW k \in DOMAIN rows
               PROVE  /\ Agree(rows[k].traj, r) /\ Len(rows[k].traj) = rows[k].iteration
                      /\ rows[k].iteration <= Len(r)
    BY DEF RowsAlong
  <2>1. /\ Len(run[p].rows) \in Nat /\ DOMAIN run[p].rows = 1 .. Len(run[p].rows)
        /\ run[p].rows \in Seq(Row)
    BY <1>3, RowFacts DEF Rows
  <2>2. k \in 1 .. Len(run[p].rows) + 1
    BY <2>1
  <2>3. CASE k = Len(run[p].rows) + 1
    <3>1. rows[k] = row
      BY <2>1, <2>3
    <3>2. rows[k].traj = r /\ rows[k].iteration = i
      BY <3>1
    <3> QED
      BY <1>3, <1>5, <3>2 DEF Along
  <2>4. CASE k \in DOMAIN run[p].rows
    <3>1. rows[k] = run[p].rows[k]
      BY <2>1, <2>4
    <3> QED
      BY <1>2, <2>4, <3>1 DEF RowsAlong
  <2> QED
    BY <2>1, <2>2, <2>3, <2>4
<1>7. disk'[Hist].run = id /\ disk'[Hist].rows = rows
  BY <1>0
<1> HIDE DEF id, r, i, rows
<1>8. FilesAlong(disk, id, r)
  BY <1>2, AlongIsAll
<1>9. FilesAlong(disk', id, r)
  <2>1. \A n \in 1 .. MaxIter : disk'[Iter(n)] # None => disk'[Iter(n)].run = id /\ Along(disk'[Iter(n)].traj, r)
    BY <1>1, <1>8 DEF FilesAlong
  <2>2. \A n \in {State, Prev} : Readable(disk'[n]) => disk'[n].run = id /\ Along(disk'[n].traj, r)
    BY <1>1, <1>8 DEF FilesAlong
  <2>3. \A k \in DOMAIN rows : Along(rows[k].traj, r)
    BY <1>6 DEF RowsAlong, Along
  <2> QED
    BY <1>7, <2>1, <2>2, <2>3 DEF FilesAlong
<1>10. Numbered(disk')
  <2>1. \A k \in DOMAIN rows : Len(rows[k].traj) = rows[k].iteration
    BY <1>6 DEF RowsAlong
  <2> QED
    BY <1>1, <1>7, <2>1 DEF TrailNow, Numbered
<1> QED
  BY <1>0, <1>4, <1>6, <1>9, <1>10, PublishedTrail DEF Publishing, Within

LEMMA TrailRotated ==
    ASSUME TypeInv, TypeInv', NEW p \in Procs, Keeps(p) \/ Swaps(p), TrailNow(p)
    PROVE  TrailNow(p)'
<1> DEFINE id == run[p].id
           r == run[p].traj
<1>0. pc[p] \in {"keep", "swap"} /\ pc'[p] \in {"swap", "gate"} /\ run[p] \in RunRec
  BY Positions DEF TypeInv
<1>1. run'[p].id = id /\ run'[p].traj = r /\ run'[p].rows = run[p].rows
  BY <1>0 DEF Keeps, Swaps, RunRec
<1>2. AllAlong(disk, id, r) /\ RowsAlong(run[p].rows, r) /\ r \in Weights
  BY <1>0 DEF TrailNow, TrailAt, Publishing, Within, RunRec
<1>3. /\ disk'[Hist] = disk[Hist] /\ \A n \in 1 .. MaxIter : disk'[Iter(n)] = disk[Iter(n)]
      /\ \/ disk'[State] = disk[State] /\ disk'[Prev] = disk[Prev]
         \/ Readable(disk[State]) /\ disk'[Prev] = disk[State] /\ disk'[State] = None
         \/ disk'[State].run = id /\ disk'[State].traj = r /\ disk'[Prev] = disk[Prev]
  <2>1. CASE Keeps(p)
    BY <2>1 DEF Keeps, SameHist, SameIters, SameGens
  <2>2. CASE Swaps(p)
    <3>1. disk'[State].run = id /\ disk'[State].traj = r /\ \A m \in Names \ {State} : disk'[m] = disk[m]
      BY <2>2 DEF Swaps, Writes
    <3> QED
      BY <3>1, NameFacts
  <2> QED
    BY <2>1, <2>2
<1> HIDE DEF id, r
<1>4. FilesAlong(disk, id, r)
  BY <1>2, AlongIsAll
<1>5. Along(r, r)
  BY <1>2, AgreeSelf
<1>6. FilesAlong(disk', id, r)
  <2>1. \A n \in 1 .. MaxIter : disk'[Iter(n)] # None => disk'[Iter(n)].run = id /\ Along(disk'[Iter(n)].traj, r)
    BY <1>3, <1>4 DEF FilesAlong
  <2>2. \A n \in {State, Prev} : Readable(disk'[n]) => disk'[n].run = id /\ Along(disk'[n].traj, r)
    BY <1>3, <1>4, <1>5, NameFacts DEF FilesAlong, Readable
  <2> QED
    BY <1>3, <1>4, <2>1, <2>2 DEF FilesAlong
<1>7. Numbered(disk')
  <2>1. /\ Readable(disk'[State]) /\ Readable(disk'[Prev]) /\ disk'[Prev].run = disk'[State].run =>
              Len(disk'[Prev].traj) <= Len(disk'[State].traj)
    BY <1>3, <1>4 DEF FilesAlong, Along, TrailNow, Numbered, Readable
  <2> QED
    BY <1>3, <2>1 DEF TrailNow, Numbered
<1> QED
  BY <1>0, <1>1, <1>2, <1>6, <1>7, PublishedTrail DEF Publishing, Within

(* Steps that leave the files and the weights alone. *)
LEMMA TrailSame ==
    ASSUME TypeInv, TypeInv', NEW p \in Procs, Does(p), TrailNow(p), pc'[p] # "idle",
           pc[p] \in {"loop", "verify", "unstale", "gate"}
    PROVE  TrailNow(p)'
<1>1. SameHist /\ SameGens /\ SameIters /\ LocalsFramed(p)
  BY FilesFrame, LocalsFrame
<1>2. run'[p].id = run[p].id /\ run'[p].traj = run[p].traj /\ run'[p].rows = run[p].rows
  BY <1>1 DEF LocalsFramed
<1>3. pc'[p] \in Publishing
  BY DoesAt, Positions DEF Publishing, Within
<1>4. AllAlong(disk, run[p].id, run[p].traj) /\ RowsAlong(run[p].rows, run[p].traj)
  BY DEF TrailNow, TrailAt, Publishing, Within
<1>5. Traces(disk') = Traces(disk) /\ Numbered(disk')
  BY <1>1, SameTraces DEF TrailNow
<1>6. AllAlong(disk', run'[p].id, run'[p].traj)
  BY <1>2, <1>4, <1>5 DEF AllAlong
<1> QED
  BY <1>2, <1>3, <1>4, <1>5, <1>6, AlongIsAll, PublishedTrail

LEMMA TrailLaunched ==
    ASSUME TypeInv, NEW p \in Procs, Does(p), TrailNow(p), pc[p] = "idle", pc'[p] # "idle",
           pc'[p] = "load" /\ run'[p].from = None => copy # None /\ Fits(disk, copy.run, copy.traj)
    PROVE  TrailNow(p)'
<1>1. StartsFresh(p) \/ StartsAgain(p) \/ StartsCopy(p)
  BY DoesAt
<1>2. disk' = disk /\ copy' = copy /\ pc'[p] \in {"scan", "load"}
  BY <1>1 DEF StartsFresh, StartsAgain, StartsCopy, Starts
<1> QED
  BY <1>2 DEF TrailNow, TrailAt, Comparing, Accepted, Publishing, Within

LEMMA TrailKept ==
    ASSUME TypeInv, TypeInv', NEW p \in Procs, Does(p), TrailNow(p), LineageAt(p), AgedAt(p), CountedAt(p),
           pc[p] # "idle", pc'[p] # "idle"
    PROVE  TrailNow(p)'
<1>1. pc[p] \in Stages
  BY DEF TypeInv
<1>2. CASE pc'[p] \in Comparing \cup {"lineage"} \cup Accepted
  BY <1>2, TrailResumes
<1>3. CASE pc[p] \in {"load"} \cup Comparing \cup {"lineage", "quarantine"}
  BY <1>2, <1>3, DoesAt, Positions DEF Comparing, Accepted
<1>4. CASE pc[p] = "truncate"
  BY <1>4, DoesAt, TrailTruncated
<1>5. CASE pc[p] \in Empty
  BY <1>5, TrailFresh
<1>6. CASE pc[p] \in {"loop", "verify", "unstale", "gate"}
  BY <1>6, TrailSame
<1>7. CASE pc[p] = "collect" \/ pc[p] = "save" \/ pc[p] = "history" \/ pc[p] = "keep" \/ pc[p] = "swap"
  BY <1>7, DoesAt, TrailCollected, TrailSaved, TrailRecorded, TrailRotated
<1> QED
  BY <1>1, <1>3, <1>4, <1>5, <1>6, <1>7 DEF Stages, Bound, Comparing, Accepted, Publishing, Within

LEMMA TrailEnds ==
    ASSUME TypeInv, NEW p \in Procs, Does(p), TrailNow(p), pc[p] # "idle", pc'[p] = "idle"
    PROVE  TrailNow(p)'
<1>1. (Quits(p) /\ disk' = disk) \/ Finishes(p)
  BY Positions DEF Does
<1>2. SameHist /\ SameGens /\ SameIters
  BY <1>1 DEF Finishes, SameHist, SameGens, SameIters
<1>3. Traces(disk') = Traces(disk) /\ Numbered(disk')
  BY <1>2, SameTraces DEF TrailNow
<1> QED
  BY <1>3, TrailIdle DEF TrailNow, Trails

LEMMA TrailSuffered ==
    ASSUME TypeInv, Suffers, Trail
    PROVE  Trail'
<1>1. /\ pc' = pc /\ run' = run
      /\ \A n \in 1 .. MaxIter : disk'[Iter(n)] = disk[Iter(n)]
      /\ disk'[State] \in {disk[State], Corrupt} /\ disk'[Prev] = disk[Prev] /\ disk'[Hist] = disk[Hist]
      /\ copy # None => copy' = copy
  BY DEF Suffers, SameHist, SameIters, SameGens
<1>2. /\ \A n \in 1 .. MaxIter : disk'[Iter(n)] \in {disk[Iter(n)], None}
      /\ \A n \in {State, Prev} : disk'[n] \in {disk[State], disk[Prev], None, Corrupt}
      /\ disk'[Hist] \in {disk[Hist], None}
  BY <1>1
<1>3. Traces(disk') \subseteq Traces(disk) /\ Trails(disk')
  BY <1>2, TracesFewer DEF Trail
<1>4. Numbered(disk')
  BY <1>1 DEF Trail, Numbered, Readable
<1>5. ASSUME NEW p \in Procs PROVE TrailAt(p)'
  <2>1. TrailAt(p)
    BY DEF Trail
  <2>2. pc[p] = "load" /\ run[p].from = None => copy' # None /\ Fits(disk', copy'.run, copy'.traj)
    BY <1>1, <1>2, <2>1, FitsFewer DEF TrailAt
  <2>3. pc[p] \in Comparing \cup {"lineage"} \cup Accepted => Fits(disk', run[p].id, run[p].traj)
    BY <1>2, <2>1, FitsFewer DEF TrailAt
  <2>4. pc[p] \in Publishing => AllAlong(disk', run[p].id, run[p].traj)
    BY <1>3, <2>1 DEF TrailAt, AllAlong
  <2>5. pc[p] = "truncate" => \A n \in 1 .. MaxIter : disk'[Iter(n)] # None => n <= Len(run[p].traj)
    BY <1>1, <2>1 DEF TrailAt
  <2> QED
    BY <1>1, <2>1, <2>2, <2>3, <2>4, <2>5 DEF TrailAt
<1> QED
  BY <1>3, <1>4, <1>5 DEF Trail

(* Only the resume of a copy loads without a name. *)
LEMMA LoadsNameless ==
    ASSUME TypeInv, NEW p \in Procs, Process(p), pc[p] = "idle", pc'[p] = "load", run'[p].from = None
    PROVE  LaunchResumeCopy(p) /\ copy # None
<1>1. LaunchFresh(p) => pc'[p] # "load"
  BY LaunchFreshDoes DEF StartsFresh, Starts
<1>2. LaunchResume(p) => run'[p].from # None
  BY LaunchesDo, NameFacts DEF StartsAgain
<1>3. ~Crash(p)
  BY DEF Crash
<1>4. ~Step(p)
  <2>1. ~(LoadState(p) \/ CheckBridge(p) \/ BindSnapshot(p) \/ CheckTarget(p) \/ LoadHistory(p)
          \/ Quarantine(p) \/ TruncateHistory(p))
    BY DEF LoadState, CheckBridge, BindSnapshot, CheckTarget, LoadHistory, Quarantine, TruncateHistory
  <2>2. ~(Scan(p) \/ Build(p) \/ MoveAway(p) \/ StartFresh(p) \/ BeginIteration(p) \/ CollectAndUpdate(p)
          \/ VerifyAgain(p))
    BY DEF Scan, Build, MoveAway, StartFresh, BeginIteration, CollectAndUpdate, VerifyAgain
  <2>3. ~(SaveIter(p) \/ DropStale(p) \/ SaveHistory(p) \/ KeepPrevious(p) \/ SwapState(p)
          \/ EndIteration(p) \/ Finish(p))
    BY DEF SaveIter, DropStale, SaveHistory, KeepPrevious, SwapState, EndIteration, Finish
  <2> QED
    BY <2>1, <2>2, <2>3 DEF Step
<1>5. LaunchResumeCopy(p)
  BY <1>1, <1>2, <1>3, <1>4 DEF Process
<1> QED
  BY <1>5 DEF LaunchResumeCopy

LEMMA TrailNext ==
    ASSUME TypeInv, TypeInv', Lineage, Aged, Made, Trail, [Next]_vars, [\A p \in Procs : CopyFits(p)]_vars
    PROVE  Trail'
<1>1. CASE UNCHANGED vars
  <2>1. disk' = disk /\ copy' = copy /\ pc' = pc /\ run' = run
    BY <1>1 DEF vars
  <2> QED
    BY <2>1 DEF Trail, TrailAt
<1>2. ASSUME NEW p \in Procs, Process(p), CopyFits(p) PROVE Trail'
  <2>0. Does(p) /\ TrailNow(p) /\ LineageAt(p) /\ AgedAt(p) /\ CountedAt(p)
    BY <1>2, ProcessDoes DEF Process, Trail, TrailNow, Lineage, Aged, Made, MadeAt
  <2>1. \A q \in Procs \ {p} : TrailAt(q)'
    BY <2>0, DoneTypes, TrailIdle
  <2>2. TrailNow(p)'
    <3>1. CASE pc[p] = "idle" /\ pc'[p] # "idle"
      <4>1. pc'[p] = "load" /\ run'[p].from = None => copy # None /\ Fits(disk, copy.run, copy.traj)
        BY <1>2, <3>1, LoadsNameless DEF CopyFits
      <4> QED
        BY <2>0, <3>1, <4>1, TrailLaunched
    <3>2. CASE pc[p] = "idle" /\ pc'[p] = "idle"
      BY <2>0, <3>2, Positions DEF Does
    <3>3. CASE pc[p] # "idle" /\ pc'[p] = "idle"
      BY <2>0, <3>3, TrailEnds
    <3>4. CASE pc[p] # "idle" /\ pc'[p] # "idle"
      BY <2>0, <3>4, TrailKept
    <3> QED
      BY <3>1, <3>2, <3>3, <3>4
  <2> QED
    BY <2>1, <2>2 DEF Trail, TrailNow
<1>3. CASE Rebuild \/ CorruptState \/ DamageSnapshot \/ CopyState
  BY <1>3, SurroundingsDo, TrailSuffered
<1> QED
  BY <1>1, <1>2, <1>3 DEF Next, Process

LEMMA TrailInit == ASSUME Init PROVE Trail
<1>1. pc = [p \in Procs |-> "idle"]
  BY DEF Init
<1>2. \A p \in Procs : TrailAt(p)
  BY <1>1, StageSets, RowedSets DEF TrailAt, Accepted
<1>3. CASE disk = NoFiles
  <2>1. /\ disk[Hist] = None /\ disk[State] = None /\ disk[Prev] = None
        /\ \A n \in 1 .. MaxIter : disk[Iter(n)] = None
    BY <1>3, NameFacts DEF NoFiles
  <2> QED
    BY <1>2, <2>1 DEF Trail, Numbered, Trails, Traces, Readable
<1>4. ASSUME NEW v \in Invocations, NEW pin \in {None, lib}, lib \in Libs,
             disk = OlderRun(lib, v.recipe, pin, MaxIter)
      PROVE  Trail
  <2> DEFINE w == <<OlderUpdate(lib, v.recipe)>>
             row == [iteration |-> 1, traj |-> w]
  <2>1. OlderFiles(disk, lib, v.recipe, pin)
    BY <1>4, OlderTypes
  <2>2. disk[Prev] = None /\ \A n \in 1 .. MaxIter : n # 1 => disk[Iter(n)] = None
    <3>1. Prev \in Names \ {Iter(1), Hist, State, Snapshot(lib)}
      BY <1>4, MaxIterFacts, NameFacts
    <3>2. \A n \in 1 .. MaxIter : n # 1 => Iter(n) \in Names \ {Iter(1), Hist, State, Snapshot(lib)}
      BY <1>4, MaxIterFacts, NameFacts
    <3> QED
      BY <2>1, <3>1, <3>2 DEF OlderFiles
  <2>3. disk[Iter(1)].traj = w /\ disk[State].traj = w /\ disk[Hist].rows = <<row>>
    BY <2>1 DEF OlderFiles
  <2>4. Len(w) = 1 /\ DOMAIN <<row>> = {1} /\ <<row>>[1] = row /\ row.traj = w /\ row.iteration = 1
    OBVIOUS
  <2> HIDE DEF w, row
  <2>5. \A a \in Traces(disk) : a.traj = w
    BY <2>2, <2>3, <2>4 DEF Traces, TraceOf, Readable
  <2>6. Numbered(disk)
    BY <2>2, <2>3, <2>4 DEF Numbered, Readable
  <2> QED
    BY <1>2, <2>5, <2>6 DEF Trail, Trails, Agree
<1> QED
  BY <1>3, <1>4 DEF Init

(* What agrees with a longer one is a beginning of it. *)
LEMMA AgreeIsPath ==
    ASSUME NEW s \in Weights, NEW t \in Weights, Agree(s, t)
    PROVE  OnePath(s, t)
<1>1. ASSUME NEW a \in Weights, NEW b \in Weights, Agree(a, b), Len(a) <= Len(b)
      PROVE  Prefix(a, b)
  <2>1. /\ DOMAIN a = 1 .. Len(a) /\ DOMAIN b = 1 .. Len(b) /\ Len(a) \in Nat /\ Len(b) \in Nat
        /\ \A j \in 1 .. Len(b) : b[j] \in Update
    BY <1>1, WeightFacts DEF Weights
  <2>2. \A j \in 1 .. Len(a) : a[j] = b[j] /\ b[j] \in Update
    BY <1>1, <2>1 DEF Agree
  <2> DEFINE c == SubSeq(b, 1, Len(a))
  <2>3. /\ c \in Seq(Update) /\ Len(c) = IF 1 <= Len(a) THEN Len(a) - 1 + 1 ELSE 0
        /\ \A j \in 1 .. Len(a) - 1 + 1 : c[j] = b[1 + j - 1]
    BY <2>1, <2>2, SubSeqProperties
  <2> HIDE DEF c
  <2>4. Len(c) = Len(a) /\ \A j \in 1 .. Len(a) : c[j] = a[j]
    BY <2>1, <2>2, <2>3
  <2>5. c = a
    BY <2>3, <2>4, SeqEqual DEF Weights
  <2> QED
    BY <1>1, <2>5 DEF Prefix, c
<1>2. Len(s) \in Nat /\ Len(t) \in Nat
  BY WeightFacts
<1>3. Agree(t, s)
  BY DEF Agree
<1> QED
  BY <1>1, <1>2, <1>3 DEF OnePath

(* OneTrajectory: as long as a state kept elsewhere is resumed only where it fits what  *)
(* the directory holds of its run, all that a reader finds of one run, as iter_N.pt, in  *)
(* history.json or in train_state.pt, belongs to one sequence of updates: no checkpoint  *)
(* of an abandoned replay stands beside those of the replay that went on.                *)
THEOREM NoAbandonedReplay ==
    ASSUME NoForce
    PROVE  Spec /\ [][\A p \in Procs : CopyFits(p)]_vars => []OneTrajectory
<1>1. Init => TypeInv /\ Lineage /\ Aged /\ Made /\ Trail
  BY TypeInit, LineageInit, AgedInit, MadeInit, TrailInit
<1>2. TypeInv /\ Lineage /\ Aged /\ Made /\ Trail /\ [Next]_vars /\ [\A p \in Procs : CopyFits(p)]_vars =>
         (TypeInv /\ Lineage /\ Aged /\ Made /\ Trail)'
  BY TypeNext, LineageNext, AgedNext, MadeNext, TrailNext
<1>3. TypeInv /\ Trail => OneTrajectory
  <2> SUFFICES ASSUME TypeInv, Trail PROVE OneTrajectory
    OBVIOUS
  <2>1. ASSUME NEW a \in Traces(disk), NEW b \in Traces(disk), a.run = b.run PROVE OnePath(a.traj, b.traj)
    BY <2>1, TraceTypes, AgreeIsPath DEF Trail, Trails
  <2>2. \A c \in Checkpoints \cup Generations : TraceOf(c) \in Traces(disk)
    BY TracesHold DEF Checkpoints, LiveIters, Generations, Readable
  <2>3. \A c, d \in Checkpoints \cup Generations : c.run = d.run => OnePath(c.traj, d.traj)
    BY <2>1, <2>2 DEF TraceOf
  <2>4. ASSUME disk[Hist] # None, NEW k \in DOMAIN disk[Hist].rows, NEW c \in Checkpoints,
               c.run = disk[Hist].run
        PROVE  OnePath(disk[Hist].rows[k].traj, c.traj)
    <3>1. [run |-> disk[Hist].run, traj |-> disk[Hist].rows[k].traj] \in Traces(disk)
      BY <2>4, TracesHold
    <3> QED
      BY <2>1, <2>2, <2>4, <3>1 DEF TraceOf
  <2> QED
    BY <2>3, <2>4 DEF OneTrajectory
<1> QED
  BY <1>1, <1>2, <1>3, PTL DEF Spec
=============================================================================
