----------------------------- MODULE TrainRun -----------------------------
(***************************************************************************)
(* The life of one checkpoint directory under `train_b2b`: launches that   *)
(* start a fresh run or resume one, the artifacts each iteration publishes *)
(* (`iter_N.pt`, `history.json`, `train_state.pt` and its previous         *)
(* generation), the snapshot of the simulator library a run is pinned to,  *)
(* and the crashes that may fall between any two of those writes.          *)
(*                                                                         *)
(* A file is a value of `disk`; every write of the code is a rename of a   *)
(* finished temporary file, so a file changes in one step.  The weights of *)
(* a network after iteration N are the sequence of the N updates that led  *)
(* to them: an update is named by the launch that computed it and by the   *)
(* simulator it was collected with, the recipe and learning rate it was    *)
(* made with, and whether it moved the event path at all.  A replay of an  *)
(* iteration is another update, since the arithmetic of a replay is not    *)
(* bit-identical.                                                          *)
(***************************************************************************)
EXTENDS Integers, Sequences, FiniteSets, TLC

CONSTANTS Procs,        \* operating system processes that may be launched
          Libs,         \* contents the simulator library may have
          Targets,      \* values of --iterations
          StateEvery,   \* train_state_every, 0 switches train_state.pt off
          Options,      \* sets of flags a launch may be given
          Invocations,  \* constructions and recipes a launch may ask for
          Older,        \* may the directory hold a run of an older version?
          MaxLaunches,  \* bound: launches that obtain the lock
          MaxFaults,    \* bound: rebuilds, corruptions and copies
          Rewind,       \* may a copy be resumed where newer state exists?
          None          \* no file, no process

MaxIter == CHOOSE t \in Targets : \A u \in Targets : u <= t
Launches == 1 .. MaxLaunches

ASSUME TrainAssumption ==
    /\ Targets \subseteq Nat \ {0} /\ \E t \in Targets : \A u \in Targets : u <= t
    /\ StateEvery \in Nat
    /\ MaxLaunches \in Nat \ {0} /\ MaxFaults \in Nat /\ Rewind \in BOOLEAN
    /\ Options \subseteq SUBSET {"fresh_run_overwrite", "force_history_reset",
                                 "allow_bridge_mismatch", "accept_legacy_unpinned_state"}
    /\ \A v \in Invocations : v.recipe.head_lr \in BOOLEAN /\ v.recipe.head_lr_iters \in Nat
    /\ \A v, w \in Invocations : /\ DOMAIN v.recipe = DOMAIN w.recipe
                                 /\ v.recipe = [f \in DOMAIN v.recipe |-> v.recipe[f]]
                                 /\ {"base_seed", "head_lr", "head_lr_iters"} \subseteq DOMAIN v.recipe
    /\ Older \in BOOLEAN
    /\ None \notin Libs /\ None \notin Procs

(* The names of the managed files, in the order they are listed in. *)
Hist == <<"history", 0>>
State == <<"train_state", 0>>
Prev == <<"train_state.prev", 0>>
Iter(n) == <<"iter", n>>
Stale(n) == <<"iter.stale", n>>
Snapshot(l) == <<"bridge", l>>
Names == {Hist, State, Prev} \cup {Iter(n) : n \in 1 .. MaxIter}
         \cup {Stale(n) : n \in 1 .. MaxIter} \cup {Snapshot(l) : l \in Libs}

ASSUME NoneIsNoName == None \notin Names

VARIABLES
    disk,       \* the checkpoint directory: name -> content or None
    backups,    \* launch -> what its --fresh-run-overwrite moved away and still keeps
    lib,        \* the simulator library at its source path
    copy,       \* a train_state.pt an operator set aside
    lock,       \* the process that holds .run.lock
    pc, run,    \* per process: where it is and its local variables
    launches,   \* launches so far: also the next run_id
    faults,     \* faults so far, updates that moved nothing among them
    lastSaved,  \* run_id -> next_iteration of its last completed state save
    damaged,    \* has a train_state.pt been corrupted on disk?
    waived      \* run_ids launched under --allow-bridge-mismatch

vars == <<disk, backups, lib, copy, lock, pc, run, launches, faults, lastSaved,
          damaged, waived>>
files == <<disk, backups, lib, copy>>
ghosts == <<launches, faults, lastSaved, damaged, waived>>

Corrupt == [corrupt |-> TRUE]
Readable(f) == f # None /\ f # Corrupt
NoFiles == [n \in Names |-> None]

(* The locals of `train_b2b`: run_id, the launch, its flags and target, the
   iteration, the weights, the history rows, pending_stale_checkpoints, the
   pinned digest, the file resumed from, overwrite_backup_dir, the caller's
   recipe, the saved one until it is compared, and init_meta. *)
NoRun == [id |-> 0, by |-> 0, opts |-> {}, target |-> 0, i |-> 0, traj |-> <<>>,
          rows |-> <<>>, pending |-> {}, pin |-> None, from |-> None, backup |-> 0,
          recipe |-> None, saved |-> None, init |-> {}]

TypeOK ==
    /\ DOMAIN disk = Names /\ lib \in Libs \cup {None}
    /\ lock \in Procs \cup {None}
    /\ pc \in [Procs -> {"idle", "load", "bridge", "snapshot", "echo", "lineage",
                         "quarantine", "truncate", "scan", "build", "move", "copylib",
                         "loop", "collect", "verify", "save", "unstale", "history",
                         "keep", "swap", "gate"}]
    /\ \A p \in Procs : DOMAIN run[p] = DOMAIN NoRun /\ run[p].i \in 0 .. MaxIter + 1
    /\ launches \in 0 .. MaxLaunches /\ faults \in 0 .. MaxFaults

-----------------------------------------------------------------------------
(* Recipes: what the two configurations of a launch say about its updates. *)

Surgeries == {"growth_blocks", "widen_event_hidden"}

(* Fault: a warm phase of no iterations is let through. *)
ConstructibleInert(flags, recipe) ==
    /\ "scratch" \in flags <=> "champion" \notin flags
    /\ flags \cap Surgeries # {} => "champion" \in flags /\ ~(Surgeries \subseteq flags)
    /\ recipe.head_lr => "init_from_bc" \in flags

(* What a fresh launch may ask for; anything else raises before the directory is
   touched.  The heads have a learning rate of their own only relative to weights
   that came from behaviour cloning, and only for at least one iteration. *)
Constructible(flags, recipe) ==
    /\ "scratch" \in flags <=> "champion" \notin flags
    /\ flags \cap Surgeries # {} => "champion" \in flags /\ ~(Surgeries \subseteq flags)
    /\ "init_from_bc" \in flags => "scratch" \in flags
    /\ recipe.head_lr => "init_from_bc" \in flags
    /\ recipe.head_lr <=> recipe.head_lr_iters > 0

(* init_meta of a fresh run; a resumed one inherits it. *)
InitMeta(flags) == flags \cap {"scratch", "champion", "init_from_bc"}

(* _train_b2b_config_echo; base_seed is saved beside it. *)
Echo(recipe) == [f \in DOMAIN recipe \ {"base_seed"} |-> recipe[f]]

(* _LEGACY_ECHO_ADDITIONS, with the values a state saved before them stands for. *)
LegacyAdditions == [collector |-> "process", head_lr |-> FALSE, head_lr_iters |-> 0]

(* Fault: what the file does not say is what the caller asks for. *)
FilledFromCurrent(current, saved) == saved @@ current

(* _fill_legacy_echo_defaults: only the known additions, from the past. *)
Filled(current, saved) ==
    [f \in DOMAIN saved \cup (DOMAIN LegacyAdditions \cap DOMAIN current) |->
        IF f \in DOMAIN saved THEN saved[f] ELSE LegacyAdditions[f]]

(* _RESUME_LOGGED_FIELDS: changed on resume with a notice. *)
Logged == {"num_workers"}

(* _validate_resume_config_echo; the target is compared separately. *)
SameRecipe(current, saved) ==
    LET before == Filled(current, saved) IN
    /\ DOMAIN before = DOMAIN current
    /\ \A f \in DOMAIN current \ Logged : before[f] = current[f]

-----------------------------------------------------------------------------
(* What the files hold: the weights behind a checkpoint are the updates that led to
   them, a row of the history names an iteration and its weights. *)
Recipes == {v.recipe : v \in Invocations}
InitFlags == {"scratch", "champion", "init_from_bc"}
OlderEcho(r) == [f \in DOMAIN Echo(r) \ DOMAIN LegacyAdditions |-> r[f]]
Echoes == {Echo(r) : r \in Recipes} \cup {OlderEcho(r) : r \in Recipes}

Update == [by : Launches, lib : Libs, recipe : Recipes, rate : {"lr", "head_lr"}, moved : BOOLEAN]
Weights == Seq(Update)
Row == [iteration : 1 .. MaxIter, traj : Weights]
Rows == Seq(Row)

IterFile == [run : Launches, traj : Weights, init : SUBSET InitFlags]
HistFile == [run : Launches, rows : Rows]
StateFile == [run : Launches, next : 2 .. MaxIter + 1, traj : Weights, pin : Libs \cup {None},
              target : Targets, seed : {r.base_seed : r \in Recipes}, echo : Echoes,
              init : SUBSET InitFlags]

ASSUME NoneIsNoFile == None \notin IterFile /\ None \notin HistFile /\ None \notin StateFile

-----------------------------------------------------------------------------
(* What may be in the directory at first: nothing, or an unfinished run of a
   version without the additions, which may not have pinned its library. *)
OlderRun(l, recipe, pin, target) ==
    LET traj == <<[by |-> 1, lib |-> l, recipe |-> recipe, rate |-> "lr", moved |-> TRUE]>>
    IN  [NoFiles EXCEPT
           ![Iter(1)] = [run |-> 1, traj |-> traj, init |-> {}],
           ![Hist] = [run |-> 1, rows |-> <<[iteration |-> 1, traj |-> traj]>>],
           ![State] = [run |-> 1, next |-> 2, traj |-> traj, pin |-> pin, target |-> target,
                       seed |-> recipe.base_seed, echo |-> OlderEcho(recipe), init |-> {}],
           ![Snapshot(l)] = IF pin = None THEN None ELSE [content |-> pin]]

Init ==
    /\ lib \in Libs
    /\ \/ launches = 0 /\ disk = NoFiles
       \/ /\ Older /\ launches = 1
          /\ \E v \in Invocations, pin \in {None, lib} :
                /\ \A f \in DOMAIN LegacyAdditions :
                      f \in DOMAIN v.recipe /\ v.recipe[f] = LegacyAdditions[f]
                /\ disk = OlderRun(lib, v.recipe, pin, MaxIter)
    /\ backups = [b \in Launches |-> NoFiles]
    /\ copy = None /\ lock = None
    /\ pc = [p \in Procs |-> "idle"] /\ run = [p \in Procs |-> NoRun]
    /\ faults = 0 /\ damaged = FALSE /\ waived = {}
    /\ lastSaved = [r \in Launches |-> IF r <= launches THEN 2 ELSE 0]

-----------------------------------------------------------------------------
(* Control. *)

Goto(p, l) == pc' = [pc EXCEPT ![p] = l]

(* The `finally` of train_b2b, or the operating system: flock goes with the
   open file, so nothing of a dead launch keeps the directory locked. *)
Release(p) ==
    /\ Goto(p, "idle")
    /\ run' = [run EXCEPT ![p] = NoRun]
    /\ lock' = IF lock = p THEN None ELSE lock

(* A check that fails raises: the launch ends and no file is touched. *)
Raise(p) == Release(p) /\ UNCHANGED <<files, ghosts>>

(* flock(LOCK_EX | LOCK_NB) *)
LockFree == lock = None

(* _acquire_checkpoint_dir_lock: before anything is read, fresh or resumed.  A
   launch that finds the lock taken ends at once. *)
Launch(p, l, flags, recipe, from) ==
    /\ pc[p] = "idle" /\ launches < MaxLaunches
    /\ LockFree
    /\ lock' = p
    /\ launches' = launches + 1
    /\ \E t \in Targets :
          run' = [run EXCEPT ![p] = [NoRun EXCEPT !.by = launches + 1, !.opts = flags, !.target = t,
                                                  !.recipe = recipe, !.from = from]]
    /\ Goto(p, l)
    /\ UNCHANGED <<files, faults, lastSaved, damaged, waived>>

(* A fresh launch looks at two of the flags ... *)
LaunchFresh(p) ==
    \E v \in Invocations, opts \in Options :
        /\ Constructible(v.flags, v.recipe)
        /\ opts \subseteq {"fresh_run_overwrite", "allow_bridge_mismatch"}
        /\ Launch(p, "scan", opts \cup InitMeta(v.flags), v.recipe, None)

(* ... and a resumed one at the others; its model comes from the state, and the
   flags that say how to build one are not looked at. *)
Resume(p, from) ==
    \E v \in Invocations, opts \in Options :
        /\ ~(Surgeries \subseteq v.flags)
        /\ "fresh_run_overwrite" \notin opts
        /\ Launch(p, "load", opts, v.recipe, from)

LaunchResume(p) == Resume(p, State)

(* --resume-from-state pointed at a state file kept elsewhere. *)
LaunchResumeCopy(p) ==
    /\ copy # None
    /\ Rewind \/ \A n \in {State, Prev} : Readable(disk[n]) => disk[n].run # copy.run
    /\ Resume(p, None)

(* A crash, or an error of the collector or the optimizer. *)
Crash(p) == pc[p] # "idle" /\ Raise(p)

-----------------------------------------------------------------------------
(* Resuming. *)

(* _load_train_state_with_fallback: the newest generation that loads. *)
Generation(from) ==
    IF from = None THEN copy
    ELSE IF Readable(disk[State]) THEN disk[State] ELSE disk[Prev]

Mismatch(p) == "allow_bridge_mismatch" \in run[p].opts

(* The seed schedule must be the saved one.  A state that was never pinned is
   refused, or by flag pinned to what the library is now. *)
LoadState(p) ==
    /\ pc[p] = "load"
    /\ LET g == Generation(run[p].from)
           accepted == "accept_legacy_unpinned_state" \in run[p].opts
       IN
       IF \/ ~Readable(g)
          \/ g.seed # run[p].recipe.base_seed
          \/ g.pin = None /\ (lib = None \/ ~accepted)
       THEN Raise(p)
       ELSE /\ run' = [run EXCEPT ![p].id = g.run, ![p].i = g.next, ![p].traj = g.traj,
                                  ![p].pin = IF g.pin = None THEN lib ELSE g.pin,
                                  ![p].opts = @ \ {"accept_legacy_unpinned_state"},
                                  ![p].saved = [target |-> g.target, echo |-> g.echo],
                                  ![p].init = g.init]
            /\ waived' = IF Mismatch(p) \/ g.pin = None THEN waived \cup {g.run} ELSE waived
            /\ Goto(p, "bridge")
            /\ UNCHANGED <<files, lock, launches, faults, lastSaved, damaged>>

(* The source is compared only when the pinned snapshot is not there. *)
CheckBridge(p) ==
    /\ pc[p] = "bridge"
    /\ IF disk[Snapshot(run[p].pin)] # None \/ lib = run[p].pin
          \/ (lib # None /\ Mismatch(p))
       THEN Goto(p, "snapshot") /\ UNCHANGED <<files, lock, run, ghosts>>
       ELSE Raise(p)

(* _resolve_bridge_snapshot_for_resume: reuse the snapshot after hashing its own
   bytes; recreate a lost one from a source that still has the pinned content;
   accept another content only by flag, as the new baseline. *)
BindSnapshot(p) ==
    /\ pc[p] = "snapshot"
    /\ LET pin == run[p].pin
           snap == disk[Snapshot(pin)]
           bound == IF snap # None THEN pin ELSE lib
       IN IF \/ snap # None /\ snap # [content |-> pin]
             \/ snap = None /\ lib = None
             \/ bound # pin /\ ~Mismatch(p)
          THEN Raise(p)
          ELSE /\ disk' = [disk EXCEPT ![Snapshot(bound)] = [content |-> bound]]
               /\ run' = [run EXCEPT ![p].pin = bound]
               /\ Goto(p, "echo")
               /\ UNCHANGED <<backups, lib, copy, lock, ghosts>>

(* The recipe, _validate_resume_iterations_not_truncating, the exhausted target. *)
CheckTarget(p) ==
    /\ pc[p] = "echo"
    /\ IF \/ ~SameRecipe(Echo(run[p].recipe), run[p].saved.echo)
          \/ run[p].i > run[p].target \/ run[p].target < run[p].saved.target
       THEN Raise(p)
       ELSE /\ run' = [run EXCEPT ![p].saved = None]
            /\ Goto(p, "lineage")
            /\ UNCHANGED <<files, lock, ghosts>>

(* Fault: any earlier file will do. *)
OneLineageIgnored(id, from) == id \in Launches

(* _check_artifact_lineage_or_raise: every checkpoint in the directory, and every
   generation of train_state.pt other than the file resumed from, is of the run. *)
OneLineageOnDisk(id, from) ==
    /\ \A n \in 1 .. MaxIter : disk[Iter(n)] # None => disk[Iter(n)].run = id
    /\ \A n \in {State, Prev} \ {from} :
          disk[n] # None => Readable(disk[n]) /\ disk[n].run = id

(* Fault: the row of the iteration that is replayed is kept. *)
RowsUpTo(rows, n) == SelectSeq(rows, LAMBDA row : row.iteration <= n)

(* The rows of iterations before n, in their order. *)
RowsBefore(rows, n) ==
    LET kept   == {k \in DOMAIN rows : rows[k].iteration < n}
        nth(j) == CHOOSE k \in kept : Cardinality({m \in kept : m <= k}) = j
    IN  [j \in 1 .. Cardinality(kept) |-> rows[nth(j)]]

(* _load_resume_history: lineage first, then the rows before the resume point; a
   history that is gone is reset, one of another run is refused. *)
LoadHistory(p) ==
    /\ pc[p] = "lineage"
    /\ IF \/ ~("force_history_reset" \in run[p].opts) /\ ~OneLineageOnDisk(run[p].id, run[p].from)
          \/ disk[Hist] # None /\ disk[Hist].run # run[p].id
       THEN Raise(p)
       ELSE /\ run' = [run EXCEPT ![p].rows =
                          IF disk[Hist] = None THEN <<>> ELSE RowsBefore(disk[Hist].rows, run[p].i)]
            /\ Goto(p, "quarantine")
            /\ UNCHANGED <<files, lock, ghosts>>

(* Fault: only the checkpoint that is replayed first is set aside. *)
OutdatedNext(p) == {n \in 1 .. MaxIter : n = run[p].i /\ disk[Iter(n)] # None}

(* _quarantine_stale_future_checkpoints, one rename at a time: checkpoints at or
   past the resume point are no longer found under their names. *)
Outdated(p) == {n \in 1 .. MaxIter : n >= run[p].i /\ disk[Iter(n)] # None}

Quarantine(p) ==
    /\ pc[p] = "quarantine"
    /\ IF Outdated(p) = {}
       THEN Goto(p, "truncate") /\ UNCHANGED <<files, lock, run, ghosts>>
       ELSE \E n \in Outdated(p) :
              /\ \A m \in Outdated(p) : n <= m
              /\ disk' = [disk EXCEPT ![Stale(n)] = disk[Iter(n)], ![Iter(n)] = None]
              /\ run' = [run EXCEPT ![p].pending = @ \cup {n}]
              /\ UNCHANGED <<backups, lib, copy, lock, pc, ghosts>>

(* The truncated history is durable before the first replayed iteration. *)
TruncateHistory(p) ==
    /\ pc[p] = "truncate"
    /\ disk' = [disk EXCEPT ![Hist] = [run |-> run[p].id, rows |-> run[p].rows]]
    /\ Goto(p, "loop")
    /\ UNCHANGED <<backups, lib, copy, lock, run, ghosts>>

-----------------------------------------------------------------------------
(* A fresh run. *)

(* _find_fresh_run_managed_artifacts *)
Managed == {n \in Names : disk[n] # None}

Scan(p) ==
    /\ pc[p] = "scan"
    /\ IF Managed # {} /\ "fresh_run_overwrite" \notin run[p].opts
       THEN Raise(p)
       ELSE Goto(p, "build") /\ UNCHANGED <<files, lock, run, ghosts>>

(* Everything that can fail comes before the first artifact is touched: the model
   is built, the library is read once and hashed. *)
Build(p) ==
    /\ pc[p] = "build"
    /\ IF lib = None THEN Raise(p)
       ELSE /\ run' = [run EXCEPT ![p].pin = lib,
                                  ![p].backup = IF Managed = {} THEN 0 ELSE run[p].by]
            /\ Goto(p, "move")
            /\ UNCHANGED <<files, lock, ghosts>>

Rank(n) == CASE n = Hist -> 0 [] n = State -> 1 [] n = Prev -> 2
             [] n[1] = "iter" -> 2 + n[2]
             [] n[1] = "iter.stale" -> 2 + MaxIter + n[2]
             [] OTHER -> 3 + 2 * MaxIter

(* --fresh-run-overwrite moves the earlier run's artifacts, one rename each. *)
MoveAway(p) ==
    /\ pc[p] = "move"
    /\ IF Managed = {} \/ run[p].backup = 0
       THEN Goto(p, "copylib") /\ UNCHANGED <<files, lock, run, ghosts>>
       ELSE \E n \in Managed :
              /\ \A m \in Managed : Rank(n) <= Rank(m)
              /\ backups' = [backups EXCEPT ![run[p].backup][n] = disk[n]]
              /\ disk' = [disk EXCEPT ![n] = None]
              /\ UNCHANGED <<lib, copy, lock, pc, run, ghosts>>

(* _write_bridge_snapshot_if_needed with the bytes that were hashed; a new run_id. *)
StartFresh(p) ==
    /\ pc[p] = "copylib"
    /\ disk' = [disk EXCEPT ![Snapshot(run[p].pin)] = [content |-> run[p].pin]]
    /\ run' = [run EXCEPT ![p].id = run[p].by, ![p].i = 1, ![p].opts = @ \cap {"allow_bridge_mismatch"},
                          ![p].init = run[p].opts \cap {"scratch", "champion", "init_from_bc"}]
    /\ waived' = IF Mismatch(p) THEN waived \cup {run[p].by} ELSE waived
    /\ Goto(p, "loop")
    /\ UNCHANGED <<backups, lib, copy, lock, launches, faults, lastSaved, damaged>>

-----------------------------------------------------------------------------
(* An iteration. *)

(* The library every collector of the run loads: the pinned snapshot. *)
Loaded(p) == disk[Snapshot(run[p].pin)]

(* Fault: it is enough that there is a library. *)
UnchangedPath(p) == Loaded(p) # None

(* _verify_bridge_unchanged, on that same path. *)
Unchanged(p) ==
    /\ Loaded(p) # None
    /\ Loaded(p) = [content |-> run[p].pin] \/ Mismatch(p)

BeginIteration(p) ==
    /\ pc[p] = "loop" /\ run[p].i <= run[p].target
    /\ IF Unchanged(p) THEN Goto(p, "collect") /\ UNCHANGED <<files, lock, run, ghosts>>
       ELSE Raise(p)

(* Fault: the warm phase starts again with every launch. *)
RateOfLaunch(p) ==
    LET done == Cardinality({j \in DOMAIN run[p].traj : run[p].traj[j].by = run[p].by})
    IN  IF run[p].recipe.head_lr /\ done < run[p].recipe.head_lr_iters THEN "head_lr" ELSE "lr"

(* apply_lr_schedule: the learning rate of the heads in this iteration. *)
Rate(p) == IF run[p].recipe.head_lr /\ run[p].i <= run[p].recipe.head_lr_iters THEN "head_lr" ELSE "lr"

(* Rollouts and the PPO update: the weights take one more update.  It may leave the
   event path as it was, which EventPathTelemetry notices. *)
CollectAndUpdate(p) ==
    /\ pc[p] = "collect"
    /\ IF Loaded(p) = None THEN Raise(p)
       ELSE \E moved \in BOOLEAN :
            /\ moved \/ faults < MaxFaults
            /\ faults' = IF moved THEN faults ELSE faults + 1
            /\ run' = [run EXCEPT ![p].traj =
                          Append(@, [by |-> run[p].by, lib |-> Loaded(p).content, recipe |-> run[p].recipe,
                                     rate |-> Rate(p), moved |-> moved])]
            /\ Goto(p, "verify")
            /\ UNCHANGED <<files, lock, launches, lastSaved, damaged, waived>>

VerifyAgain(p) ==
    /\ pc[p] = "verify"
    /\ IF Unchanged(p) THEN Goto(p, "save") /\ UNCHANGED <<files, lock, run, ghosts>>
       ELSE Raise(p)

(* save_checkpoint(iter_N.pt) *)
SaveIter(p) ==
    /\ pc[p] = "save"
    /\ disk' = [disk EXCEPT ![Iter(run[p].i)] = [run |-> run[p].id, traj |-> run[p].traj, init |-> run[p].init]]
    /\ Goto(p, "unstale")
    /\ UNCHANGED <<backups, lib, copy, lock, run, ghosts>>

ClearBackup(p) ==
    /\ backups' = IF run[p].backup = 0 THEN backups
                  ELSE [backups EXCEPT ![run[p].backup] = NoFiles]

(* The quarantined predecessor goes; so does the backup when this checkpoint is
   the first durable artifact the run will have. *)
DropStale(p) ==
    /\ pc[p] = "unstale"
    /\ LET n == run[p].i IN
       /\ disk' = IF n \in run[p].pending THEN [disk EXCEPT ![Stale(n)] = None] ELSE disk
       /\ IF StateEvery = 0
          THEN /\ ClearBackup(p)
               /\ run' = [run EXCEPT ![p].pending = @ \ {n}, ![p].backup = 0]
          ELSE /\ run' = [run EXCEPT ![p].pending = @ \ {n}]
               /\ UNCHANGED backups
    /\ Goto(p, "history")
    /\ UNCHANGED <<lib, copy, lock, ghosts>>

SaveDue(p) == StateEvery > 0 /\ (run[p].i % StateEvery = 0 \/ run[p].i = run[p].target)

(* _write_history_atomic *)
SaveHistory(p) ==
    /\ pc[p] = "history"
    /\ LET rows == Append(run[p].rows, [iteration |-> run[p].i, traj |-> run[p].traj]) IN
       /\ run' = [run EXCEPT ![p].rows = rows]
       /\ disk' = [disk EXCEPT ![Hist] = [run |-> run[p].id, rows |-> rows]]
    /\ Goto(p, IF SaveDue(p) THEN "keep" ELSE "gate")
    /\ UNCHANGED <<backups, lib, copy, lock, ghosts>>

(* Fault: the newest generation is removed and not kept. *)
KeepPreviousNot(p) ==
    /\ pc[p] = "keep"
    /\ disk' = [disk EXCEPT ![State] = None]
    /\ Goto(p, "swap")
    /\ UNCHANGED <<backups, lib, copy, lock, run, ghosts>>

(* _atomic_torch_save, once the temporary file is complete: a generation that
   loads becomes the previous one ... *)
KeepPrevious(p) ==
    /\ pc[p] = "keep"
    /\ disk' = IF Readable(disk[State])
               THEN [disk EXCEPT ![Prev] = disk[State], ![State] = None] ELSE disk
    /\ Goto(p, "swap")
    /\ UNCHANGED <<backups, lib, copy, lock, run, ghosts>>

(* ... and the new one takes its name; the run is durable now. *)
SwapState(p) ==
    /\ pc[p] = "swap"
    /\ disk' = [disk EXCEPT ![State] =
                  [run |-> run[p].id, next |-> run[p].i + 1, traj |-> run[p].traj,
                   pin |-> run[p].pin, target |-> run[p].target, init |-> run[p].init,
                   seed |-> run[p].recipe.base_seed, echo |-> Echo(run[p].recipe)]]
    /\ lastSaved' = [lastSaved EXCEPT ![run[p].id] = run[p].i + 1]
    /\ ClearBackup(p)
    /\ run' = [run EXCEPT ![p].backup = 0]
    /\ Goto(p, "gate")
    /\ UNCHANGED <<lib, copy, lock, launches, faults, damaged, waived>>

(* Fault: the next iteration begins all the same. *)
EndIterationAnyway(p) ==
    /\ pc[p] = "gate"
    /\ run' = [run EXCEPT ![p].i = @ + 1]
    /\ Goto(p, "loop")
    /\ UNCHANGED <<files, lock, ghosts>>

(* raise_if_halted is last: a run that halts here has published this iteration. *)
Halted(p) == ~run[p].traj[Len(run[p].traj)].moved

EndIteration(p) ==
    /\ pc[p] = "gate"
    /\ IF Halted(p) THEN Raise(p)
       ELSE /\ run' = [run EXCEPT ![p].i = @ + 1]
            /\ Goto(p, "loop")
            /\ UNCHANGED <<files, lock, ghosts>>

(* The sweep of what this launch quarantined and did not regenerate. *)
Finish(p) ==
    /\ pc[p] = "loop" /\ run[p].i > run[p].target
    /\ disk' = [n \in Names |-> IF n[1] = "iter.stale" /\ n[2] \in run[p].pending
                                THEN None ELSE disk[n]]
    /\ Release(p)
    /\ UNCHANGED <<backups, lib, copy, ghosts>>

-----------------------------------------------------------------------------
(* The surroundings. *)

Fault == faults < MaxFaults /\ faults' = faults + 1

(* The simulator is rebuilt, or removed, at its source path. *)
Rebuild ==
    /\ Fault
    /\ lib' \in (Libs \cup {None}) \ {lib}
    /\ UNCHANGED <<disk, backups, copy, lock, pc, run, launches, lastSaved, damaged, waived>>

(* The newest generation no longer loads, while an older one does. *)
CorruptState ==
    /\ Fault
    /\ Readable(disk[State]) /\ Readable(disk[Prev])
    /\ disk' = [disk EXCEPT ![State] = Corrupt]
    /\ damaged' = TRUE
    /\ UNCHANGED <<backups, lib, copy, lock, pc, run, launches, lastSaved, waived>>

(* The snapshot is lost, or its bytes change. *)
DamageSnapshot ==
    /\ Fault
    /\ \E l \in Libs : \E c \in {None} \cup {[content |-> m] : m \in Libs \ {l}} :
          /\ disk[Snapshot(l)] # None
          /\ disk' = [disk EXCEPT ![Snapshot(l)] = c]
    /\ UNCHANGED <<backups, lib, copy, lock, pc, run, launches, lastSaved, damaged, waived>>

CopyState ==
    /\ Fault
    /\ Readable(disk[State]) /\ copy = None
    /\ copy' = disk[State]
    /\ UNCHANGED <<disk, backups, lib, lock, pc, run, launches, lastSaved, damaged, waived>>

Step(p) ==
    \/ LoadState(p) \/ CheckBridge(p) \/ BindSnapshot(p) \/ CheckTarget(p)
    \/ LoadHistory(p) \/ Quarantine(p) \/ TruncateHistory(p)
    \/ Scan(p) \/ Build(p) \/ MoveAway(p) \/ StartFresh(p)
    \/ BeginIteration(p) \/ CollectAndUpdate(p) \/ VerifyAgain(p) \/ SaveIter(p)
    \/ DropStale(p) \/ SaveHistory(p) \/ KeepPrevious(p) \/ SwapState(p)
    \/ EndIteration(p) \/ Finish(p)

Next ==
    \/ \E p \in Procs : LaunchFresh(p) \/ LaunchResume(p) \/ LaunchResumeCopy(p)
                        \/ Step(p) \/ Crash(p)
    \/ Rebuild \/ CorruptState \/ DamageSnapshot \/ CopyState

Spec == Init /\ [][Next]_vars

-----------------------------------------------------------------------------
(* Properties. *)

Prefix(s, t) == Len(s) <= Len(t) /\ SubSeq(t, 1, Len(s)) = s
OnePath(s, t) == Prefix(s, t) \/ Prefix(t, s)

LiveIters == {n \in 1 .. MaxIter : disk[Iter(n)] # None}
Checkpoints == {disk[Iter(n)] : n \in LiveIters}
Generations == {disk[n] : n \in {State, Prev}} \ {None, Corrupt}

(* Whatever a reader finds under the name iter_N.pt, in history.json or in
   train_state.pt, of one run, belongs to one sequence of updates: no checkpoint
   of an abandoned replay stands beside those of the replay that went on. *)
OneTrajectory ==
    /\ \A c, d \in Checkpoints \cup Generations : c.run = d.run => OnePath(c.traj, d.traj)
    /\ disk[Hist] # None =>
          \A k \in DOMAIN disk[Hist].rows : \A c \in Checkpoints :
             c.run = disk[Hist].run => OnePath(disk[Hist].rows[k].traj, c.traj)

(* Once a launch is past its checks, the directory holds artifacts of its run only. *)
OneLineage ==
    \A p \in Procs : pc[p] \in {"collect", "verify", "save", "unstale", "history",
                                 "keep", "swap", "gate"} =>
        /\ \A c \in Checkpoints \cup Generations : c.run = run[p].id
        /\ disk[Hist] # None => disk[Hist].run = run[p].id

(* The rows of history.json are consecutive iterations: none is lost by a crash
   and none appears twice after a replay. *)
HistoryContiguous ==
    disk[Hist] # None =>
        LET rows == disk[Hist].rows IN
        \A k \in 2 .. Len(rows) : rows[k].iteration = rows[k - 1].iteration + 1

(* All updates behind a published checkpoint were made alike, whoever made them and
   however often the run was resumed: with one simulator, unless the operator waived
   the pin; by one recipe, but for the fields that only shape the work; the heads at
   their own learning rate for just the iterations the recipe names, at least one,
   and only on weights that came from behaviour cloning; and none by the launch that
   had seen its event path stand still. *)
OneSimulator(c) == c.run \in waived \/ \A j, k \in DOMAIN c.traj : c.traj[j].lib = c.traj[k].lib

Alike(r, q) == \A f \in DOMAIN r \ Logged : r[f] = q[f]

OneRecipe(c) ==
    \A j \in DOMAIN c.traj :
        LET u == c.traj[j] IN
        /\ Alike(u.recipe, c.traj[1].recipe)
        /\ (u.rate = "head_lr") = (u.recipe.head_lr /\ j <= IF u.recipe.head_lr_iters > 1
                                                            THEN u.recipe.head_lr_iters ELSE 1)
        /\ u.rate = "head_lr" => "init_from_bc" \in c.init

NothingAfterHalt(c) ==
    \A j, k \in DOMAIN c.traj : j < k /\ ~c.traj[j].moved => c.traj[k].by # c.traj[j].by

MadeAlike ==
    \A c \in Checkpoints \cup Generations : OneSimulator(c) /\ OneRecipe(c) /\ NothingAfterHalt(c)

(* What a run last saved can be resumed after a crash at any point, also inside
   the save, and after it was moved away by a fresh run that has published nothing
   durable of its own; a damaged file costs one generation at most. *)
SavedIn(r, d) == {d[n] : n \in {State, Prev}} \ {None, Corrupt}
Recoverable ==
    \A r \in Launches : lastSaved[r] > 0 =>
        \/ \E d \in {disk} \cup {backups[b] : b \in Launches} :
              \E g \in SavedIn(r, d) : g.run = r /\ (g.next = lastSaved[r] \/ damaged)
        \/ \E q \in Launches : q > r /\ lastSaved[q] > 0

(* Documented in EventPathTelemetry ("This iteration's history row, checkpoint and
   train_state are written"), and not so unless the state is saved every iteration:
   the state a halted run leaves is an older one, and resuming from it removes the
   row and the checkpoint of the halted iteration. *)
HaltedStateSaved ==
    \A p \in Procs : pc[p] = "gate" /\ Halted(p) =>
        Readable(disk[State]) /\ disk[State].next = run[p].i + 1

(* Documented in train_state.py, and not what a second crash leaves: when a launch
   has finished, no quarantined checkpoint is left over. *)
NoStaleAfterFinish ==
    [][\A p \in Procs : Finish(p) => \A n \in 1 .. MaxIter : disk'[Stale(n)] = None]_vars

=============================================================================
