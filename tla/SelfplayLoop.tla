---------------------------- MODULE SelfplayLoop ----------------------------
(* The self-play improvement loop (selfplay_loop.py): generate self-play     *)
(* with the current best, train a candidate from the fixed init on all the   *)
(* data so far, compare the candidate with the best in two stages, record    *)
(* the outcome in the ledger.  The process may be killed between any two     *)
(* writes, and while it writes the ledger, and it is resumed from there.     *)
EXTENDS Generate

CONSTANTS Iterations,    \* config.iterations
          Patience,
          Epochs,
          BatchSize, Workers,
          SelfPlans,     \* the episodes of one iteration's self-play
          Metrics,       \* reports of evaluate_duplicate_seats
          ScreenMargin, LargeLossEps, PositiveEps,
          MayStream,     \* a subset of BOOLEAN: --stream-training
          MaxLaunches,
          Torn           \* a file that was cut off

(* The loader has worker processes: without one, it would shuffle every pass *)
(* anew.                                                                     *)
ASSUME LoopAssumption == Workers \in Nat \ {0} /\ BatchSize \in Nat \ {0}

VARIABLES disk,          \* iterN/selfplay, of every iteration
          candidates,    \* iterN/candidate/epoch_K.pt: what each was trained from, or None
          ledger,        \* ledger.json: a ledger, Torn or None
          loop,          \* the process: where it is, "off" when there is none
          memory,        \* its ledger
          stream,        \* its --stream-training
          feed,          \* when it streams: the batches of a pass, the same in every pass
          writing,       \* rows of its self-play still to be written
          launches,
          madeBy         \* for the properties: by iteration, the policy that played and its rows

loopVars == <<disk, candidates, ledger, loop, memory, stream, feed, writing, launches, madeBy>>
vars == <<genVars, loopVars>>

Initial == 0          \* config.initial_best; candidates are numbered by their iterations
NoEval == [screen |-> None, confirm |-> None]
Iters == 1..Iterations

FreshLedger ==
    [iteration |-> 0, best |-> Initial, data |-> <<>>, bestEval |-> NoEval,
     history |-> <<>>, rejections |-> 0]

LoopInit ==
    /\ disk = [i \in Iters |-> EmptyDir]
    /\ candidates = [i \in Iters |-> [k \in 1..Epochs |-> None]]
    /\ ledger = None /\ memory = FreshLedger
    /\ loop = "off" /\ stream = FALSE /\ feed = <<>> /\ writing = <<>>
    /\ launches = 0
    /\ madeBy = [i \in Iters |-> None]

Init == GenInit /\ LoopInit
-----------------------------------------------------------------------------
(* A torn ledger is no JSON: a resumed launch raises.                        *)
Readable == ledger \notin {None, Torn}

(* run_loop: --resume continues from the ledger if there is one; without it, *)
(* or without a ledger, a fresh one is written.                              *)
Launch ==
    /\ loop = "off" /\ generator = "idle" /\ launches < MaxLaunches
    /\ launches' = launches + 1
    /\ stream' \in MayStream
    /\ \/ memory' = FreshLedger /\ loop' = "saveFresh"
       \/ Readable /\ memory' = ledger /\ loop' = "check"
    /\ UNCHANGED <<genVars, disk, candidates, ledger, feed, writing, madeBy>>

(* LoopLedger.save: write_text, without a temporary file.                    *)
Save(from, to) ==
    /\ loop = from
    /\ ledger' = memory
    /\ loop' = to
    /\ UNCHANGED <<genVars, disk, candidates, memory, stream, feed, writing, launches, madeBy>>
SaveFresh == Save("saveFresh", "check")
SaveData == Save("saveData", "load")
SaveOutcome == Save("saveOutcome", "check")

GoOn == memory.iteration < Iterations /\ memory.rejections < Patience

(* The start of run_iteration; the writer's constructor clears what an       *)
(* iteration cut short has left in the directory.                            *)
NextIteration == memory.iteration + 1
PlayIteration ==
    /\ loop = "check" /\ GoOn
    /\ memory' = [memory EXCEPT !.iteration = @ + 1]
    /\ \E plan \in SelfPlans :
          LET rows == Collected(<<NextIteration, launches>>, 0, plan)
          IN  /\ writing' = rows
              /\ madeBy' = [madeBy EXCEPT ![NextIteration] = [best |-> memory.best, rows |-> rows]]
    /\ disk' = [disk EXCEPT ![NextIteration] = EmptyDir]
    /\ loop' = "write"
    /\ UNCHANGED <<genVars, candidates, ledger, stream, feed, launches>>

WriteShard ==
    /\ loop = "write" /\ Full(writing)
    /\ disk' = [disk EXCEPT ![memory.iteration] = Flushed(@, SubSeq(writing, 1, ShardSize))]
    /\ writing' = SubSeq(writing, ShardSize + 1, Len(writing))
    /\ UNCHANGED <<genVars, candidates, ledger, loop, memory, stream, feed, launches, madeBy>>

(* A fault: the ledger learns of the data before it is complete.             *)
FinishShardsEarly ==
    /\ loop = "write"
    /\ memory' = [memory EXCEPT !.data = Append(@, memory.iteration)]
    /\ disk' = [disk EXCEPT ![memory.iteration] = Closed(@)]
    /\ writing' = <<>>
    /\ loop' = "saveData"
    /\ UNCHANGED <<genVars, candidates, ledger, stream, feed, launches, madeBy>>

(* close, and the ledger learns of the data.                                 *)
FinishShards ==
    /\ loop = "write" /\ ~Full(writing)
    /\ disk' = [disk EXCEPT ![memory.iteration] =
                   Closed(IF writing = <<>> THEN @ ELSE Flushed(@, writing))]
    /\ writing' = <<>>
    /\ memory' = [memory EXCEPT !.data = Append(@, memory.iteration)]
    /\ loop' = "saveData"
    /\ UNCHANGED <<genVars, candidates, ledger, stream, feed, launches, madeBy>>
-----------------------------------------------------------------------------
(* train_iql on the base data and all the self-play in the ledger.           *)
DataPaths == <<base>> \o [i \in DOMAIN memory.data |-> disk[memory.data[i]]]

(* In memory every directory must hold rows.  The stream takes an empty one, *)
(* but wants a whole batch, and one from a single worker.                    *)
CanLoad ==
    IF stream
    THEN /\ Streamable(DataPaths)
         /\ Len(LoadedAsStream(DataPaths)) >= BatchSize
         /\ \E w \in 0..(Workers - 1) : BatchesOf(ShardIndex(DataPaths), w, Workers, BatchSize) > 0
    ELSE \A i \in DOMAIN DataPaths : Loadable(DataPaths[i])

Loaded == IF stream THEN LoadedAsStream(DataPaths) ELSE LoadedInMemory(DataPaths)

(* The workers start every pass from the loader's copy of the dataset, whose *)
(* epoch is never counted up: every pass shuffles, and drops, the same way.  *)
Load ==
    /\ loop = "load" /\ CanLoad
    /\ IF stream
       THEN feed' \in Passes(ShardIndex(DataPaths), Workers, BatchSize)
       ELSE feed' = <<>>
    /\ loop' = "train"
    /\ UNCHANGED <<genVars, disk, candidates, ledger, memory, stream, writing, launches, madeBy>>

(* A fault: the steps of an epoch are dealt out to the workers.              *)
EpochStepsPerWorker == Len(Loaded) \div (BatchSize * Workers)

(* steps_per_epoch; one batch is drawn in each.                              *)
EpochSteps == Max({1, Len(Loaded) \div BatchSize})

(* The rows that epoch k draws from: in memory a batch is drawn at random    *)
(* from all rows; the stream goes on where the epoch before it stopped, from *)
(* one pass into the next.                                                   *)
RowsOfEpoch(k) ==
    IF stream
    THEN UNION {feed[(n % Len(feed)) + 1] : n \in ((k - 1) * EpochSteps)..(k * EpochSteps - 1)}
    ELSE Range(Loaded)

(* An epoch of train_iql ends with its checkpoint, which replaces the file   *)
(* of that name; only the last one becomes the candidate.                    *)
Trained(k) ==
    [iteration |-> memory.iteration, launch |-> launches, epoch |-> k, streamed |-> stream,
     data |-> memory.data, count |-> Len(Loaded), rows |-> RowsOfEpoch(k)]

EpochsDone ==
    {k \in 1..Epochs : /\ candidates[memory.iteration][k] # None
                       /\ candidates[memory.iteration][k].launch = launches}
TrainEpoch ==
    /\ loop = "train" /\ EpochsDone # 1..Epochs
    /\ LET k == Cardinality(EpochsDone) + 1
       IN  candidates' = [candidates EXCEPT ![memory.iteration][k] = Trained(k)]
    /\ UNCHANGED <<genVars, disk, ledger, loop, memory, stream, feed, writing, launches, madeBy>>

Candidate == memory.iteration     \* iterN/candidate/epoch_<Epochs>.pt

-----------------------------------------------------------------------------
(* The gate.  The best's report is the cached one if there is one.           *)
ScreenPass(candidate, best) == candidate.mean >= best.mean - ScreenMargin
ConfirmPromote(candidate, best) ==
    /\ candidate.mean - candidate.ci >= best.mean
    /\ candidate.large <= best.large + LargeLossEps
    /\ candidate.positive >= best.positive - PositiveEps

BestReport(stage) ==
    IF memory.bestEval[stage] # None THEN {memory.bestEval[stage]} ELSE Metrics

Recorded(decision, screen, confirm) ==
    Append(memory.history, [iteration |-> memory.iteration, candidate |-> Candidate,
                            over |-> memory.best, screen |-> screen, confirm |-> confirm,
                            decision |-> decision])

Rejected(decision, bestEval, screen, confirm) ==
    [memory EXCEPT !.rejections = @ + 1, !.bestEval = bestEval,
                   !.history = Recorded(decision, screen, confirm)]

(* A fault: the reports of the best that was are kept.                       *)
PromotedKeepingEval(bestEval, screen, confirm) ==
    [memory EXCEPT !.best = Candidate, !.bestEval = bestEval, !.rejections = 0,
                   !.history = Recorded("promoted", screen, confirm)]

(* record_promotion: the candidate's reports become those of the best.       *)
Promoted(bestEval, screen, confirm) ==
    [memory EXCEPT !.best = Candidate, !.bestEval = [screen |-> screen, confirm |-> confirm],
                   !.rejections = 0, !.history = Recorded("promoted", screen, confirm)]

(* gate_decision: the confirmation is played only when the screen passes.    *)
ScreenFails ==
    \E best \in BestReport("screen"), candidate \in Metrics :
        /\ ~ScreenPass(candidate, best)
        /\ memory' = Rejected("rejected_screen", [memory.bestEval EXCEPT !.screen = best], candidate, None)
Confirm ==
    \E best \in BestReport("screen"), candidate \in Metrics,
       bestConfirm \in BestReport("confirm"), candidateConfirm \in Metrics :
        LET cached == [screen |-> best, confirm |-> bestConfirm]
        IN  /\ ScreenPass(candidate, best)
            /\ memory' = IF ConfirmPromote(candidateConfirm, bestConfirm)
                         THEN Promoted(cached, candidate, candidateConfirm)
                         ELSE Rejected("rejected_confirm", cached, candidate, candidateConfirm)

Gate ==
    /\ loop = "train" /\ EpochsDone = 1..Epochs
    /\ ScreenFails \/ Confirm
    /\ loop' = "saveOutcome" /\ feed' = <<>>
    /\ UNCHANGED <<genVars, disk, candidates, ledger, stream, writing, launches, madeBy>>
-----------------------------------------------------------------------------
(* The loop is killed; while it saves, the ledger may be left half written.  *)
Kill ==
    /\ loop # "off"
    /\ \/ ledger' = ledger
       \/ loop \in {"saveFresh", "saveData", "saveOutcome"} /\ ledger' = Torn
    /\ loop' = "off" /\ writing' = <<>> /\ feed' = <<>> /\ memory' = FreshLedger
    /\ UNCHANGED <<genVars, disk, candidates, stream, launches, madeBy>>

(* The data cannot be loaded: train_iql raises.                              *)
LoadRaises ==
    /\ loop = "load" /\ ~CanLoad
    /\ loop' = "off" /\ memory' = FreshLedger
    /\ UNCHANGED <<genVars, disk, candidates, ledger, stream, feed, writing, launches, madeBy>>

Step ==
    \/ Launch \/ SaveFresh \/ PlayIteration \/ WriteShard \/ FinishShards \/ SaveData
    \/ Load \/ LoadRaises \/ TrainEpoch \/ Gate \/ SaveOutcome \/ Kill

(* The loop has ended, or nobody starts it again.                            *)
Ended ==
    /\ \/ loop = "check" /\ ~GoOn
       \/ loop = "off" /\ launches = MaxLaunches
    /\ UNCHANGED vars

Next ==
    \/ launches = 0 /\ Generation /\ UNCHANGED loopVars
    \/ Step
    \/ Ended

Spec == Init /\ [][Next]_vars
-----------------------------------------------------------------------------
AllRows(rows) == {rows[i] : i \in DOMAIN rows}
PromotedIn(history) == SelectSeq(history, LAMBDA h : h.decision = "promoted")


(* The rows a candidate is due: the base data and the self-play in its       *)
(* ledger.                                                                   *)
DueRows(c) == AllRows(StoredRows(base)) \cup UNION {AllRows(madeBy[i].rows) : i \in Range(c.data)}
RowsIn(c) == {x.row : x \in c.rows}

(* Every epoch of every candidate in the ledger's history was trained from   *)
(* the base data and the self-play up to its iteration and from nothing      *)
(* else, no row counted twice.  In memory an epoch draws from all of these   *)
(* rows, each with the decisions that really remained (one more in an        *)
(* episode that nobody ended).  A streamed epoch draws every row but what is *)
(* less than a batch of each worker.                                         *)
TrainedOnData ==
    Readable => \A n \in DOMAIN ledger.history, k \in 1..Epochs :
        LET h == ledger.history[n]
            c == candidates[h.candidate][k]
            due == DueRows(c)
            seen == RowsIn(c)
            closed(r) == \E q \in due : q.source = r.source /\ q.episode = r.episode /\ q.done
        IN  /\ c # None /\ c.iteration = h.iteration
            /\ Range(c.data) = {i \in Range(ledger.data) : i <= h.iteration}
            /\ c.count = Cardinality(due) /\ seen \subseteq due
            /\ IF c.streamed
               THEN Cardinality(due \ seen) <= Workers * (BatchSize - 1)
               ELSE /\ seen = due
                    /\ \A x \in c.rows : x.steps = x.row.left + IF closed(x.row) THEN 0 ELSE 1

(* The best is the last promoted candidate, each promotion was decided       *)
(* against the best before it and is, on the confirmation's seeds, not worse *)
(* than it by more than its interval allows; the cached reports are those of *)
(* the best; every iteration has at most one verdict, on data it added, and  *)
(* the patience counts the verdicts since the last promotion.                *)
BestJustified ==
    Readable =>
        LET promoted == PromotedIn(ledger.history)
            before(n) == IF n = 1 THEN Initial ELSE promoted[n - 1].candidate
        IN  /\ ledger.best = before(Len(promoted) + 1)
            /\ \A n \in DOMAIN promoted :
                  /\ promoted[n].over = before(n)
                  /\ n > 1 => promoted[n].confirm.mean - promoted[n].confirm.ci >= promoted[n - 1].confirm.mean
            /\ promoted # <<>> =>
                  ledger.bestEval = [screen |-> Last(promoted).screen, confirm |-> Last(promoted).confirm]
            /\ \A n \in 2..Len(ledger.history) : ledger.history[n - 1].iteration < ledger.history[n].iteration
            /\ \A n \in DOMAIN ledger.history : ledger.history[n].iteration \in Range(ledger.data)
            /\ ledger.rejections =
                  Cardinality({n \in DOMAIN ledger.history :
                                  \A m \in n..Len(ledger.history) : ledger.history[m].decision # "promoted"})

(* What the repository says and the stream does not do: "one epoch sees      *)
(* every row once" (ai/MODULES.md:81).  The rows in a worker's incomplete    *)
(* last batch are dropped, the same ones in every pass.                      *)
EveryRowStreamed ==
    Readable => \A n \in DOMAIN ledger.history, k \in 1..Epochs :
        LET c == candidates[ledger.history[n].candidate][k]
        IN  c.streamed => RowsIn(c) = DueRows(c)
=============================================================================
