---------------------------- MODULE EpochTraining ----------------------------
(* The offline trainers: programs that train for some epochs on a fixed      *)
(* dataset and leave a checkpoint of each in a directory (train_bc,          *)
(* train_awbc, train_offline_q, train_iql, train_action_risk,                *)
(* train_global_ev, train_branch_preference_policy, train_pairwise_delta),   *)
(* and run_pipeline around the first.  A program may be killed at any        *)
(* moment, started afresh over what another one left, or resumed from it.    *)
(*                                                                          *)
(* Weights are what they were made from: the parameters training started     *)
(* with and the steps taken since.  What a validation measures is arbitrary. *)
EXTENDS Shards

CONSTANTS Methods,       \* the trainer of a behaviour is one of these
          TrainerArgs,   \* arguments: [epochs, init, resume, validates, patience, minDelta, minEpochs]
          MaxEpoch,
          StepsPerEpoch,
          SyncEvery,     \* --target-update-interval
          Losses,        \* values of the validation's mean_cross_entropy
          Episodes,      \* by version of the dataset, its episodes
          Split,         \* by version, the episodes that the shuffle puts in front
          MaxStarts

ASSUME SplitAssumption ==
    \A v \in DOMAIN Episodes :
        Cardinality(Episodes[v]) > 1 => Split[v] # {} /\ Split[v] \subseteq Episodes[v] /\ Split[v] # Episodes[v]

VARIABLES method,
          version,       \* the dataset that lies there
          files,         \* epoch_<k>.pt, or None: its weights, their loss and the start that wrote it
          bestFile,      \* best.pt
          told,          \* the report written at every epoch, and the one written at the end
          trainer,       \* the process
          starts         \* processes started

trainVars == <<method, version, files, bestFile, told, trainer, starts>>

(* The trainers: whether one can be resumed ("resumes"), whether it may begin *)
(* with a checkpoint ("warm"), what it holds out for validation ("holds"),   *)
(* how its target network follows ("target"), when it reports.  They share   *)
(* the loop below.                                                           *)
CloneProgram ==
    [resumes |-> TRUE, warm |-> {FALSE}, holds |-> "shuffled", target |-> "none", reports |-> "each"]
PipelineProgram == [CloneProgram EXCEPT !.resumes = FALSE]
AdvantageProgram ==
    [resumes |-> TRUE, warm |-> BOOLEAN, holds |-> "nothing", target |-> "none", reports |-> "never"]
OfflineQProgram == [AdvantageProgram EXCEPT !.target = "copy"]
IQLProgram == [AdvantageProgram EXCEPT !.target = "blend"]
ActionRiskProgram ==
    [resumes |-> FALSE, warm |-> {TRUE}, holds |-> "nothing", target |-> "none", reports |-> "end"]
GlobalEVProgram == [ActionRiskProgram EXCEPT !.warm = BOOLEAN, !.holds = "cut"]
BranchPreferenceProgram == [GlobalEVProgram EXCEPT !.warm = {TRUE}]
PairwiseDeltaProgram == [GlobalEVProgram EXCEPT !.warm = {FALSE}, !.holds = "numbered"]

Programs ==
    [bc |-> CloneProgram, pipeline |-> PipelineProgram, awbc |-> AdvantageProgram,
     offline_q |-> OfflineQProgram, iql |-> IQLProgram, action_risk |-> ActionRiskProgram,
     global_ev |-> GlobalEVProgram, branch_preference |-> BranchPreferenceProgram,
     pairwise_delta |-> PairwiseDeltaProgram]
Program == Programs[method]
Clones == Program.holds = "shuffled"       \* train_bc
TwoNetworks == Program.target # "none"
Infinite == 1000                           \* float("inf")
Idle == [at |-> "none"]

(* Weights, and what a checkpoint file says of them.                         *)
Weights == [origin : Nat, steps : Seq([start : Nat, version : DOMAIN Episodes])]
Checkpoints == [weights : Weights, loss : Losses \cup {None}, by : Nat]

(* A start asks for an epoch at least.                                       *)
IsArgs(args) ==
    /\ args.epochs \in 1..MaxEpoch
    /\ {args.init, args.resume, args.validates} \subseteq BOOLEAN
    /\ args.patience \in (Nat \ {0}) \cup {None}
    /\ args.minDelta \in Nat /\ args.minEpochs \in Nat \ {0}

ASSUME TrainingAssumption ==
    /\ MaxEpoch \in Nat /\ StepsPerEpoch \in Nat \ {0} /\ SyncEvery \in Nat \ {0}
    /\ MaxStarts \in Nat
    /\ Methods \subseteq DOMAIN Programs
    /\ \A args \in TrainerArgs : IsArgs(args)
    /\ 1 \in DOMAIN Episodes

(* A loss that is measured is finite, whatever is added to it.               *)
ASSUME LossAssumption ==
    /\ Losses \subseteq Nat
    /\ \A loss \in Losses, args \in TrainerArgs : loss + args.minDelta < Infinite
    /\ None \notin Nat \cup Checkpoints

TrainInit ==
    /\ method \in Methods
    /\ version = 1
    /\ files = [k \in 1..MaxEpoch |-> None]
    /\ bestFile = None
    /\ told = [each |-> None, end |-> None]
    /\ trainer = Idle /\ starts = 0

Running == trainer.at \notin {"none", "done"}

(* The names have three digits, so that the last name is the highest epoch.  *)
Saved == {k \in 1..MaxEpoch : files[k] # None}
Latest == CHOOSE k \in Saved : \A j \in Saved : j <= k
-----------------------------------------------------------------------------
(* What is held out.  train_bc shuffles the episodes with a seed, so that    *)
(* the split is a function of the dataset; with a single episode, or on      *)
(* request, nothing is held out.                                             *)
HeldOut(v, args) ==
    IF Cardinality(Episodes[v]) <= 1 \/ ~args.validates THEN {} ELSE Split[v]

Taught(v, args) == Episodes[v] \ HeldOut(v, args)

(* Others hold out the episodes of one remainder.  When that leaves nothing  *)
(* on one side, train_pairwise_delta refuses the dataset; train_global_ev    *)
(* and train_branch_preference_policy ("cut") take the last rows instead.    *)
ValidationMod == 2
HeldOutByNumber(v) == {e \in Episodes[v] : e % ValidationMod = 0}
SplitsByNumber(v) == HeldOutByNumber(v) \notin {{}, Episodes[v]}

(* The parameters a start begins with: new ones, those of a checkpoint given *)
(* by name, or with --resume those of the last epoch in the directory.       *)
NewWeights(args) == [origin |-> IF args.init THEN 0 ELSE starts + 1, steps |-> <<>>]
ResumedEpoch(args) == IF args.resume /\ Saved # {} THEN Latest ELSE 0
StartWeights(args) ==
    IF ResumedEpoch(args) = 0 THEN NewWeights(args) ELSE files[Latest].weights

(* A fault: the target network is copied before the checkpoint is loaded.    *)
StartTargetEarly(args) == {NewWeights(args)}

(* The target network is a blend of the weights it has been moved towards;   *)
(* it begins as a copy.                                                      *)
StartTarget(args) == {StartWeights(args)}

StartWith(args, v) ==
    /\ ~Running /\ starts < MaxStarts
    /\ starts' = starts + 1
    /\ trainer' =
          [at |-> IF ResumedEpoch(args) < args.epochs THEN "steps" ELSE "finish",
           args |-> args, version |-> v, step |-> 0,
           from |-> ResumedEpoch(args), epoch |-> ResumedEpoch(args),
           weights |-> StartWeights(args), target |-> StartTarget(args),
           losses |-> <<>>, bestLoss |-> Infinite, bestEpoch |-> None,
           ref |-> Infinite, stale |-> 0, stopped |-> FALSE]
    /\ UNCHANGED <<method, files, bestFile, told>>

(* train_bc refuses a dataset without a row to train on, and a patience      *)
(* without anything held out.                                                *)
Accepts(args, v) ==
    /\ Taught(v, args) # {}
    /\ args.resume => Program.resumes
    /\ args.init \in Program.warm
    /\ args.patience # None => Clones /\ HeldOut(v, args) # {}
    /\ args.validates => Clones
    /\ Program.holds = "numbered" => SplitsByNumber(v)

StartTrainer ==
    \E args \in TrainerArgs :
        /\ method # "pipeline" /\ Accepts(args, version)
        /\ StartWith(args, version)
        /\ UNCHANGED version

(* run_pipeline writes the dataset anew and trains on it, without patience;  *)
(* Generate has the generation itself.                                       *)
StartPipeline ==
    \E args \in TrainerArgs, v \in DOMAIN Episodes :
        /\ method = "pipeline" /\ Accepts(args, v) /\ args.patience = None
        /\ version' = v
        /\ StartWith(args, v)

(* Somebody generates the dataset anew between two starts.                   *)
Regenerate ==
    /\ ~Running /\ starts < MaxStarts /\ method = "bc"
    /\ version' \in (DOMAIN Episodes) \ {version}
    /\ UNCHANGED <<method, files, bestFile, told, trainer, starts>>
-----------------------------------------------------------------------------
(* update_target_network: with a tau of 1, the default of train_offline_q, a *)
(* copy; with that of train_iql, the weights come into the blend.            *)
Synced(weights) ==
    IF Program.target = "blend" THEN trainer.target \cup {weights} ELSE {weights}

Stepped ==
    [trainer.weights EXCEPT !.steps = Append(@, [start |-> starts, version |-> trainer.version])]

TrainStep ==
    LET global == trainer.epoch * StepsPerEpoch + trainer.step + 1
    IN  /\ trainer.at = "steps" /\ trainer.step < StepsPerEpoch
        /\ trainer' = [trainer EXCEPT
              !.step = @ + 1,
              !.weights = Stepped,
              !.target = IF TwoNetworks /\ global % SyncEvery = 0 THEN Synced(Stepped) ELSE @]
        /\ UNCHANGED <<method, version, files, bestFile, told, starts>>

(* What follows an epoch: the next, unless it was the last.                  *)
Onward(epoch, stopped) ==
    IF stopped \/ epoch = trainer.args.epochs THEN "finish" ELSE "steps"

(* The end of an epoch: the last synchronisation, the validation, and the    *)
(* checkpoint, which replaces the file of that name as a whole.              *)
SaveEpoch ==
    LET k == trainer.epoch + 1
        validated == Clones /\ HeldOut(trainer.version, trainer.args) # {}
    IN  /\ trainer.at = "steps" /\ trainer.step = StepsPerEpoch
        /\ \E loss \in (IF validated THEN Losses ELSE {None}) :
              /\ files' = [files EXCEPT ![k] = [weights |-> trainer.weights, loss |-> loss, by |-> starts]]
              /\ trainer' = [trainer EXCEPT
                    !.step = 0, !.epoch = k,
                    !.target = IF TwoNetworks THEN Synced(trainer.weights) ELSE @,
                    !.losses = Append(@, loss),
                    !.at = IF Clones THEN "select" ELSE Onward(k, FALSE)]
        /\ UNCHANGED <<method, version, bestFile, told, starts>>

(* Selection takes every lower loss, stopping only one lower by more than    *)
(* min_delta than the last that was.                                         *)
Lower(loss, bound) == loss # None /\ loss < bound

(* A fault: the loss that the patience compares with follows the best.      *)
ReferenceDrifting(loss, lower, patient) == IF lower THEN loss ELSE trainer.ref
Reference(loss, lower, patient) == IF patient THEN loss ELSE trainer.ref

Select ==
    LET loss == Last(trainer.losses)
        lower == Lower(loss, trainer.bestLoss)
        patient == Lower(loss, trainer.ref - trainer.args.minDelta)
        stale == IF patient THEN 0 ELSE IF loss = None THEN trainer.stale ELSE trainer.stale + 1
    IN  /\ trainer.at = "select"
        /\ bestFile' = IF lower /\ trainer.args.patience # None THEN files[trainer.epoch] ELSE bestFile
        /\ trainer' = [trainer EXCEPT
              !.bestLoss = IF lower THEN loss ELSE @,
              !.bestEpoch = IF lower THEN trainer.epoch ELSE @,
              !.ref = Reference(loss, lower, patient),
              !.stale = stale,
              !.stopped = /\ trainer.args.patience # None
                          /\ trainer.epoch >= trainer.args.minEpochs /\ stale >= trainer.args.patience,
              !.at = "report"]
        /\ UNCHANGED <<method, version, files, told, starts>>

ReportEpoch ==
    /\ trainer.at = "report"
    /\ told' = [told EXCEPT !.each = [by |-> starts, run |-> trainer.epoch, best |-> trainer.bestEpoch,
                                      loss |-> trainer.bestLoss, stopped |-> trainer.stopped]]
    /\ trainer' = [trainer EXCEPT !.at = Onward(trainer.epoch, trainer.stopped)]
    /\ UNCHANGED <<method, version, files, bestFile, starts>>
-----------------------------------------------------------------------------
(* After the loop train_bc makes sure that best.pt is the epoch it chose.    *)
FinishClone ==
    /\ trainer.at = "finish" /\ Clones
    /\ bestFile' = IF trainer.args.patience # None /\ trainer.bestEpoch # None
                   THEN files[trainer.bestEpoch] ELSE bestFile
    /\ trainer' = [trainer EXCEPT !.at = IF method = "pipeline" THEN "evaluate" ELSE "done"]
    /\ UNCHANGED <<method, version, files, told, starts>>

(* The pipeline evaluates the last checkpoint of the directory and writes    *)
(* its report.                                                               *)
EvaluateLatest ==
    /\ trainer.at = "evaluate"
    /\ told' = [told EXCEPT !.end = [by |-> starts, final |-> Latest, weights |-> files[Latest].weights]]
    /\ trainer' = [trainer EXCEPT !.at = "done"]
    /\ UNCHANGED <<method, version, files, bestFile, starts>>

FinishOffline ==
    /\ trainer.at = "finish" /\ Program.reports = "never"
    /\ trainer' = [trainer EXCEPT !.at = "done"]
    /\ UNCHANGED <<method, version, files, bestFile, told, starts>>

(* The report speaks of the weights in memory and points at the checkpoint   *)
(* of the last epoch, or at its directory.                                   *)
FinishOnce ==
    /\ trainer.at = "finish" /\ Program.reports = "end"
    /\ told' = [told EXCEPT !.end = [by |-> starts, final |-> trainer.args.epochs, weights |-> trainer.weights]]
    /\ trainer' = [trainer EXCEPT !.at = "done"]
    /\ UNCHANGED <<method, version, files, bestFile, starts>>

(* The process is killed.                                                    *)
KillTrainer ==
    /\ Running
    /\ trainer' = Idle
    /\ UNCHANGED <<method, version, files, bestFile, told, starts>>

AllTrained == ~Running /\ starts = MaxStarts /\ UNCHANGED trainVars

TrainNext ==
    \/ StartTrainer \/ StartPipeline \/ Regenerate
    \/ TrainStep \/ SaveEpoch \/ Select \/ ReportEpoch
    \/ FinishClone \/ EvaluateLatest \/ FinishOffline \/ FinishOnce
    \/ KillTrainer \/ AllTrained

TrainSpec == TrainInit /\ [][TrainNext]_trainVars
-----------------------------------------------------------------------------
Since(n, losses) == {i \in DOMAIN losses : i > Len(losses) - n}

(* What a run of train_bc with patience chooses: best.pt is the first of its *)
(* epochs with its lowest loss, and so says its report; it stops only when   *)
(* none of the last "patience" epochs is lower by more than min_delta than   *)
(* some epoch before them, so that slow progress does not stop it, and goes  *)
(* on, from min_epochs, only when one of them was lower than all before      *)
(* (selection and stopping keep two references).                             *)
SelectionSound ==
    method = "bc" /\ trainer.at \in {"report", "finish", "done"}
      /\ trainer.args.patience # None /\ trainer.losses # <<>> =>
        LET L == trainer.losses
            first == trainer.bestEpoch - trainer.from
            recent == Since(trainer.args.patience, L)
        IN  /\ \A i \in DOMAIN L : L[first] <= L[i] /\ (i < first => L[first] < L[i])
            /\ bestFile = files[trainer.bestEpoch]
            /\ trainer.stopped =>
                  /\ trainer.epoch >= trainer.args.minEpochs
                  /\ \E j \in (DOMAIN L) \ recent : \A i \in recent : L[i] >= L[j] - trainer.args.minDelta
            /\ ~trainer.stopped /\ trainer.epoch >= trainer.args.minEpochs =>
                  \E i \in recent : \A j \in 1..(i - 1) : L[i] < L[j]
            /\ trainer.at # "report" =>
                  told.each = [by |-> starts, run |-> trainer.epoch, best |-> trainer.bestEpoch,
                               loss |-> L[first], stopped |-> trainer.stopped]

(* Whatever was killed, started over or resumed: epoch_<k>.pt holds k epochs *)
(* of training from one origin, each step's start no earlier than the last   *)
(* one's; a target network never holds weights the trained one has not gone  *)
(* through, and as a copy is never a whole interval old; a report written at *)
(* the end speaks of the checkpoint it names, until another start replaces   *)
(* it, and that of the pipeline of the model it trained if no file was there *)
(* of a later epoch.                                                         *)
Before(old, new) == old.origin = new.origin /\ IsPrefix(old.steps, new.steps)
CheckpointsSound ==
    /\ \A k \in Saved :
          LET steps == files[k].weights.steps
          IN  /\ Len(steps) = k * StepsPerEpoch
              /\ \A i \in 2..Len(steps) : steps[i - 1].start <= steps[i].start
              /\ Last(steps).start = files[k].by
    /\ Running /\ TwoNetworks =>
          \A w \in trainer.target :
              /\ Before(w, trainer.weights)
              /\ Program.target = "copy" => Len(trainer.weights.steps) - Len(w.steps) < SyncEvery
    /\ told.end # None =>
          LET file == files[told.end.final]
          IN  file.weights = told.end.weights \/ file.by > told.end.by
    /\ trainer.at = "done" /\ method = "pipeline" /\ Latest = trainer.args.epochs =>
          told.end.weights = trainer.weights
-----------------------------------------------------------------------------
(* Refuted: "the lowest-CE epoch's checkpoint is byte-copied to best.pt"     *)
(* (ai/MODULES.md:159): a resumed run begins its search anew.                *)
BestIsLowest ==
    method = "bc" /\ trainer.at = "done" /\ trainer.args.patience # None /\ bestFile # None =>
        \A k \in 1..trainer.epoch : files[k].loss # None => bestFile.loss <= files[k].loss

(* Refuted: "Evaluating trained model" (run_pipeline.py:70): the model       *)
(* evaluated may be of an earlier run with more epochs.                      *)
PipelineEvaluatesItsModel ==
    trainer.at = "done" /\ method = "pipeline" => told.end.weights = trainer.weights

(* Refuted: "so validation does not share a round with train" (data.py:129): *)
(* a run that is resumed on a dataset generated anew holds out other rounds. *)
ValidationUnseen ==
    method = "bc" /\ trainer.at = "select" =>
        \A i \in DOMAIN trainer.weights.steps :
            LET v == trainer.weights.steps[i].version
            IN  HeldOut(trainer.version, trainer.args) \cap Taught(v, trainer.args) = {}
=============================================================================
