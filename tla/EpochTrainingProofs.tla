------------------------ MODULE EpochTrainingProofs ------------------------
(***************************************************************************)
(* For every dataset, trainer, number of epochs and steps, every sequence of *)
(* kills, restarts and resumptions, and whatever validations measure: the    *)
(* checkpoints hold the training their names say, and a run with patience    *)
(* chooses and stops as it says.                                            *)
(***************************************************************************)
EXTENDS EpochTraining, WellFoundedInduction, TLAPS

Steps == [start : Nat, version : DOMAIN Episodes]

Sorted(steps) == \A i \in 2..Len(steps) : steps[i - 1].start <= steps[i].start

Trainers ==
    [at : {"steps", "select", "report", "finish", "evaluate", "done"}, args : TrainerArgs,
     version : DOMAIN Episodes, step : 0..StepsPerEpoch, from : 0..MaxEpoch, epoch : 0..MaxEpoch,
     weights : Weights, target : SUBSET Weights, losses : Seq(Losses \cup {None}),
     bestLoss : Nat, bestEpoch : (1..MaxEpoch) \cup {None}, ref : Nat, stale : Nat,
     stopped : BOOLEAN]

TypeInv ==
    /\ method \in Methods /\ version \in DOMAIN Episodes /\ starts \in Nat
    /\ files \in [1..MaxEpoch -> Checkpoints \cup {None}]
    /\ trainer \in Trainers \cup {Idle}
    /\ told.end # None => told.end.final \in 1..MaxEpoch /\ told.end.by \in 0..starts
    /\ DOMAIN told = {"each", "end"}

(* epoch_<k>.pt holds k epochs of steps, in the order of the starts that took *)
(* them, and the last one took the last.                                     *)
FilesInv ==
    \A k \in Saved :
        LET steps == files[k].weights.steps
        IN  /\ Len(steps) = k * StepsPerEpoch
            /\ Sorted(steps)
            /\ steps[Len(steps)].start = files[k].by /\ files[k].by <= starts
            /\ \A i \in DOMAIN steps : steps[i].start <= files[k].by

(* The weights in memory are as many steps old as the process counts, from    *)
(* the file it was resumed from on; between two epochs they are those of the *)
(* last file it wrote.                                                       *)
WeightsInv ==
    Running =>
        LET steps == trainer.weights.steps
        IN  /\ Len(steps) = trainer.epoch * StepsPerEpoch + trainer.step
            /\ Sorted(steps) /\ \A i \in DOMAIN steps : steps[i].start <= starts
            /\ trainer.step > 0 => steps[Len(steps)].start = starts
            /\ trainer.step = 0 /\ trainer.epoch > 0 =>
                  files[trainer.epoch] # None /\ files[trainer.epoch].weights = trainer.weights
            /\ trainer.at = "steps" => trainer.epoch < trainer.args.epochs
            /\ trainer.at # "steps" => trainer.step = 0 /\ trainer.epoch > 0
            /\ ~Program.resumes /\ ~trainer.stopped /\ trainer.at \in {"finish", "evaluate"} =>
                  trainer.epoch = trainer.args.epochs
            /\ ~Program.resumes => trainer.from = 0 /\ ~trainer.args.resume
            /\ ~Clones => ~trainer.stopped
            /\ trainer.args.patience = None => ~trainer.stopped
            /\ method = "pipeline" => trainer.args.patience = None
            /\ trainer.at = "evaluate" => method = "pipeline"
            /\ trainer.at \in {"select", "report"} => Clones /\ trainer.epoch <= trainer.args.epochs
            /\ trainer.at = "select" => trainer.losses # <<>>
            /\ told.end # None => told.end.by < starts

(* The target network was last moved at a step since which no multiple of the *)
(* interval has come.                                                        *)
TargetInv ==
    Running /\ TwoNetworks =>
        \A w \in trainer.target :
            /\ Before(w, trainer.weights)
            /\ Program.target = "copy" =>
                  Len(trainer.weights.steps) - Len(w.steps) <= Len(trainer.weights.steps) % SyncEvery

(* What the pipeline reports is what the run has trained, if no later epoch   *)
(* lies there.                                                               *)
ToldInv ==
    /\ told.end # None =>
          LET file == files[told.end.final]
          IN  file.weights = told.end.weights \/ file.by > told.end.by
    /\ trainer.at = "done" /\ method = "pipeline" /\ Latest = trainer.args.epochs =>
          told.end.weights = trainer.weights

CheckpointInv == TypeInv /\ FilesInv /\ WeightsInv /\ TargetInv /\ ToldInv

(* The search of a run with patience: its best is the first lowest loss so    *)
(* far; the loss that the patience compares with was lower than all before   *)
(* it, and none since is lower than it by more than min_delta.               *)
Searches == method = "bc" /\ trainer.at # "none" /\ trainer.args.patience # None

Judged == IF trainer.at = "select" THEN Len(trainer.losses) - 1 ELSE Len(trainer.losses)
FirstBest == trainer.bestEpoch - trainer.from
Compared == Judged - trainer.stale

LossesInv ==
    /\ trainer.losses \in Seq(Losses) /\ trainer.from + Len(trainer.losses) = trainer.epoch
    /\ trainer.at \in {"select", "report"} => trainer.losses # <<>>
    /\ HeldOut(trainer.version, trainer.args) # {}

NothingJudged ==
    /\ trainer.bestLoss = Infinite /\ trainer.ref = Infinite /\ trainer.stale = 0
    /\ trainer.bestEpoch = None /\ ~trainer.stopped

BestInv ==
    LET L == trainer.losses
    IN  /\ trainer.bestEpoch # None /\ FirstBest \in 1..Judged /\ trainer.bestLoss = L[FirstBest]
        /\ \A i \in 1..Judged : L[FirstBest] <= L[i] /\ (i < FirstBest => L[FirstBest] < L[i])
        /\ bestFile = files[trainer.bestEpoch]

PatienceInv ==
    LET L == trainer.losses
        p == Compared
    IN  /\ p \in 1..Judged /\ trainer.ref = L[p]
        /\ \A i \in 1..(p - 1) : L[p] < L[i]
        /\ \A i \in (p + 1)..Judged : L[i] >= L[p] - trainer.args.minDelta

StopInv ==
    /\ trainer.stopped =>
           trainer.epoch >= trainer.args.minEpochs /\ trainer.stale >= trainer.args.patience
    /\ ~trainer.stopped /\ trainer.epoch >= trainer.args.minEpochs
          /\ trainer.at \in {"report", "finish", "done"} => trainer.stale < trainer.args.patience
    /\ trainer.at \in {"finish", "done"} =>
           told.each = [by |-> starts, run |-> trainer.epoch, best |-> trainer.bestEpoch,
                        loss |-> trainer.bestLoss, stopped |-> trainer.stopped]

SearchInv ==
    Searches =>
        /\ LossesInv
        /\ Judged = 0 => NothingJudged
        /\ Judged > 0 => BestInv /\ PatienceInv /\ StopInv
        /\ trainer.at \in {"steps", "select"} => ~trainer.stopped
-----------------------------------------------------------------------------
(* What the trainers that share the loop have in common.                    *)
LEMMA ProgramFacts ==
    ASSUME method \in Methods
    PROVE  /\ Clones <=> method \in {"bc", "pipeline"}
           /\ Clones => ~TwoNetworks
           /\ ~Clones => Program.reports \in {"never", "end"}
           /\ Clones => Program.reports = "each"
           /\ Program.reports = "end" => ~Program.resumes
           /\ method = "pipeline" => ~Program.resumes
<1>1. method \in DOMAIN Programs
  BY TrainingAssumption
<1>2. method \in {"bc", "pipeline"} =>
         Program.holds = "shuffled" /\ Program.target = "none" /\ Program.reports = "each"
  BY DEF Programs, Program, CloneProgram, PipelineProgram
<1>3. method \in {"awbc", "offline_q", "iql"} =>
         Program.holds = "nothing" /\ Program.reports = "never"
  BY DEF Programs, Program, AdvantageProgram, OfflineQProgram, IQLProgram
<1>4. method \in {"action_risk", "global_ev", "branch_preference", "pairwise_delta"} =>
         Program.holds # "shuffled" /\ Program.reports = "end" /\ ~Program.resumes
  <2>1. \A p \in {ActionRiskProgram, GlobalEVProgram, BranchPreferenceProgram, PairwiseDeltaProgram} :
           p.holds # "shuffled" /\ p.reports = "end" /\ ~p.resumes
    <3>1. DOMAIN ActionRiskProgram = {"resumes", "warm", "holds", "target", "reports"}
      BY DEF ActionRiskProgram
    <3>2. ActionRiskProgram.holds = "nothing" /\ ActionRiskProgram.reports = "end"
          /\ ActionRiskProgram.resumes = FALSE
      BY DEF ActionRiskProgram
    <3>3. GlobalEVProgram.holds = "cut" /\ GlobalEVProgram.reports = "end"
          /\ GlobalEVProgram.resumes = FALSE
      BY <3>1, <3>2 DEF GlobalEVProgram
    <3>4. DOMAIN GlobalEVProgram = {"resumes", "warm", "holds", "target", "reports"}
      BY <3>1 DEF GlobalEVProgram
    <3>5. BranchPreferenceProgram.holds = "cut" /\ BranchPreferenceProgram.reports = "end"
          /\ BranchPreferenceProgram.resumes = FALSE
      BY <3>3, <3>4 DEF BranchPreferenceProgram
    <3>6. PairwiseDeltaProgram.holds = "numbered" /\ PairwiseDeltaProgram.reports = "end"
          /\ PairwiseDeltaProgram.resumes = FALSE
      BY <3>3, <3>4 DEF PairwiseDeltaProgram
    <3>. QED  BY <3>2, <3>3, <3>5, <3>6
  <2>2. method \in {"action_risk", "global_ev", "branch_preference", "pairwise_delta"} =>
           Program \in {ActionRiskProgram, GlobalEVProgram, BranchPreferenceProgram, PairwiseDeltaProgram}
    BY DEF Programs, Program
  <2>. QED  BY <2>1, <2>2
<1>5. method = "pipeline" => ~Program.resumes
  BY DEF Programs, Program, CloneProgram, PipelineProgram
<1>6. method \in {"bc", "pipeline", "awbc", "offline_q", "iql", "action_risk", "global_ev",
                  "branch_preference", "pairwise_delta"}
  BY <1>1 DEF Programs
<1>. QED  BY <1>2, <1>3, <1>4, <1>5, <1>6 DEF Clones, TwoNetworks

(* The highest number of the checkpoints that lie in the directory.          *)
LEMMA LatestIsSaved ==
    ASSUME Saved # {}
    PROVE  /\ Latest \in Saved
           /\ \A j \in Saved : j <= Latest
<1>1. MaxEpoch \in Nat
  BY TrainingAssumption
<1>. DEFINE T == {MaxEpoch - k : k \in Saved}
<1>2. T \subseteq Nat /\ T # {}
  BY <1>1 DEF Saved
<1>3. PICK x \in T : \A y \in T : ~ (<<y, x>> \in OpToRel(<, Nat))
  BY <1>2, WFMin, NatLessThanWellFounded
<1>4. PICK k \in Saved : x = MaxEpoch - k
  BY <1>3
<1>5. ASSUME NEW j \in Saved PROVE j <= k
  <2>1. MaxEpoch - j \in T /\ MaxEpoch - j \in Nat /\ x \in Nat
    BY <1>2, <1>3
  <2>2. ~ (MaxEpoch - j < x)
    BY <1>3, <2>1 DEF OpToRel
  <2>. QED  BY <1>1, <1>4, <2>1, <2>2 DEF Saved
<1>. QED  BY <1>5 DEF Latest

(* The remainder goes up by one with every step, or the interval is full.    *)
LEMMA RemainderOfNext ==
    ASSUME NEW n \in Nat, NEW s \in Nat \ {0}
    PROVE  /\ n % s \in 0..(s - 1)
           /\ (n + 1) % s = 0 \/ (n + 1) % s = (n % s) + 1
  OBVIOUS

LEMMA YoungerThanInterval ==
    ASSUME NEW a \in Nat, NEW b \in Nat, NEW s \in Nat \ {0}, a - b <= a % s
    PROVE  a - b < s
<1>1. a % s \in 0..(s - 1)
  BY RemainderOfNext
<1>. DEFINE r == a % s
<1>. HIDE DEF r
<1>2. r \in 0..(s - 1) /\ a - b <= r
  BY <1>1 DEF r
<1>. QED  BY <1>2

LEMMA NoneOlder ==
    ASSUME NEW n \in Nat, NEW s \in Nat \ {0}
    PROVE  n - n <= n % s
<1>1. n % s \in 0..(s - 1)
  BY RemainderOfNext
<1>. DEFINE r == n % s
<1>. HIDE DEF r
<1>2. r \in 0..(s - 1)
  BY <1>1 DEF r
<1>3. n - n <= r
  BY <1>2
<1>. QED  BY <1>3 DEF r

LEMMA OneOlder ==
    ASSUME NEW a \in Int, NEW b \in Int, NEW r \in Int, a - b <= r
    PROVE  (a + 1) - b <= r + 1
  OBVIOUS

(* Going on from some weights.                                               *)
LEMMA BeforeOnward ==
    ASSUME NEW w \in Weights, NEW u \in Weights, Before(w, u), NEW e \in Steps
    PROVE  /\ Before(w, [u EXCEPT !.steps = Append(@, e)])
           /\ Before(u, u)
           /\ Len(w.steps) <= Len(u.steps)
<1>1. /\ w.steps \in Seq(Steps) /\ u.steps \in Seq(Steps)
      /\ w.origin = u.origin /\ Len(w.steps) <= Len(u.steps)
      /\ SubSeq(w.steps, 1, Len(w.steps)) = SubSeq(u.steps, 1, Len(w.steps))
  BY DEF Weights, Steps, Before, IsPrefix
<1>2. SubSeq(Append(u.steps, e), 1, Len(w.steps)) = SubSeq(u.steps, 1, Len(w.steps))
  BY <1>1
<1>. QED  BY <1>1, <1>2 DEF Before, IsPrefix, Weights, Steps
-----------------------------------------------------------------------------
LEMMA TrainerTyped ==
    ASSUME TypeInv, trainer.at # "none"
    PROVE  /\ trainer \in Trainers
           /\ IsArgs(trainer.args)
           /\ trainer.weights \in Weights /\ trainer.weights.steps \in Seq(Steps)
           /\ MaxEpoch \in Nat /\ StepsPerEpoch \in Nat \ {0} /\ SyncEvery \in Nat \ {0}
<1>1. trainer \in Trainers
  BY DEF TypeInv, Idle
<1>. QED  BY <1>1, TrainingAssumption DEF Trainers, Weights, Steps

LEMMA StepsTyped ==
    ASSUME NEW s \in Seq(Steps)
    PROVE  \A i \in DOMAIN s : s[i] \in Steps /\ s[i].start \in Nat
<1>1. \A i \in DOMAIN s : s[i] \in Steps
  OBVIOUS
<1>. QED  BY <1>1 DEF Steps

LEMMA AppendFacts ==
    ASSUME NEW s \in Seq(Steps), NEW e \in Steps
    PROVE  /\ Append(s, e) \in Seq(Steps) /\ Len(s) \in Nat
           /\ Len(Append(s, e)) = Len(s) + 1
           /\ Append(s, e)[Len(s) + 1] = e
           /\ \A i \in 1..Len(s) : Append(s, e)[i] = s[i]
           /\ DOMAIN Append(s, e) = 1..(Len(s) + 1)
  OBVIOUS

LEMMA SavedTyped ==
    ASSUME TypeInv, NEW k \in Saved
    PROVE  /\ files[k] \in Checkpoints /\ files[k].weights \in Weights
           /\ files[k].weights.steps \in Seq(Steps) /\ files[k].by \in Nat /\ k \in 1..MaxEpoch
  BY DEF TypeInv, Saved, Checkpoints, Weights, Steps

LEMMA InitCheckpoint ==
    ASSUME TrainInit
    PROVE  CheckpointInv
<1>1. None \notin Checkpoints /\ MaxEpoch \in Nat /\ 1 \in DOMAIN Episodes
  BY TrainingAssumption, LossAssumption
<1>2. trainer.at = "none" /\ told.end = None
  BY DEF TrainInit, Idle
<1>3. Saved = {}
  BY DEF TrainInit, Saved
<1>4. TypeInv
  BY <1>1, <1>2 DEF TrainInit, TypeInv
<1>. QED  BY <1>2, <1>3, <1>4
          DEF CheckpointInv, FilesInv, WeightsInv, TargetInv, ToldInv, Running

(* What a start begins with is in the files of the runs before it.           *)
LEMMA StartCheckpoint ==
    ASSUME CheckpointInv, NEW args \in TrainerArgs, NEW v \in DOMAIN Episodes,
           Accepts(args, v), StartWith(args, v), version' = v,
           method = "pipeline" => args.patience = None
    PROVE  CheckpointInv'
<1>. USE DEF CheckpointInv
<1>1. /\ MaxEpoch \in Nat /\ StepsPerEpoch \in Nat \ {0} /\ SyncEvery \in Nat \ {0}
      /\ IsArgs(args) /\ starts \in Nat /\ method \in Methods
  BY TrainingAssumption DEF TypeInv
<1>. DEFINE e == ResumedEpoch(args)
            W == StartWeights(args)
<1>2. /\ e \in 0..MaxEpoch /\ W \in Weights /\ W.steps \in Seq(Steps)
      /\ Len(W.steps) = e * StepsPerEpoch /\ Sorted(W.steps)
      /\ \A i \in DOMAIN W.steps : W.steps[i].start <= starts
      /\ e > 0 => files[e] # None /\ files[e].weights = W
  <2>1. CASE e = 0
    <3>1. W = NewWeights(args) /\ W.steps = <<>>
      BY <2>1 DEF StartWeights, NewWeights
    <3>2. W \in Weights /\ W.steps \in Seq(Steps)
      BY <1>1, <3>1 DEF NewWeights, Weights, Steps
    <3>. QED  BY <1>1, <2>1, <3>1, <3>2 DEF Sorted
  <2>2. CASE e # 0
    <3>1. Saved # {} /\ e = Latest /\ Latest \in Saved /\ W = files[Latest].weights
      BY <2>2, LatestIsSaved DEF ResumedEpoch, StartWeights
    <3>2. /\ e \in 1..MaxEpoch /\ W \in Weights /\ W.steps \in Seq(Steps)
          /\ files[Latest].by \in Nat /\ files[e] # None
      BY <3>1, SavedTyped DEF Saved
    <3>3. /\ Len(W.steps) = e * StepsPerEpoch /\ Sorted(W.steps)
          /\ files[Latest].by <= starts
          /\ \A i \in DOMAIN W.steps : W.steps[i].start <= files[Latest].by
      BY <3>1 DEF FilesInv
    <3>4. \A i \in DOMAIN W.steps : W.steps[i].start \in Nat
      BY <3>2, StepsTyped
    <3>5. \A i \in DOMAIN W.steps : W.steps[i].start <= starts
      <4>. HIDE DEF W
      <4>. QED  BY <1>1, <3>1, <3>2, <3>3, <3>4
    <3>. QED  BY <1>1, <3>1, <3>2, <3>3, <3>5
  <2>. QED  BY <2>1, <2>2
<1>. HIDE DEF e, W
<1>3. /\ trainer'.at = (IF e < args.epochs THEN "steps" ELSE "finish")
      /\ trainer'.args = args /\ trainer'.version = v /\ trainer'.step = 0
      /\ trainer'.from = e /\ trainer'.epoch = e /\ trainer'.weights = W /\ trainer'.target = {W}
      /\ trainer'.stopped = FALSE
      /\ starts' = starts + 1 /\ UNCHANGED <<method, files, bestFile, told>>
  BY DEF StartWith, e, W, StartTarget
<1>4. trainer' \in Trainers
  BY <1>1, <1>2 DEF StartWith, e, W, StartTarget, Trainers, Infinite
<1>5. TypeInv'
  BY <1>1, <1>3, <1>4 DEF TypeInv
<1>6. FilesInv'
  <2>1. Saved' = Saved
    BY <1>3 DEF Saved
  <2>. QED  BY <1>1, <1>3, <2>1, SavedTyped DEF FilesInv, Sorted
<1>7. /\ Program' = Program /\ (Clones <=> Clones') /\ (TwoNetworks <=> TwoNetworks')
      /\ (Program.resumes <=> Program'.resumes)
  BY <1>3 DEF Program, Clones, TwoNetworks
<1>8. ~Program.resumes => ~args.resume /\ e = 0
  BY DEF Accepts, e, ResumedEpoch
<1>9. WeightsInv'
  <2>1. Len(W.steps) = e * StepsPerEpoch + 0
    BY <1>1, <1>2
  <2>2. \A i \in DOMAIN W.steps : W.steps[i].start <= starts + 1
    BY <1>1, <1>2, StepsTyped
  <2>3. told.end # None => told.end.by < starts + 1
    BY <1>1 DEF TypeInv
  <2>4. args.epochs \in 1..MaxEpoch
    BY <1>1 DEF IsArgs
  <2>. QED  BY <1>1, <1>2, <1>3, <1>7, <1>8, <2>1, <2>2, <2>3, <2>4 DEF WeightsInv
<1>10. TargetInv'
  <2>1. Before(W, W)
    BY <1>2 DEF Before, IsPrefix
  <2>2. Len(W.steps) - Len(W.steps) <= Len(W.steps) % SyncEvery
    BY <1>1, <1>2, RemainderOfNext
  <2>. QED  BY <1>3, <2>1, <2>2 DEF TargetInv
<1>11. ToldInv'
  BY <1>3 DEF ToldInv
<1>. QED  BY <1>5, <1>6, <1>9, <1>10, <1>11

LEMMA StepCheckpoint ==
    ASSUME CheckpointInv, TrainStep
    PROVE  CheckpointInv'
<1>. USE DEF CheckpointInv
<1>1. /\ trainer.at = "steps" /\ trainer.step < StepsPerEpoch /\ Running
      /\ UNCHANGED <<method, version, files, bestFile, told, starts>>
  BY DEF TrainStep, Running
<1>2. /\ trainer \in Trainers /\ trainer.weights \in Weights /\ trainer.weights.steps \in Seq(Steps)
      /\ StepsPerEpoch \in Nat \ {0} /\ SyncEvery \in Nat \ {0} /\ starts \in Nat
      /\ trainer.step \in 0..StepsPerEpoch /\ trainer.epoch \in Nat
  BY <1>1, TrainerTyped DEF Trainers, TypeInv
<1>. DEFINE W == trainer.weights.steps
            mark == [start |-> starts, version |-> trainer.version]
            T == IF TwoNetworks /\ (trainer.epoch * StepsPerEpoch + trainer.step + 1) % SyncEvery = 0
                 THEN Synced(Stepped) ELSE trainer.target
<1>3. /\ mark \in Steps /\ Stepped = [trainer.weights EXCEPT !.steps = Append(@, mark)]
      /\ Stepped \in Weights /\ Stepped.steps = Append(W, mark)
      /\ Len(Stepped.steps) = Len(W) + 1 /\ Stepped.steps \in Seq(Steps)
      /\ Stepped.steps[Len(W) + 1] = mark
      /\ \A i \in 1..Len(W) : Stepped.steps[i] = W[i]
  <2>1. mark \in Steps
    BY <1>2 DEF Steps, Trainers
  <2>2. Stepped = [trainer.weights EXCEPT !.steps = Append(@, mark)]
    BY DEF Stepped
  <2>. HIDE DEF mark
  <2>3. Append(W, mark) \in Seq(Steps)
    BY <1>2, <2>1
  <2>4. Stepped \in Weights /\ Stepped.steps = Append(W, mark)
    BY <1>2, <2>2, <2>3 DEF Weights, Steps
  <2>. QED  BY <1>2, <2>1, <2>2, <2>4, AppendFacts
<1>4. Len(W) = trainer.epoch * StepsPerEpoch + trainer.step
  BY <1>1 DEF WeightsInv
<1>5. /\ trainer' = [trainer EXCEPT !.step = @ + 1, !.weights = Stepped, !.target = T]
      /\ T \in SUBSET Weights
  BY <1>2, <1>3 DEF TrainStep, Synced, Trainers
<1>. HIDE DEF T, mark
<1>6. /\ trainer' \in Trainers
      /\ trainer'.at = "steps" /\ trainer'.step = trainer.step + 1
      /\ trainer'.weights = Stepped /\ trainer'.target = T
      /\ trainer'.epoch = trainer.epoch /\ trainer'.args = trainer.args
      /\ trainer'.from = trainer.from /\ trainer'.stopped = trainer.stopped
  <2>1. trainer.step + 1 \in 0..StepsPerEpoch
    BY <1>1, <1>2
  <2>. QED  BY <1>1, <1>2, <1>3, <1>5, <2>1 DEF Trainers
<1>7. /\ Program' = Program /\ (Clones <=> Clones') /\ (TwoNetworks <=> TwoNetworks')
      /\ Saved' = Saved /\ Latest' = Latest
  BY <1>1 DEF Program, Clones, TwoNetworks, Saved, Latest
<1>8. TypeInv'
  BY <1>1, <1>6 DEF TypeInv
<1>9. FilesInv'
  BY <1>1, <1>7 DEF FilesInv, Sorted
<1>10. /\ Sorted(Stepped.steps)
       /\ \A i \in DOMAIN Stepped.steps : Stepped.steps[i].start <= starts
       /\ Stepped.steps[Len(Stepped.steps)].start = starts
  <2>1. Sorted(W) /\ \A i \in DOMAIN W : W[i].start <= starts
    BY <1>1 DEF WeightsInv
  <2>2. mark.start = starts
    BY DEF mark
  <2>3. \A i \in 1..(Len(W) + 1) : Stepped.steps[i].start <= starts
    BY <1>2, <1>3, <2>1, <2>2
  <2>4. \A i \in 2..(Len(W) + 1) : Stepped.steps[i - 1].start <= Stepped.steps[i].start
    <3>1. TAKE i \in 2..(Len(W) + 1)
    <3>2. CASE i <= Len(W)
      BY <1>2, <1>3, <2>1, <3>2 DEF Sorted
    <3>3. CASE i = Len(W) + 1
      <4>1. Len(W) \in 1..Len(W) /\ i - 1 = Len(W)
        BY <1>2, <3>3
      <4>2. Stepped.steps[i - 1] = W[Len(W)] /\ W[Len(W)].start <= starts
        BY <1>2, <1>3, <2>1, <4>1
      <4>. QED  BY <1>3, <2>2, <3>3, <4>2
    <3>. QED  BY <1>2, <3>2, <3>3
  <2>5. DOMAIN Stepped.steps = 1..(Len(W) + 1)
    BY <1>3
  <2>. QED  BY <1>3, <2>2, <2>3, <2>4, <2>5 DEF Sorted
<1>11. WeightsInv'
  <2>1. /\ trainer.epoch < trainer.args.epochs
        /\ ~Program.resumes => trainer.from = 0 /\ ~trainer.args.resume
        /\ ~Clones => ~trainer.stopped
        /\ trainer.args.patience = None => ~trainer.stopped
        /\ method = "pipeline" => trainer.args.patience = None
        /\ told.end # None => told.end.by < starts
    BY <1>1 DEF WeightsInv
  <2>2. Len(Stepped.steps) = trainer.epoch * StepsPerEpoch + (trainer.step + 1)
    BY <1>2, <1>3, <1>4
  <2>. QED  BY <1>1, <1>2, <1>6, <1>7, <1>10, <2>1, <2>2 DEF WeightsInv
<1>12. TargetInv'
  <2>. SUFFICES ASSUME TwoNetworks, NEW w \in T
       PROVE  /\ Before(w, Stepped)
              /\ Program.target = "copy" =>
                     Len(Stepped.steps) - Len(w.steps) <= Len(Stepped.steps) % SyncEvery
    BY <1>6, <1>7 DEF TargetInv
  <2>1. w \in trainer.target \/ w = Stepped
    BY DEF T, Synced
  <2>2. w \in Weights /\ w.steps \in Seq(Steps)
    BY <1>5 DEF Weights, Steps
  <2>3. CASE w = Stepped
    <3>1. Before(Stepped, Stepped)
      BY <1>3 DEF Before, IsPrefix
    <3>. QED  BY <1>2, <1>3, <2>3, <3>1, RemainderOfNext
  <2>4. CASE w # Stepped
    <3>1. w \in trainer.target
      BY <2>1, <2>4
    <3>2. /\ Before(w, trainer.weights)
          /\ Program.target = "copy" => Len(W) - Len(w.steps) <= Len(W) % SyncEvery
      BY <1>1, <3>1 DEF TargetInv
    <3>3. Before(w, Stepped)
      BY <1>2, <1>3, <2>2, <3>2, BeforeOnward
    <3>4. Program.target = "copy" => (Len(W) + 1) % SyncEvery # 0
      BY <1>4, <2>4 DEF T, Synced
    <3>5. (Len(W) + 1) % SyncEvery = 0 \/ (Len(W) + 1) % SyncEvery = (Len(W) % SyncEvery) + 1
      <4>1. Len(W) \in Nat
        BY <1>2
      <4>. QED  BY <1>2, <4>1, RemainderOfNext
    <3>6. Len(W) % SyncEvery \in Int /\ Len(W) \in Nat /\ Len(w.steps) \in Nat
      <4>1. Len(W) \in Nat /\ Len(w.steps) \in Nat
        BY <1>2, <2>2
      <4>2. Len(W) % SyncEvery \in 0..(SyncEvery - 1)
        BY <1>2, <4>1, RemainderOfNext
      <4>. QED  BY <1>2, <4>1, <4>2
    <3>7. Program.target = "copy" => Len(Stepped.steps) % SyncEvery = (Len(W) % SyncEvery) + 1
      BY <1>3, <3>4, <3>5
    <3>8. Program.target = "copy" =>
             Len(Stepped.steps) - Len(w.steps) <= Len(Stepped.steps) % SyncEvery
      <4>. SUFFICES ASSUME Program.target = "copy"
           PROVE  Len(Stepped.steps) - Len(w.steps) <= Len(Stepped.steps) % SyncEvery
        OBVIOUS
      <4>1. Len(Stepped.steps) = Len(W) + 1 /\ Len(W) \in Int /\ Len(w.steps) \in Int
        BY <1>3, <3>6
      <4>2. Len(W) - Len(w.steps) <= Len(W) % SyncEvery /\ Len(W) % SyncEvery \in Int
        BY <3>2, <3>6
      <4>3. (Len(W) + 1) - Len(w.steps) <= (Len(W) % SyncEvery) + 1
        BY <4>1, <4>2, OneOlder
      <4>. QED  BY <3>7, <4>1, <4>3
    <3>. QED  BY <3>3, <3>8
  <2>. QED  BY <2>3, <2>4
<1>13. ToldInv'
  BY <1>1, <1>6 DEF ToldInv
<1>. QED  BY <1>8, <1>9, <1>11, <1>12, <1>13

LEMMA SaveCheckpoint ==
    ASSUME CheckpointInv, SaveEpoch
    PROVE  CheckpointInv'
<1>. USE DEF CheckpointInv
<1>. DEFINE k == trainer.epoch + 1
            W == trainer.weights.steps
            T == IF TwoNetworks THEN Synced(trainer.weights) ELSE trainer.target
            at == IF Clones THEN "select" ELSE Onward(k, FALSE)
<1>1. /\ trainer.at = "steps" /\ trainer.step = StepsPerEpoch /\ Running
      /\ UNCHANGED <<method, version, bestFile, told, starts>>
  BY DEF SaveEpoch, Running
<1>2. /\ trainer \in Trainers /\ trainer.weights \in Weights /\ W \in Seq(Steps)
      /\ StepsPerEpoch \in Nat \ {0} /\ SyncEvery \in Nat \ {0} /\ starts \in Nat
      /\ trainer.epoch \in Nat /\ MaxEpoch \in Nat /\ IsArgs(trainer.args)
  BY <1>1, TrainerTyped DEF Trainers, TypeInv
<1>3. PICK loss \in Losses \cup {None} :
          /\ files' = [files EXCEPT ![k] = [weights |-> trainer.weights, loss |-> loss, by |-> starts]]
          /\ trainer' = [trainer EXCEPT !.step = 0, !.epoch = k, !.target = T,
                                       !.losses = Append(@, loss), !.at = at]
  BY DEF SaveEpoch
<1>4. /\ trainer.epoch < trainer.args.epochs /\ k \in 1..MaxEpoch /\ trainer.args.epochs \in Nat
      /\ k <= trainer.args.epochs
  <2>1. trainer.args.epochs \in 1..MaxEpoch
    BY <1>2 DEF IsArgs
  <2>2. trainer.epoch < trainer.args.epochs
    BY <1>1 DEF WeightsInv
  <2>. QED  BY <1>2, <2>1, <2>2
<1>5. /\ T \in SUBSET Weights
      /\ \A w \in T : w \in trainer.target \/ w = trainer.weights
  BY <1>2 DEF Synced, Trainers
<1>6. /\ at \in {"steps", "select", "finish"} /\ (at = "select" => Clones)
      /\ at = "steps" => k < trainer.args.epochs
      /\ at = "finish" => k = trainer.args.epochs
  BY <1>4 DEF Onward
<1>7. [weights |-> trainer.weights, loss |-> loss, by |-> starts] \in Checkpoints
  BY <1>2 DEF Checkpoints
<1>. HIDE DEF T, at, k
<1>8. /\ trainer' \in Trainers
      /\ trainer'.at = at /\ trainer'.step = 0 /\ trainer'.epoch = k
      /\ trainer'.weights = trainer.weights /\ trainer'.target = T
      /\ trainer'.args = trainer.args
      /\ trainer'.from = trainer.from /\ trainer'.stopped = trainer.stopped
      /\ trainer'.losses # <<>>
  <2>1. k \in 0..MaxEpoch /\ 0 \in 0..StepsPerEpoch
    BY <1>2, <1>4
  <2>2. Append(trainer.losses, loss) \in Seq(Losses \cup {None}) /\ Append(trainer.losses, loss) # <<>>
    BY <1>2 DEF Trainers
  <2>. QED  BY <1>2, <1>3, <1>5, <1>6, <2>1, <2>2 DEF Trainers
<1>9. /\ files' \in [1..MaxEpoch -> Checkpoints \cup {None}]
      /\ files'[k].weights = trainer.weights /\ files'[k].by = starts /\ files'[k] # None
      /\ \A j \in 1..MaxEpoch : j # k => files'[j] = files[j]
      /\ Saved' = Saved \cup {k}
  <2>1. files \in [1..MaxEpoch -> Checkpoints \cup {None}] /\ None \notin Checkpoints
    BY LossAssumption DEF TypeInv
  <2>. QED  BY <1>3, <1>4, <1>7, <2>1 DEF Saved
<1>10. /\ Program' = Program /\ (Clones <=> Clones') /\ (TwoNetworks <=> TwoNetworks')
  BY <1>1 DEF Program, Clones, TwoNetworks
<1>11. /\ Len(W) = trainer.epoch * StepsPerEpoch + StepsPerEpoch
       /\ Sorted(W) /\ \A i \in DOMAIN W : W[i].start <= starts
       /\ W[Len(W)].start = starts
       /\ ~Program.resumes => trainer.from = 0 /\ ~trainer.args.resume
       /\ ~Clones => ~trainer.stopped
       /\ trainer.args.patience = None => ~trainer.stopped
       /\ method = "pipeline" => trainer.args.patience = None
       /\ told.end # None => told.end.by < starts
  BY <1>1, <1>2 DEF WeightsInv
<1>12. Len(W) = k * StepsPerEpoch
  BY <1>2, <1>11 DEF k
<1>13. TypeInv'
  BY <1>1, <1>8, <1>9 DEF TypeInv
<1>14. FilesInv'
  <2>. SUFFICES ASSUME NEW j \in Saved'
       PROVE  LET steps == files'[j].weights.steps
              IN  /\ Len(steps) = j * StepsPerEpoch
                  /\ Sorted(steps)
                  /\ steps[Len(steps)].start = files'[j].by /\ files'[j].by <= starts'
                  /\ \A i \in DOMAIN steps : steps[i].start <= files'[j].by
    BY DEF FilesInv, Sorted
  <2>1. CASE j = k
    <3>1. files'[j].weights.steps = W /\ files'[j].by = starts /\ starts' = starts
      BY <1>1, <1>9, <2>1
    <3>. QED  BY <1>2, <1>11, <1>12, <2>1, <3>1
  <2>2. CASE j # k
    <3>1. j \in Saved /\ files'[j] = files[j]
      BY <1>9, <2>2 DEF Saved
    <3>. QED  BY <1>1, <3>1 DEF FilesInv
  <2>. QED  BY <2>1, <2>2
<1>15. WeightsInv'
  <2>1. Len(W) = k * StepsPerEpoch + 0 /\ k > 0
    BY <1>2, <1>4, <1>12
  <2>. QED  BY <1>1, <1>4, <1>6, <1>8, <1>9, <1>10, <1>11, <2>1 DEF WeightsInv
<1>16. TargetInv'
  <2>. SUFFICES ASSUME TwoNetworks, NEW w \in T
       PROVE  /\ Before(w, trainer.weights)
              /\ Program.target = "copy" => Len(W) - Len(w.steps) <= Len(W) % SyncEvery
    BY <1>8, <1>10 DEF TargetInv
  <2>1. CASE w = trainer.weights
    <3>1. Before(w, w)
      BY <2>1 DEF Before, IsPrefix
    <3>2. Len(W) \in Nat
      BY <1>2
    <3>3. Len(W) - Len(W) <= Len(W) % SyncEvery
      BY <1>2, <3>2, NoneOlder
    <3>. QED  BY <2>1, <3>1, <3>3
  <2>2. CASE w \in trainer.target
    BY <1>1, <2>2 DEF TargetInv
  <2>. QED  BY <1>5, <2>1, <2>2
<1>17. ToldInv'
  <2>1. ~ (trainer'.at = "done")
    BY <1>6, <1>8
  <2>2. ASSUME told.end # None
        PROVE  files'[told.end.final].weights = told.end.weights
               \/ files'[told.end.final].by > told.end.by
    <3>1. told.end.final \in 1..MaxEpoch /\ told.end.by \in Nat /\ told.end.by < starts
      BY <1>2, <1>11, <2>2 DEF TypeInv
    <3>2. CASE told.end.final = k
      BY <1>2, <1>9, <3>1, <3>2
    <3>3. CASE told.end.final # k
      BY <1>9, <2>2, <3>1, <3>3 DEF ToldInv
    <3>. QED  BY <3>2, <3>3
  <2>. QED  BY <1>1, <2>1, <2>2 DEF ToldInv
<1>. QED  BY <1>13, <1>14, <1>15, <1>16, <1>17

(* What is left to show of the steps after an epoch, which train nothing.    *)
LEMMA KeptCheckpoint ==
    ASSUME CheckpointInv, Running, trainer.at # "steps", UNCHANGED <<method, version, files, starts>>,
           trainer' \in Trainers,
           trainer'.args = trainer.args, trainer'.epoch = trainer.epoch, trainer'.step = trainer.step,
           trainer'.from = trainer.from, trainer'.weights = trainer.weights,
           trainer'.target = trainer.target,
           trainer'.at = "steps" => trainer.epoch < trainer.args.epochs,
           trainer'.at \in {"finish", "evaluate"} /\ ~trainer'.stopped /\ ~Program.resumes =>
               trainer.epoch = trainer.args.epochs,
           trainer'.stopped => Clones /\ trainer.args.patience # None,
           trainer'.at = "evaluate" => method = "pipeline",
           trainer'.at = "report" => Clones /\ trainer.epoch <= trainer.args.epochs,
           trainer'.at # "select",
           trainer'.at = "done" \/ told'.end = told.end
    PROVE  /\ FilesInv' /\ WeightsInv' /\ TargetInv'
           /\ Saved' = Saved /\ Latest' = Latest
<1>. USE DEF CheckpointInv
<1>1. Saved' = Saved /\ Latest' = Latest
  BY DEF Saved, Latest
<1>2. FilesInv'
  BY <1>1 DEF FilesInv, Sorted
<1>3. /\ Program' = Program /\ (Clones <=> Clones') /\ (TwoNetworks <=> TwoNetworks')
  BY DEF Program, Clones, TwoNetworks
<1>4. TargetInv'
  BY <1>3 DEF TargetInv
<1>5. trainer'.at = "done" => ~Running'
  BY DEF Running
<1>6. WeightsInv'
  BY <1>3, <1>5 DEF WeightsInv
<1>. QED  BY <1>1, <1>2, <1>4, <1>6

LEMMA SelectCheckpoint ==
    ASSUME CheckpointInv, Select
    PROVE  CheckpointInv'
<1>. USE DEF CheckpointInv
<1>1. /\ trainer.at = "select" /\ Running
      /\ UNCHANGED <<method, version, files, told, starts>>
  BY DEF Select, Running
<1>. DEFINE loss == Last(trainer.losses)
            lower == Lower(loss, trainer.bestLoss)
            patient == Lower(loss, trainer.ref - trainer.args.minDelta)
            stale == IF patient THEN 0 ELSE IF loss = None THEN trainer.stale ELSE trainer.stale + 1
            best == IF lower THEN loss ELSE trainer.bestLoss
            at == IF lower THEN trainer.epoch ELSE trainer.bestEpoch
            ref == Reference(loss, lower, patient)
            stop == /\ trainer.args.patience # None
                    /\ trainer.epoch >= trainer.args.minEpochs /\ stale >= trainer.args.patience
<1>2. PICK s \in BOOLEAN :
          /\ s => trainer.args.patience # None
          /\ trainer' = [trainer EXCEPT !.bestLoss = best, !.bestEpoch = at, !.ref = ref,
                                       !.stale = stale, !.stopped = s, !.at = "report"]
  <2>1. PICK s \in BOOLEAN : s <=> stop
    OBVIOUS
  <2>. QED  BY <2>1 DEF Select
<1>3. /\ trainer \in Trainers /\ IsArgs(trainer.args) /\ loss \in Losses \cup {None} /\ Losses \subseteq Nat
      /\ None \notin Nat
  <2>1. /\ trainer \in Trainers /\ IsArgs(trainer.args) /\ Losses \subseteq Nat /\ None \notin Nat
        /\ trainer.losses # <<>>
    BY <1>1, TrainerTyped, LossAssumption DEF WeightsInv
  <2>2. trainer.losses \in Seq(Losses \cup {None})
    BY <2>1 DEF Trainers
  <2>3. Len(trainer.losses) \in 1..Len(trainer.losses)
    BY <2>1, <2>2
  <2>. QED  BY <2>1, <2>2, <2>3 DEF Last
<1>4. trainer.epoch \in 1..MaxEpoch
  <2>1. trainer.epoch \in 0..MaxEpoch /\ trainer.epoch > 0 /\ MaxEpoch \in Nat
    BY <1>1, <1>3, TrainingAssumption DEF WeightsInv, Trainers
  <2>. QED  BY <2>1
<1>5. /\ best \in Nat /\ at \in (1..MaxEpoch) \cup {None} /\ ref \in Nat /\ stale \in Nat
  <2>1. best \in Nat
    BY <1>3 DEF Lower, Trainers
  <2>2. at \in (1..MaxEpoch) \cup {None}
    BY <1>3, <1>4 DEF Trainers
  <2>3. ref \in Nat
    BY <1>3 DEF Lower, Reference, Trainers
  <2>4. stale \in Nat
    <3>1. trainer.stale \in Nat
      BY <1>3 DEF Trainers
    <3>. QED  BY <3>1
  <2>. QED  BY <2>1, <2>2, <2>3, <2>4
<1>. HIDE DEF loss, lower, patient, stale, best, at, ref, stop
<1>6. /\ trainer' \in Trainers
      /\ trainer'.args = trainer.args /\ trainer'.epoch = trainer.epoch /\ trainer'.step = trainer.step
      /\ trainer'.from = trainer.from /\ trainer'.weights = trainer.weights
      /\ trainer'.target = trainer.target /\ trainer'.at = "report" /\ trainer'.stopped = s
  BY <1>2, <1>3, <1>5 DEF Trainers
<1>7. /\ FilesInv' /\ WeightsInv' /\ TargetInv'
      /\ Saved' = Saved /\ Latest' = Latest
  <2>1. Clones /\ trainer.epoch <= trainer.args.epochs
    BY <1>1 DEF WeightsInv
  <2>. QED  BY <1>1, <1>2, <1>6, <2>1, KeptCheckpoint
<1>8. TypeInv'
  BY <1>1, <1>6 DEF TypeInv
<1>9. ToldInv'
  BY <1>1, <1>6 DEF ToldInv
<1>. QED  BY <1>7, <1>8, <1>9

LEMMA ReportCheckpoint ==
    ASSUME CheckpointInv, ReportEpoch
    PROVE  CheckpointInv'
<1>. USE DEF CheckpointInv
<1>. DEFINE at == Onward(trainer.epoch, trainer.stopped)
<1>1. /\ trainer.at = "report" /\ Running
      /\ UNCHANGED <<method, version, files, bestFile, starts>>
      /\ trainer' = [trainer EXCEPT !.at = at]
      /\ \E line : told' = [told EXCEPT !.each = line]
  BY DEF ReportEpoch, Running
<1>2. /\ trainer \in Trainers /\ IsArgs(trainer.args)
      /\ trainer.epoch \in Nat /\ trainer.args.epochs \in Nat
  <2>1. trainer \in Trainers /\ IsArgs(trainer.args) /\ MaxEpoch \in Nat
    BY <1>1, TrainerTyped
  <2>. QED  BY <2>1 DEF Trainers, IsArgs
<1>3. told'.end = told.end /\ DOMAIN told' = DOMAIN told
  BY <1>1 DEF TypeInv
<1>4. at \in {"steps", "finish"}
  BY DEF Onward
<1>5. /\ trainer' \in Trainers /\ trainer'.at = at
      /\ trainer'.args = trainer.args /\ trainer'.epoch = trainer.epoch /\ trainer'.step = trainer.step
      /\ trainer'.from = trainer.from /\ trainer'.weights = trainer.weights
      /\ trainer'.target = trainer.target /\ trainer'.stopped = trainer.stopped
  <2>. HIDE DEF at
  <2>. QED  BY <1>1, <1>2, <1>4 DEF Trainers
<1>6. /\ FilesInv' /\ WeightsInv' /\ TargetInv'
      /\ Saved' = Saved /\ Latest' = Latest
  <2>1. /\ trainer.stopped => Clones /\ trainer.args.patience # None
        /\ Clones
    BY <1>1 DEF WeightsInv
  <2>2. at = "finish" /\ ~trainer.stopped => trainer.epoch = trainer.args.epochs
    BY DEF Onward
  <2>3. at = "steps" => trainer.epoch < trainer.args.epochs
    <3>1. trainer.epoch <= trainer.args.epochs
      BY <1>1 DEF WeightsInv
    <3>. QED  BY <1>2, <3>1 DEF Onward
  <2>. HIDE DEF at
  <2>. QED  BY <1>1, <1>3, <1>4, <1>5, <2>1, <2>2, <2>3, KeptCheckpoint
<1>7. TypeInv'
  BY <1>1, <1>3, <1>5 DEF TypeInv
<1>8. ToldInv'
  BY <1>1, <1>3, <1>4, <1>5 DEF ToldInv
<1>. QED  BY <1>6, <1>7, <1>8

LEMMA FinishCloneCheckpoint ==
    ASSUME CheckpointInv, FinishClone
    PROVE  CheckpointInv'
<1>. USE DEF CheckpointInv
<1>. DEFINE at == IF method = "pipeline" THEN "evaluate" ELSE "done"
<1>1. /\ trainer.at = "finish" /\ Running /\ Clones
      /\ UNCHANGED <<method, version, files, told, starts>>
      /\ trainer' = [trainer EXCEPT !.at = at]
  BY DEF FinishClone, Running
<1>2. trainer \in Trainers
  BY <1>1, TrainerTyped
<1>3. at \in {"evaluate", "done"} /\ (at = "evaluate" <=> method = "pipeline")
  OBVIOUS
<1>. HIDE DEF at
<1>4. /\ trainer' \in Trainers /\ trainer'.at = at
      /\ trainer'.args = trainer.args /\ trainer'.epoch = trainer.epoch /\ trainer'.step = trainer.step
      /\ trainer'.from = trainer.from /\ trainer'.weights = trainer.weights
      /\ trainer'.target = trainer.target /\ trainer'.stopped = trainer.stopped
  BY <1>1, <1>2, <1>3 DEF Trainers
<1>5. /\ FilesInv' /\ WeightsInv' /\ TargetInv'
      /\ Saved' = Saved /\ Latest' = Latest
  <2>1. /\ trainer.stopped => Clones /\ trainer.args.patience # None
        /\ ~trainer.stopped /\ ~Program.resumes => trainer.epoch = trainer.args.epochs
    BY <1>1 DEF WeightsInv
  <2>. QED  BY <1>1, <1>3, <1>4, <2>1, KeptCheckpoint
<1>6. TypeInv'
  BY <1>1, <1>4 DEF TypeInv
<1>7. ToldInv'
  BY <1>1, <1>3, <1>4 DEF ToldInv
<1>. QED  BY <1>5, <1>6, <1>7

(* The last file is of the epoch that the pipeline trained last, unless a    *)
(* run with more epochs left one: then nothing is claimed.                   *)
LEMMA EvaluateCheckpoint ==
    ASSUME CheckpointInv, EvaluateLatest
    PROVE  CheckpointInv'
<1>. USE DEF CheckpointInv
<1>1. /\ trainer.at = "evaluate" /\ Running
      /\ UNCHANGED <<method, version, files, bestFile, starts>>
      /\ trainer' = [trainer EXCEPT !.at = "done"]
      /\ told' = [told EXCEPT !.end = [by |-> starts, final |-> Latest, weights |-> files[Latest].weights]]
  BY DEF EvaluateLatest, Running
<1>2. trainer \in Trainers /\ starts \in Nat
  BY <1>1, TrainerTyped DEF TypeInv
<1>3. /\ method = "pipeline" /\ method \in Methods
      /\ trainer.epoch > 0 /\ trainer.step = 0 /\ ~trainer.stopped
      /\ files[trainer.epoch] # None /\ files[trainer.epoch].weights = trainer.weights
  BY <1>1 DEF WeightsInv, TypeInv
<1>4. trainer.epoch = trainer.args.epochs
  BY <1>1, <1>3, ProgramFacts DEF WeightsInv
<1>5. trainer.epoch \in Saved
  <2>1. trainer.epoch \in 0..MaxEpoch /\ MaxEpoch \in Nat
    BY <1>2, TrainingAssumption DEF Trainers
  <2>. QED  BY <1>3, <2>1 DEF Saved
<1>6. Latest \in Saved
  BY <1>5, LatestIsSaved
<1>7. /\ trainer' \in Trainers /\ trainer'.at = "done"
      /\ trainer'.args = trainer.args /\ trainer'.epoch = trainer.epoch /\ trainer'.step = trainer.step
      /\ trainer'.from = trainer.from /\ trainer'.weights = trainer.weights
      /\ trainer'.target = trainer.target /\ trainer'.stopped = trainer.stopped
  BY <1>1, <1>2 DEF Trainers
<1>8. /\ FilesInv' /\ WeightsInv' /\ TargetInv'
      /\ Saved' = Saved /\ Latest' = Latest
  BY <1>1, <1>3, <1>7, KeptCheckpoint
<1>9. /\ DOMAIN told' = {"each", "end"}
      /\ told'.end = [by |-> starts, final |-> Latest, weights |-> files[Latest].weights]
  BY <1>1 DEF TypeInv
<1>10. TypeInv'
  BY <1>1, <1>2, <1>6, <1>7, <1>9 DEF TypeInv, Saved
<1>11. ToldInv'
  BY <1>1, <1>3, <1>4, <1>7, <1>8, <1>9 DEF ToldInv
<1>. QED  BY <1>8, <1>10, <1>11

LEMMA FinishOfflineCheckpoint ==
    ASSUME CheckpointInv, FinishOffline
    PROVE  CheckpointInv'
<1>. USE DEF CheckpointInv
<1>1. /\ trainer.at = "finish" /\ Running /\ Program.reports = "never"
      /\ UNCHANGED <<method, version, files, bestFile, told, starts>>
      /\ trainer' = [trainer EXCEPT !.at = "done"]
  BY DEF FinishOffline, Running
<1>2. trainer \in Trainers /\ method \in Methods
  BY <1>1, TrainerTyped DEF TypeInv
<1>3. method # "pipeline"
  BY <1>1, <1>2, ProgramFacts
<1>4. /\ trainer' \in Trainers /\ trainer'.at = "done"
      /\ trainer'.args = trainer.args /\ trainer'.epoch = trainer.epoch /\ trainer'.step = trainer.step
      /\ trainer'.from = trainer.from /\ trainer'.weights = trainer.weights
      /\ trainer'.target = trainer.target /\ trainer'.stopped = trainer.stopped
  BY <1>1, <1>2 DEF Trainers
<1>5. /\ FilesInv' /\ WeightsInv' /\ TargetInv'
      /\ Saved' = Saved /\ Latest' = Latest
  <2>1. trainer.stopped => Clones /\ trainer.args.patience # None
    BY <1>1 DEF WeightsInv
  <2>. QED  BY <1>1, <1>4, <2>1, KeptCheckpoint
<1>6. TypeInv'
  BY <1>1, <1>4 DEF TypeInv
<1>7. ToldInv'
  BY <1>1, <1>3, <1>4 DEF ToldInv
<1>. QED  BY <1>5, <1>6, <1>7

(* A program that reports at its end cannot be resumed: it has trained all   *)
(* the epochs that were asked for, and its last file holds its weights.      *)
LEMMA FinishOnceCheckpoint ==
    ASSUME CheckpointInv, FinishOnce
    PROVE  CheckpointInv'
<1>. USE DEF CheckpointInv
<1>1. /\ trainer.at = "finish" /\ Running /\ Program.reports = "end"
      /\ UNCHANGED <<method, version, files, bestFile, starts>>
      /\ trainer' = [trainer EXCEPT !.at = "done"]
      /\ told' = [told EXCEPT !.end = [by |-> starts, final |-> trainer.args.epochs,
                                      weights |-> trainer.weights]]
  BY DEF FinishOnce, Running
<1>2. trainer \in Trainers /\ starts \in Nat /\ method \in Methods /\ IsArgs(trainer.args)
  BY <1>1, TrainerTyped DEF TypeInv
<1>3. ~Program.resumes /\ ~Clones /\ method # "pipeline"
  BY <1>1, <1>2, ProgramFacts
<1>4. /\ ~trainer.stopped /\ trainer.epoch = trainer.args.epochs
      /\ files[trainer.epoch].weights = trainer.weights
  BY <1>1, <1>3 DEF WeightsInv
<1>5. trainer.args.epochs \in 1..MaxEpoch
  BY <1>2 DEF IsArgs
<1>6. /\ trainer' \in Trainers /\ trainer'.at = "done"
      /\ trainer'.args = trainer.args /\ trainer'.epoch = trainer.epoch /\ trainer'.step = trainer.step
      /\ trainer'.from = trainer.from /\ trainer'.weights = trainer.weights
      /\ trainer'.target = trainer.target /\ trainer'.stopped = trainer.stopped
  BY <1>1, <1>2 DEF Trainers
<1>7. /\ FilesInv' /\ WeightsInv' /\ TargetInv'
      /\ Saved' = Saved /\ Latest' = Latest
  BY <1>1, <1>4, <1>6, KeptCheckpoint
<1>8. /\ DOMAIN told' = {"each", "end"}
      /\ told'.end = [by |-> starts, final |-> trainer.args.epochs, weights |-> trainer.weights]
  BY <1>1 DEF TypeInv
<1>9. TypeInv'
  BY <1>1, <1>2, <1>5, <1>6, <1>8 DEF TypeInv
<1>10. ToldInv'
  BY <1>1, <1>3, <1>4, <1>6, <1>8 DEF ToldInv
<1>. QED  BY <1>7, <1>9, <1>10

LEMMA QuietCheckpoint ==
    ASSUME CheckpointInv, KillTrainer \/ Regenerate \/ UNCHANGED trainVars
    PROVE  CheckpointInv'
<1>. USE DEF CheckpointInv
<1>1. /\ UNCHANGED <<method, files, bestFile, told, starts>>
      /\ version' \in DOMAIN Episodes
      /\ \/ trainer' = Idle
         \/ trainer' = trainer
  BY DEF KillTrainer, Regenerate, trainVars, TypeInv
<1>2. /\ Saved' = Saved /\ Latest' = Latest /\ Program' = Program
      /\ (Clones <=> Clones') /\ (TwoNetworks <=> TwoNetworks')
  BY <1>1 DEF Saved, Latest, Program, Clones, TwoNetworks
<1>3. TypeInv'
  BY <1>1 DEF TypeInv
<1>4. FilesInv'
  BY <1>1, <1>2 DEF FilesInv, Sorted
<1>5. CASE trainer' = trainer
  <2>1. WeightsInv'
    BY <1>1, <1>2, <1>5 DEF WeightsInv, Running
  <2>2. TargetInv'
    BY <1>1, <1>2, <1>5 DEF TargetInv, Running
  <2>3. ToldInv'
    BY <1>1, <1>2, <1>5 DEF ToldInv
  <2>. QED  BY <1>3, <1>4, <2>1, <2>2, <2>3
<1>6. CASE trainer' = Idle
  <2>1. trainer'.at = "none" /\ ~Running'
    BY <1>6 DEF Idle, Running
  <2>. QED  BY <1>1, <1>2, <1>3, <1>4, <2>1 DEF WeightsInv, TargetInv, ToldInv
<1>. QED  BY <1>1, <1>5, <1>6

LEMMA NextCheckpoint ==
    ASSUME CheckpointInv, [TrainNext]_trainVars
    PROVE  CheckpointInv'
<1>1. CASE StartTrainer
  <2>1. PICK args \in TrainerArgs :
            /\ method # "pipeline" /\ Accepts(args, version) /\ StartWith(args, version) /\ UNCHANGED version
    BY <1>1 DEF StartTrainer
  <2>2. version \in DOMAIN Episodes
    BY DEF CheckpointInv, TypeInv
  <2>. QED  BY <2>1, <2>2, StartCheckpoint
<1>2. CASE StartPipeline
  <2>1. PICK args \in TrainerArgs, v \in DOMAIN Episodes :
            /\ Accepts(args, v) /\ args.patience = None
            /\ version' = v /\ StartWith(args, v)
    BY <1>2 DEF StartPipeline
  <2>. QED  BY <2>1, StartCheckpoint
<1>. QED  BY <1>1, <1>2, StepCheckpoint, SaveCheckpoint, SelectCheckpoint, ReportCheckpoint,
             FinishCloneCheckpoint, EvaluateCheckpoint, FinishOfflineCheckpoint, FinishOnceCheckpoint,
             QuietCheckpoint DEF TrainNext, AllTrained

(* The files of a directory and the weights in memory belong together. *)
THEOREM CheckpointInvHolds == TrainSpec => []CheckpointInv
  BY InitCheckpoint, NextCheckpoint, PTL DEF TrainSpec

(* Whatever was killed, started over or resumed, for any dataset, number of   *)
(* epochs, steps and starts: every epoch_<k>.pt holds k epochs of training,  *)
(* the target network holds only weights that were trained, and is never a   *)
(* whole interval old, and the report speaks of the file it names            *)
(* (training.py and the scripts that share its loop).                        *)
THEOREM CheckpointsAreSound == TrainSpec => []CheckpointsSound
<1>1. CheckpointInv => CheckpointsSound
  <2>. SUFFICES ASSUME CheckpointInv PROVE CheckpointsSound
    OBVIOUS
  <2>. USE DEF CheckpointInv
  <2>1. \A k \in Saved :
          LET steps == files[k].weights.steps
          IN  /\ Len(steps) = k * StepsPerEpoch
              /\ \A i \in 2..Len(steps) : steps[i - 1].start <= steps[i].start
              /\ Last(steps).start = files[k].by
    BY DEF FilesInv, Sorted, Last
  <2>2. ASSUME Running, TwoNetworks, NEW w \in trainer.target
        PROVE  /\ Before(w, trainer.weights)
               /\ Program.target = "copy" => Len(trainer.weights.steps) - Len(w.steps) < SyncEvery
    <3>1. /\ Before(w, trainer.weights)
          /\ Program.target = "copy" =>
                 Len(trainer.weights.steps) - Len(w.steps) <= Len(trainer.weights.steps) % SyncEvery
      BY <2>2 DEF TargetInv
    <3>2. /\ trainer \in Trainers /\ trainer.weights.steps \in Seq(Steps) /\ SyncEvery \in Nat \ {0}
      BY <2>2, TrainerTyped DEF Running
    <3>3. Len(trainer.weights.steps) \in Nat
      BY <3>2
    <3>4. w.steps \in Seq(Steps)
      BY <3>2 DEF Trainers, Weights, Steps
    <3>5. Len(w.steps) \in Nat
      BY <3>4
    <3>. QED  BY <3>1, <3>2, <3>3, <3>5, YoungerThanInterval
  <2>. QED  BY <2>1, <2>2 DEF ToldInv, CheckpointsSound
<1>. QED  BY <1>1, CheckpointInvHolds, PTL
-----------------------------------------------------------------------------
(* The search of train_bc.                                                   *)
LEMMA BcFacts ==
    ASSUME CheckpointInv, Searches
    PROVE  /\ Clones /\ trainer \in Trainers /\ IsArgs(trainer.args)
           /\ trainer.from \in Nat /\ trainer.epoch \in Nat /\ trainer.stale \in Nat
           /\ trainer.bestLoss \in Nat /\ trainer.ref \in Nat
           /\ trainer.args.patience \in Nat \ {0} /\ trainer.args.minDelta \in Nat
           /\ trainer.args.minEpochs \in Nat /\ trainer.args.epochs \in Nat
           /\ MaxEpoch \in Nat /\ Losses \subseteq Nat /\ None \notin Nat
           /\ method \in Methods
<1>1. /\ trainer \in Trainers /\ IsArgs(trainer.args) /\ MaxEpoch \in Nat
      /\ method \in Methods
  BY TrainerTyped DEF CheckpointInv, TypeInv, Searches
<1>2. Clones
  BY <1>1, ProgramFacts DEF Searches
<1>. QED  BY <1>1, <1>2, LossAssumption DEF Trainers, IsArgs, Searches

LEMMA StartSearch ==
    ASSUME CheckpointInv, NEW args \in TrainerArgs, NEW v, Accepts(args, v), StartWith(args, v)
    PROVE  SearchInv'
<1>. DEFINE e == ResumedEpoch(args)
<1>1. e \in Nat
  BY LatestIsSaved DEF ResumedEpoch, Saved
<1>2. /\ trainer'.args = args /\ trainer'.version = v /\ trainer'.from = e /\ trainer'.epoch = e
      /\ trainer'.losses = <<>> /\ trainer'.bestLoss = Infinite /\ trainer'.ref = Infinite
      /\ trainer'.stale = 0 /\ trainer'.bestEpoch = None /\ trainer'.stopped = FALSE
      /\ trainer'.at \in {"steps", "finish"} /\ method' = method
  BY DEF StartWith
<1>. HIDE DEF e
<1>3. Judged' = 0
  BY <1>2 DEF Judged
<1>4. Searches' => HeldOut(v, args) # {}
  BY <1>2 DEF Accepts, Searches
<1>5. HeldOut(trainer'.version, trainer'.args) = HeldOut(v, args)
  BY <1>2
<1>6. Searches' => LossesInv'
  <2>1. trainer'.losses \in Seq(Losses) /\ Len(trainer'.losses) = 0
    BY <1>2
  <2>. QED  BY <1>1, <1>2, <1>4, <2>1 DEF LossesInv, HeldOut
<1>. QED  BY <1>2, <1>3, <1>6 DEF SearchInv, NothingJudged

LEMMA StepSearch ==
    ASSUME CheckpointInv, SearchInv, TrainStep
    PROVE  SearchInv'
<1>1. trainer.at = "steps" /\ trainer \in Trainers
  BY TrainerTyped DEF TrainStep, CheckpointInv
<1>2. PICK W, T : trainer' = [trainer EXCEPT !.step = @ + 1, !.weights = W, !.target = T]
  BY DEF TrainStep
<1>3. /\ trainer'.at = trainer.at /\ trainer'.args = trainer.args /\ trainer'.version = trainer.version
      /\ trainer'.from = trainer.from /\ trainer'.epoch = trainer.epoch
      /\ trainer'.losses = trainer.losses /\ trainer'.bestLoss = trainer.bestLoss
      /\ trainer'.bestEpoch = trainer.bestEpoch /\ trainer'.ref = trainer.ref
      /\ trainer'.stale = trainer.stale /\ trainer'.stopped = trainer.stopped
      /\ UNCHANGED <<method, files, bestFile, told, starts>>
  BY <1>1, <1>2 DEF Trainers, TrainStep
<1>4. /\ Searches' = Searches /\ Judged' = Judged /\ FirstBest' = FirstBest /\ Compared' = Compared
  BY <1>3 DEF Searches, Judged, FirstBest, Compared
<1>5. LossesInv => LossesInv'
  BY <1>3 DEF LossesInv, HeldOut
<1>6. BestInv => BestInv'
  BY <1>3, <1>4 DEF BestInv
<1>7. PatienceInv => PatienceInv'
  BY <1>3, <1>4 DEF PatienceInv
<1>8. StopInv => StopInv'
  BY <1>3, <1>4 DEF StopInv
<1>. QED  BY <1>3, <1>4, <1>5, <1>6, <1>7, <1>8 DEF SearchInv, NothingJudged

(* A new epoch is measured, and its file is not that of the best.            *)
LEMMA SaveSearch ==
    ASSUME CheckpointInv, SearchInv, SaveEpoch
    PROVE  SearchInv'
<1>. SUFFICES ASSUME Searches' PROVE SearchInv'
  BY DEF SearchInv
<1>. DEFINE k == trainer.epoch + 1
            L == trainer.losses
<1>1. /\ trainer.at = "steps" /\ trainer \in Trainers
      /\ UNCHANGED <<method, version, bestFile, told, starts>>
  BY TrainerTyped DEF SaveEpoch, CheckpointInv
<1>2. PICK loss, T, at, file :
          /\ loss \in IF Clones /\ HeldOut(trainer.version, trainer.args) # {} THEN Losses ELSE {None}
          /\ files' = [files EXCEPT ![k] = file]
          /\ trainer' = [trainer EXCEPT !.step = 0, !.epoch = k, !.target = T,
                                       !.losses = Append(@, loss), !.at = at]
          /\ Clones => at = "select"
  BY DEF SaveEpoch
<1>3. /\ trainer'.at = at /\ trainer'.args = trainer.args /\ trainer'.version = trainer.version
      /\ trainer'.from = trainer.from /\ trainer'.epoch = k
      /\ trainer'.losses = Append(L, loss) /\ trainer'.bestLoss = trainer.bestLoss
      /\ trainer'.bestEpoch = trainer.bestEpoch /\ trainer'.ref = trainer.ref
      /\ trainer'.stale = trainer.stale /\ trainer'.stopped = trainer.stopped
  BY <1>1, <1>2 DEF Trainers
<1>4. Searches
  BY <1>1, <1>3 DEF Searches
<1>5. /\ Clones /\ trainer.from \in Nat /\ trainer.epoch \in Nat /\ trainer.stale \in Nat
      /\ Losses \subseteq Nat /\ None \notin Nat /\ MaxEpoch \in Nat
  BY <1>4, BcFacts
<1>6. /\ LossesInv /\ L \in Seq(Losses) /\ Len(L) \in Nat
      /\ trainer.from + Len(L) = trainer.epoch
  BY <1>4 DEF SearchInv, LossesInv
<1>7. loss \in Losses /\ at = "select"
  BY <1>2, <1>5, <1>6 DEF LossesInv
<1>8. /\ Append(L, loss) \in Seq(Losses) /\ Len(Append(L, loss)) = Len(L) + 1
      /\ \A i \in 1..Len(L) : Append(L, loss)[i] = L[i]
      /\ Append(L, loss) # <<>>
  BY <1>6, <1>7
<1>. HIDE DEF k, L
<1>9. Judged = Len(L) /\ Judged' = Len(L)
  BY <1>1, <1>3, <1>6, <1>7, <1>8 DEF Judged, L
<1>10. FirstBest' = FirstBest /\ Compared' = Compared
  BY <1>3, <1>9 DEF FirstBest, Compared
<1>11. LossesInv'
  <2>1. trainer.from + (Len(L) + 1) = k
    BY <1>5, <1>6 DEF k
  <2>2. HeldOut(trainer'.version, trainer'.args) = HeldOut(trainer.version, trainer.args)
    BY <1>3
  <2>. QED  BY <1>3, <1>6, <1>8, <2>1, <2>2 DEF LossesInv, HeldOut
<1>12. NothingJudged => NothingJudged'
  BY <1>3 DEF NothingJudged
<1>13. ASSUME Judged > 0
       PROVE  BestInv' /\ PatienceInv' /\ StopInv'
  <2>1. BestInv /\ PatienceInv /\ StopInv /\ ~trainer.stopped
    BY <1>1, <1>4, <1>13 DEF SearchInv
  <2>2. FirstBest \in 1..Len(L) /\ Compared \in 1..Len(L)
    BY <1>9, <2>1 DEF BestInv, PatienceInv
  <2>3. BestInv'
    <3>1. trainer.bestEpoch \in 1..MaxEpoch
      BY <1>1, <2>1 DEF BestInv, Trainers
    <3>2. trainer.bestEpoch # k
      BY <1>5, <1>6, <2>2, <3>1 DEF FirstBest, k
    <3>3. files'[trainer.bestEpoch] = files[trainer.bestEpoch]
      BY <1>2, <3>1, <3>2 DEF CheckpointInv, TypeInv
    <3>4. /\ Append(L, loss)[FirstBest] = L[FirstBest]
          /\ \A i \in 1..Len(L) : Append(L, loss)[i] = L[i]
      BY <1>8, <2>2
    <3>. QED  BY <1>1, <1>3, <1>9, <1>10, <2>1, <2>2, <3>3, <3>4 DEF BestInv, L
  <2>4. PatienceInv'
    <3>1. /\ Append(L, loss)[Compared] = L[Compared]
          /\ \A i \in 1..(Compared - 1) : Append(L, loss)[i] = L[i]
          /\ \A i \in (Compared + 1)..Len(L) : Append(L, loss)[i] = L[i]
      BY <1>6, <1>8, <2>2
    <3>. QED  BY <1>3, <1>9, <1>10, <2>1, <3>1 DEF PatienceInv, L
  <2>5. StopInv'
    BY <1>3, <1>7, <2>1 DEF StopInv
  <2>. QED  BY <2>3, <2>4, <2>5
<1>. QED  BY <1>1, <1>3, <1>4, <1>9, <1>11, <1>12, <1>13 DEF SearchInv

(* The epoch just measured is judged: as the best, if it is lower than all   *)
(* before it, and as a sign of progress, if it is lower than the last such   *)
(* one by more than min_delta.                                               *)
LEMMA SelectSearch ==
    ASSUME CheckpointInv, SearchInv, Select
    PROVE  SearchInv'
<1>. SUFFICES ASSUME Searches' PROVE SearchInv'
  BY DEF SearchInv
<1>. DEFINE L == trainer.losses
            loss == Last(L)
            lower == Lower(loss, trainer.bestLoss)
            patient == Lower(loss, trainer.ref - trainer.args.minDelta)
            stale == IF patient THEN 0 ELSE IF loss = None THEN trainer.stale ELSE trainer.stale + 1
            ref == Reference(loss, lower, patient)
            stop == /\ trainer.args.patience # None
                    /\ trainer.epoch >= trainer.args.minEpochs /\ stale >= trainer.args.patience
<1>1. /\ trainer.at = "select" /\ trainer \in Trainers
      /\ UNCHANGED <<method, version, files, told, starts>>
  BY TrainerTyped DEF Select, CheckpointInv
<1>2. /\ bestFile' = IF lower /\ trainer.args.patience # None THEN files[trainer.epoch] ELSE bestFile
      /\ trainer' = [trainer EXCEPT
              !.bestLoss = IF lower THEN loss ELSE @,
              !.bestEpoch = IF lower THEN trainer.epoch ELSE @,
              !.ref = ref, !.stale = stale, !.stopped = stop, !.at = "report"]
  BY DEF Select
<1>. HIDE DEF lower, patient, stale, ref, stop, loss
<1>3. /\ trainer'.at = "report" /\ trainer'.args = trainer.args /\ trainer'.version = trainer.version
      /\ trainer'.from = trainer.from /\ trainer'.epoch = trainer.epoch /\ trainer'.losses = L
      /\ trainer'.bestLoss = IF lower THEN loss ELSE trainer.bestLoss
      /\ trainer'.bestEpoch = IF lower THEN trainer.epoch ELSE trainer.bestEpoch
      /\ trainer'.ref = ref /\ trainer'.stale = stale /\ trainer'.stopped = stop
  BY <1>1, <1>2 DEF Trainers
<1>4. Searches
  BY <1>1, <1>3 DEF Searches
<1>5. /\ trainer.from \in Nat /\ trainer.epoch \in Nat /\ trainer.stale \in Nat
      /\ trainer.bestLoss \in Nat /\ trainer.ref \in Nat
      /\ trainer.args.patience \in Nat \ {0} /\ trainer.args.minDelta \in Nat
      /\ trainer.args.minEpochs \in Nat
      /\ Losses \subseteq Nat /\ None \notin Nat /\ trainer.args \in TrainerArgs
  BY <1>4, BcFacts DEF Trainers
<1>6. /\ LossesInv /\ L \in Seq(Losses) /\ L # <<>>
      /\ trainer.from + Len(L) = trainer.epoch
  BY <1>1, <1>4 DEF SearchInv, LossesInv
<1>. DEFINE n == Len(L)
<1>7. /\ n \in Nat \ {0} /\ loss = L[n] /\ loss \in Losses /\ loss \in Nat /\ loss # None
      /\ \A i \in 1..n : L[i] \in Nat
  <2>1. Len(L) \in Nat \ {0} /\ Len(L) \in 1..Len(L)
    BY <1>6
  <2>2. \A i \in 1..Len(L) : L[i] \in Losses
    BY <1>6
  <2>. QED  BY <1>5, <2>1, <2>2 DEF loss, Last
<1>8. /\ lower <=> loss < trainer.bestLoss
      /\ patient <=> loss < trainer.ref - trainer.args.minDelta
      /\ ref = IF patient THEN loss ELSE trainer.ref
      /\ stale = IF patient THEN 0 ELSE trainer.stale + 1
  BY <1>7 DEF lower, patient, ref, stale, Lower, Reference
<1>. HIDE DEF L, n
<1>9. /\ Judged = n - 1 /\ Judged' = n
  BY <1>1, <1>3 DEF Judged, L, n
<1>10. LossesInv'
  <2>1. HeldOut(trainer'.version, trainer'.args) = HeldOut(trainer.version, trainer.args)
    BY <1>3
  <2>. QED  BY <1>1, <1>3, <1>6, <2>1 DEF LossesInv, HeldOut, L
<1>11. StopInv'
  <2>1. stop <=> trainer.epoch >= trainer.args.minEpochs /\ stale >= trainer.args.patience
    BY <1>5 DEF stop
  <2>2. stale \in Nat
    BY <1>5, <1>8
  <2>. QED  BY <1>3, <1>5, <2>1, <2>2 DEF StopInv
<1>12. CASE n = 1
  <2>1. NothingJudged
    BY <1>4, <1>9, <1>12 DEF SearchInv
  <2>2. loss < Infinite /\ loss < Infinite - trainer.args.minDelta
    BY <1>5, <1>7, LossAssumption DEF Infinite
  <2>3. /\ lower /\ patient /\ ref = loss /\ stale = 0
    BY <1>8, <2>1, <2>2 DEF NothingJudged
  <2>4. FirstBest' = 1 /\ Compared' = 1
    BY <1>3, <1>5, <1>6, <1>9, <1>12, <2>3 DEF FirstBest, Compared, n
  <2>5. BestInv'
    <3>1. bestFile' = files[trainer.epoch] /\ trainer.epoch # None
      BY <1>2, <1>5, <2>3
    <3>. QED  BY <1>1, <1>3, <1>7, <1>9, <1>12, <2>3, <2>4, <3>1 DEF BestInv
  <2>6. PatienceInv'
    BY <1>3, <1>7, <1>9, <1>12, <2>3, <2>4 DEF PatienceInv
  <2>. QED  BY <1>3, <1>9, <1>10, <1>11, <1>12, <2>5, <2>6 DEF SearchInv
<1>13. CASE n > 1
  <2>1. BestInv /\ PatienceInv
    BY <1>4, <1>7, <1>9, <1>13 DEF SearchInv
  <2>2. BestInv'
    <3>1. CASE lower
      <4>1. FirstBest' = n
        BY <1>3, <1>5, <1>6, <3>1 DEF FirstBest, n
      <4>2. \A i \in 1..(n - 1) : L[n] < L[i]
        BY <1>7, <1>8, <1>9, <2>1, <3>1 DEF BestInv, L
      <4>3. bestFile' = files[trainer.epoch] /\ trainer.epoch # None
        BY <1>2, <1>5, <3>1
      <4>. QED  BY <1>1, <1>3, <1>7, <1>9, <3>1, <4>1, <4>2, <4>3 DEF BestInv
    <3>2. CASE ~lower
      <4>1. FirstBest' = FirstBest /\ bestFile' = bestFile /\ trainer'.bestEpoch = trainer.bestEpoch
            /\ trainer'.bestLoss = trainer.bestLoss
        BY <1>2, <1>3, <3>2 DEF FirstBest
      <4>2. /\ FirstBest \in 1..(n - 1) /\ L[FirstBest] \in Nat
            /\ trainer.bestLoss = L[FirstBest] /\ L[FirstBest] <= L[n]
        BY <1>7, <1>8, <1>9, <2>1, <3>2 DEF BestInv, L
      <4>3. \A i \in 1..(n - 1) : L[FirstBest] <= L[i] /\ (i < FirstBest => L[FirstBest] < L[i])
        BY <1>9, <2>1 DEF BestInv, L
      <4>4. \A i \in 1..n : L[FirstBest] <= L[i] /\ (i < FirstBest => L[FirstBest] < L[i])
        BY <1>7, <4>2, <4>3
      <4>. QED  BY <1>1, <1>3, <1>7, <1>9, <2>1, <4>1, <4>2, <4>4 DEF BestInv
    <3>. QED  BY <3>1, <3>2
  <2>3. PatienceInv'
    <3>. DEFINE p == Compared
                d == trainer.args.minDelta
    <3>1. /\ p \in 1..(n - 1) /\ trainer.ref = L[p] /\ p = n - 1 - trainer.stale
          /\ \A i \in 1..(p - 1) : L[p] < L[i]
          /\ \A i \in (p + 1)..(n - 1) : L[i] >= L[p] - d
      BY <1>9, <2>1 DEF PatienceInv, Compared, L
    <3>2. Compared' = n - stale
      BY <1>3, <1>9 DEF Compared
    <3>. HIDE DEF p
    <3>3. CASE patient
      <4>1. Compared' = n /\ ref = L[n]
        BY <1>7, <1>8, <3>2, <3>3
      <4>2. \A i \in 1..(n - 1) : L[n] < L[i]
        <5>1. L[n] < L[p] - d /\ L[p] \in Nat /\ d \in Nat /\ L[n] \in Nat
          BY <1>5, <1>7, <1>8, <3>1, <3>3
        <5>2. ASSUME NEW i \in 1..(n - 1) PROVE L[n] < L[i]
          <6>1. L[i] \in Nat
            BY <1>7
          <6>2. i < p \/ i = p \/ i \in (p + 1)..(n - 1)
            BY <1>7, <3>1
          <6>. QED  BY <1>7, <3>1, <5>1, <6>1, <6>2
        <5>. QED  BY <5>2
      <4>. QED  BY <1>3, <1>7, <1>9, <4>1, <4>2 DEF PatienceInv
    <3>4. CASE ~patient
      <4>1. Compared' = p /\ ref = L[p]
        BY <1>5, <1>7, <1>8, <3>1, <3>2, <3>4
      <4>2. L[n] >= L[p] - d
        BY <1>5, <1>7, <1>8, <3>1, <3>4
      <4>3. \A i \in (p + 1)..n : L[i] >= L[p] - d
        BY <1>7, <3>1, <4>2
      <4>. QED  BY <1>3, <1>7, <1>9, <3>1, <4>1, <4>3 DEF PatienceInv
    <3>. QED  BY <3>3, <3>4
  <2>. QED  BY <1>3, <1>7, <1>9, <1>10, <1>11, <2>2, <2>3 DEF SearchInv
<1>. QED  BY <1>7, <1>12, <1>13

(* Only where the process is, and what it has reported, changes.             *)
OnlyMoved ==
    /\ trainer'.args = trainer.args /\ trainer'.version = trainer.version
    /\ trainer'.from = trainer.from /\ trainer'.epoch = trainer.epoch
    /\ trainer'.losses = trainer.losses /\ trainer'.bestLoss = trainer.bestLoss
    /\ trainer'.bestEpoch = trainer.bestEpoch /\ trainer'.ref = trainer.ref
    /\ trainer'.stale = trainer.stale /\ trainer'.stopped = trainer.stopped
    /\ UNCHANGED <<method, files, starts>>

LEMMA KeptSearch ==
    ASSUME SearchInv, OnlyMoved,
           trainer.at \in {"report", "finish"}, trainer'.at \in {"steps", "finish", "done"},
           bestFile' = bestFile \/ bestFile' = files[trainer.bestEpoch],
           trainer'.at = "steps" => ~trainer.stopped,
           \/ told'.each = [by |-> starts, run |-> trainer.epoch, best |-> trainer.bestEpoch,
                            loss |-> trainer.bestLoss, stopped |-> trainer.stopped]
           \/ trainer.at = "finish" /\ told' = told
    PROVE  SearchInv'
<1>. USE DEF OnlyMoved
<1>1. /\ Searches' = Searches /\ Judged' = Judged /\ FirstBest' = FirstBest /\ Compared' = Compared
  BY DEF Searches, Judged, FirstBest, Compared
<1>2. LossesInv => LossesInv'
  BY DEF LossesInv, HeldOut
<1>3. BestInv => BestInv'
  BY <1>1 DEF BestInv
<1>4. PatienceInv => PatienceInv'
  BY <1>1 DEF PatienceInv
<1>5. StopInv => StopInv'
  <2>1. CASE trainer'.at = "steps"
    BY <2>1 DEF StopInv
  <2>2. CASE trainer'.at \in {"finish", "done"}
    BY <2>2 DEF StopInv
  <2>. QED  BY <2>1, <2>2
<1>. QED  BY <1>1, <1>2, <1>3, <1>4, <1>5 DEF SearchInv, NothingJudged

LEMMA ReportSearch ==
    ASSUME CheckpointInv, SearchInv, ReportEpoch
    PROVE  SearchInv'
<1>1. /\ trainer.at = "report" /\ trainer \in Trainers
      /\ UNCHANGED <<method, version, files, bestFile, starts>>
      /\ trainer' = [trainer EXCEPT !.at = Onward(trainer.epoch, trainer.stopped)]
  BY TrainerTyped DEF ReportEpoch, CheckpointInv
<1>2. told'.each = [by |-> starts, run |-> trainer.epoch, best |-> trainer.bestEpoch,
                    loss |-> trainer.bestLoss, stopped |-> trainer.stopped]
  BY DEF ReportEpoch, CheckpointInv, TypeInv
<1>3. /\ trainer'.at = Onward(trainer.epoch, trainer.stopped)
      /\ OnlyMoved
  BY <1>1 DEF Trainers, OnlyMoved
<1>4. /\ trainer'.at \in {"steps", "finish", "done"}
      /\ trainer'.at = "steps" => ~trainer.stopped
  BY <1>3 DEF Onward
<1>. QED  BY <1>1, <1>2, <1>3, <1>4, KeptSearch

LEMMA FinishSearch ==
    ASSUME CheckpointInv, SearchInv, FinishClone
    PROVE  SearchInv'
<1>. SUFFICES ASSUME Searches' PROVE SearchInv'
  BY DEF SearchInv
<1>1. /\ trainer.at = "finish" /\ trainer \in Trainers
      /\ UNCHANGED <<method, version, files, told, starts>>
      /\ method = "bc" => trainer' = [trainer EXCEPT !.at = "done"]
      /\ \/ bestFile' = bestFile
         \/ bestFile' = files[trainer.bestEpoch]
  BY TrainerTyped DEF FinishClone, CheckpointInv
<1>2. method = "bc"
  BY <1>1 DEF Searches
<1>3. trainer'.at = "done" /\ OnlyMoved
  BY <1>1, <1>2 DEF Trainers, OnlyMoved
<1>. QED  BY <1>1, <1>3, KeptSearch

LEMMA OtherSearch ==
    ASSUME CheckpointInv, SearchInv,
           EvaluateLatest \/ FinishOffline \/ FinishOnce \/ KillTrainer \/ Regenerate \/ UNCHANGED trainVars
    PROVE  SearchInv'
<1>1. CASE EvaluateLatest
  <2>1. method = "pipeline" /\ method' = method
    BY <1>1 DEF EvaluateLatest, CheckpointInv, WeightsInv, Running
  <2>. QED  BY <2>1 DEF SearchInv, Searches
<1>2. CASE FinishOffline \/ FinishOnce
  <2>1. method \in Methods /\ method' = method /\ Program.reports # "each"
    BY <1>2 DEF FinishOffline, FinishOnce, CheckpointInv, TypeInv
  <2>2. method # "bc"
    BY <2>1, ProgramFacts
  <2>. QED  BY <2>1, <2>2 DEF SearchInv, Searches
<1>3. CASE KillTrainer
  BY <1>3 DEF KillTrainer, Idle, SearchInv, Searches
<1>4. CASE Regenerate \/ UNCHANGED trainVars
  <2>1. UNCHANGED <<method, files, bestFile, told, trainer, starts>>
    BY <1>4 DEF Regenerate, trainVars
  <2>. QED  BY <2>1 DEF SearchInv, Searches, Judged, FirstBest, Compared, LossesInv, HeldOut,
                       NothingJudged, BestInv, PatienceInv, StopInv
<1>. QED  BY <1>1, <1>2, <1>3, <1>4

LEMMA InitSearch ==
    ASSUME TrainInit
    PROVE  SearchInv
  BY DEF TrainInit, Idle, SearchInv, Searches

LEMMA NextSearch ==
    ASSUME CheckpointInv, SearchInv, [TrainNext]_trainVars
    PROVE  SearchInv'
<1>1. CASE StartTrainer
  <2>1. PICK args \in TrainerArgs : Accepts(args, version) /\ StartWith(args, version)
    BY <1>1 DEF StartTrainer
  <2>. QED  BY <2>1, StartSearch
<1>2. CASE StartPipeline
  <2>1. PICK args \in TrainerArgs, v \in DOMAIN Episodes : Accepts(args, v) /\ StartWith(args, v)
    BY <1>2 DEF StartPipeline
  <2>. QED  BY <2>1, StartSearch
<1>. QED  BY <1>1, <1>2, StepSearch, SaveSearch, SelectSearch, ReportSearch, FinishSearch, OtherSearch
          DEF TrainNext, AllTrained

(* So do the losses seen, the best of them and the patience left. *)
THEOREM SearchInvHolds == TrainSpec => [](CheckpointInv /\ SearchInv)
  BY InitCheckpoint, NextCheckpoint, InitSearch, NextSearch, PTL DEF TrainSpec

(* For any losses, patience, min_delta and min_epochs: best.pt of a run with  *)
(* patience is the first of its epochs with its lowest loss, and it stops    *)
(* when, and not before, its patience is used up (train_bc).                 *)
THEOREM SelectionIsSound == TrainSpec => []SelectionSound
<1>1. CheckpointInv /\ SearchInv => SelectionSound
  <2>. SUFFICES ASSUME CheckpointInv, SearchInv, method = "bc", trainer.at \in {"report", "finish", "done"},
                       trainer.args.patience # None, trainer.losses # <<>>
       PROVE  SelectionSound
    BY DEF SelectionSound
  <2>. DEFINE L == trainer.losses
              n == Len(L)
              p == Compared
              recent == Since(trainer.args.patience, L)
  <2>1. Searches
    BY DEF Searches
  <2>2. /\ trainer.stale \in Nat /\ trainer.args.patience \in Nat \ {0} /\ trainer.args.minDelta \in Nat
    BY <2>1, BcFacts
  <2>3. L \in Seq(Losses) /\ n \in Nat \ {0} /\ Judged = n /\ DOMAIN L = 1..n
    <3>1. L \in Seq(Losses) /\ L # <<>>
      BY <2>1 DEF SearchInv, LossesInv
    <3>. QED  BY <3>1 DEF Judged
  <2>4. BestInv /\ PatienceInv /\ StopInv
    BY <2>1, <2>3 DEF SearchInv
  <2>5. /\ \A i \in DOMAIN L : L[FirstBest] <= L[i] /\ (i < FirstBest => L[FirstBest] < L[i])
        /\ bestFile = files[trainer.bestEpoch] /\ trainer.bestLoss = L[FirstBest]
    BY <2>3, <2>4 DEF BestInv
  <2>6. recent = {i \in 1..n : i > n - trainer.args.patience}
    BY <2>3 DEF Since
  <2>7. /\ p = n - trainer.stale /\ p \in 1..n
        /\ \A i \in 1..(p - 1) : L[p] < L[i]
        /\ \A i \in (p + 1)..n : L[i] >= L[p] - trainer.args.minDelta
    BY <2>3, <2>4 DEF PatienceInv, Compared
  <2>. HIDE DEF p, recent, n
  <2>8. ASSUME trainer.stopped
        PROVE  /\ trainer.epoch >= trainer.args.minEpochs
               /\ \E j \in (DOMAIN L) \ recent : \A i \in recent : L[i] >= L[j] - trainer.args.minDelta
    <3>1. trainer.epoch >= trainer.args.minEpochs /\ trainer.stale >= trainer.args.patience
      BY <2>4, <2>8 DEF StopInv
    <3>2. p \in (DOMAIN L) \ recent /\ \A i \in recent : i \in (p + 1)..n
      BY <2>2, <2>3, <2>6, <2>7, <3>1
    <3>. QED  BY <2>7, <3>1, <3>2
  <2>9. ASSUME ~trainer.stopped, trainer.epoch >= trainer.args.minEpochs
        PROVE  \E i \in recent : \A j \in 1..(i - 1) : L[i] < L[j]
    <3>1. trainer.stale < trainer.args.patience
      BY <2>4, <2>9 DEF StopInv
    <3>2. p \in recent
      BY <2>2, <2>3, <2>6, <2>7, <3>1
    <3>. QED  BY <2>7, <3>2
  <2>10. trainer.at # "report" =>
             told.each = [by |-> starts, run |-> trainer.epoch, best |-> trainer.bestEpoch,
                          loss |-> L[FirstBest], stopped |-> trainer.stopped]
    BY <2>4, <2>5 DEF StopInv
  <2>. QED  BY <2>5, <2>8, <2>9, <2>10 DEF SelectionSound, FirstBest, recent
<1>. QED  BY <1>1, SearchInvHolds, PTL
=============================================================================
