---------------------------- MODULE PairedTrace ----------------------------
(* Two checkpoints play the same seat of the same seeds, and a report says   *)
(* where their matches part and what each was paid (paired_trace.py and      *)
(* scripts/paired_trace.py).  A run is long, so it writes partial reports    *)
(* and can be resumed from one; in the meantime the simulator may be         *)
(* rebuilt and the checkpoints replaced.                                     *)
(*                                                                          *)
(* The simulator is a function of its build, the learning seats and the cap  *)
(* of a configuration, the seed and the actions so far.  What it shows is a  *)
(* view: the seat to decide, its legal actions in ascending order, the       *)
(* number of the decision, the visible scalars in hundredths, what the last  *)
(* step (or the reset) paid to every seat and the outcome it delivered, and  *)
(* whether the match is "over", "cut" by the cap, or "no"t ended.            *)
EXTENDS Episodes

CONSTANTS
    Torn,               \* a report that cannot be parsed
    Builds,             \* builds of the simulator's library
    Checkpoints,        \* what a checkpoint file may hold
    View(_, _, _, _),   \* View(build, config, seed, actions)
    Logits(_, _),       \* Logits(checkpoint, view)[action]
    Family(_),          \* the family of an action
    Scalars,            \* names of the visible scalars
    TraceRequests,      \* command lines of fh-mj-paired-trace
    MaxEvents           \* bound on runs, rebuilds and replaced checkpoints

VARIABLES
    build,      \* the library on disk
    files,      \* the two checkpoint files
    trace,      \* the process that traces, or None
    report,     \* the report file: None if there is none
    events

traceVars == <<build, files, trace, report, events>>

Ended(view) == view.end \in {"over", "cut"}
Ids(steps) == [i \in DOMAIN steps |-> steps[i].action]
Tally(s) == [x \in ToSet(s) |-> Cardinality({i \in DOMAIN s : s[i] = x})]

-----------------------------------------------------------------------------
(* One match of a checkpoint. *)

(* TorchGreedyPolicy.choose, with the lowest id among equals.                *)
Greedy(checkpoint, view) ==
    LET score == Logits(checkpoint, view)
        legal == ToSet(view.legal)
        best == Max({score[a] : a \in legal})
    IN  Min({a \in legal : score[a] = best})

(* The decisions from the actions so far to the end.                         *)
RECURSIVE StepsFrom(_, _, _, _, _)
StepsFrom(b, config, checkpoint, seed, actions) ==
    LET view == View(b, config, seed, actions)
        action == Greedy(checkpoint, view)
    IN  IF Ended(view) \/ view.legal = <<>> THEN <<>>
        ELSE <<[action |-> action, view |-> view]>>
             \o StepsFrom(b, config, checkpoint, seed, Append(actions, action))

(* run_policy_trace.  The reward is what the last step paid.                 *)
RunPolicyTrace(b, config, checkpoint, seed) ==
    LET seat == CHOOSE s \in config.seats : TRUE
        steps == StepsFrom(b, config, checkpoint, seed, <<>>)
        last == View(b, config, seed, Ids(steps))
        nothing == steps = <<>> /\ ~Ended(last)
    IN  [seed |-> seed, seat |-> seat, steps |-> steps, end |-> last.end,
         reward |-> IF nothing THEN 0 ELSE last.rewards[seat],
         outcome |-> IF nothing THEN None ELSE last.outcome]

-----------------------------------------------------------------------------
(* Two matches compared.  Positions count from 1. *)

(* Fault: the last common decision instead of the first different one.       *)
DivergencesEarly(u, v, most) ==
    LET limit == Min({Len(u), Len(v)})
        differ == SetToSortSeq({Max({1, i - 1}) : i \in {j \in 1..limit : u[j] # v[j]}}, <)
    IN  SubSeq(differ, 1, Min({most, Len(differ)}))

(* divergence_indices: the first positions at which the actions differ, and  *)
(* the end of the shorter.                                                   *)
DivergenceIndices(u, v, most) ==
    LET limit == Min({Len(u), Len(v)})
        differ == SetToSortSeq({i \in 1..limit : u[i] # v[i]}, <)
        all == IF Len(u) # Len(v) THEN Append(differ, limit + 1) ELSE differ
    IN  SubSeq(all, 1, Max({0, Min({most, Len(all)})}))

(* step_at_or_none, and divergence_payload: the step of either match there.  *)
StepAt(match, i) == IF i \in DOMAIN match.steps THEN match.steps[i] ELSE None
DivergencePayload(left, right, i) ==
    [index |-> i, left |-> StepAt(left, i), right |-> StepAt(right, i)]

ScalarOf(step, name) == IF step = None THEN 0 ELSE step.view.scalars[name]

(* pre_divergence_context: how often each family was played in the common    *)
(* prefix and which was last, and what has changed since the first decision. *)
PreDivergenceContext(left, right, i) ==
    LET Either(j) == IF StepAt(left, j) # None THEN StepAt(left, j) ELSE StepAt(right, j)
        families == [j \in 1..i - 1 |-> Family(left.steps[j].action)]
    IN  [index |-> i, decision |-> IF Either(i) = None THEN i ELSE Either(i).view.index,
         rates |-> Tally(families), previous |-> IF i = 1 THEN "missing" ELSE Last(families),
         since |-> [name \in Scalars |-> ScalarOf(Either(i), name) - ScalarOf(Either(1), name)]]

(* pre_divergence_sequence: the last decisions of the common prefix.         *)
TraceSequenceLength == 16
PreDivergenceSequence(left, i) ==
    [j \in 1..Min({i - 1, TraceSequenceLength}) |->
        LET age == Min({i - 1, TraceSequenceLength}) - j + 1
            step == left.steps[i - age]
        IN  [age |-> age, decision |-> step.view.index, action |-> step.action,
             family |-> Family(step.action), scalars |-> step.view.scalars]]

(* compare_episode_trace; "made" is not in the report: what the two matches  *)
(* were made with.                                                           *)
CompareEpisodeTrace(left, right, labels, most, made) ==
    LET indices == DivergenceIndices(Ids(left.steps), Ids(right.steps), most)
        first == IF indices = <<>> THEN None ELSE indices[1]
    IN  [seed |-> left.seed, seat |-> left.seat, labels |-> labels,
         rewards |-> <<left.reward, right.reward>>, delta |-> right.reward - left.reward,
         outcomes |-> <<left.outcome, right.outcome>>,
         lengths |-> <<Len(left.steps), Len(right.steps)>>,
         first |-> IF first = None THEN None ELSE DivergencePayload(left, right, first),
         context |-> IF first = None THEN None ELSE PreDivergenceContext(left, right, first),
         sequence |-> IF first = None THEN <<>> ELSE PreDivergenceSequence(left, first),
         divergences |-> [k \in DOMAIN indices |-> DivergencePayload(left, right, indices[k])],
         made |-> made]

(* _is_deal_in.                                                              *)
IsDealIn(outcome, seat) == outcome # None /\ outcome.discarder = seat

(* counterfactual_label_from_pair: of two different actions, that of the     *)
(* match that was paid more is preferred (policy 1 is the left one); none if *)
(* one of the matches had ended or both were paid the same.                  *)
CounterfactualLabel(pair, d, threshold) ==
    IF d = None \/ d.left = None \/ d.right = None \/ pair.rewards[1] = pair.rewards[2] THEN None
    ELSE LET good == IF pair.rewards[1] > pair.rewards[2] THEN 1 ELSE 2
             bad == 3 - good
             steps == <<d.left, d.right>>
             dealIn == [side \in 1..2 |-> IsDealIn(pair.outcomes[side], pair.seat)]
             lost == threshold # None /\ pair.rewards[bad] <= threshold
             tags == {"worse_reward"}
                     \cup (IF dealIn[bad] THEN {"avoided_deal_in"} ELSE {})
                     \cup (IF dealIn[bad] /\ ~dealIn[good] THEN {"new_deal_in"} ELSE {})
                     \cup (IF lost THEN {"avoided_large_loss"} ELSE {})
                     \cup (IF lost /\ pair.rewards[good] > threshold THEN {"new_large_loss"} ELSE {})
         IN  [seed |-> pair.seed, seat |-> pair.seat, index |-> d.index,
              decision |-> steps[bad].view.index, policy |-> good,
              preferred |-> steps[good].action, avoided |-> steps[bad].action,
              preferredReward |-> pair.rewards[good], avoidedReward |-> pair.rewards[bad],
              gap |-> pair.rewards[good] - pair.rewards[bad], tags |-> tags,
              highRisk |-> tags \cap {"new_deal_in", "new_large_loss", "avoided_large_loss"} # {}]

-----------------------------------------------------------------------------
(* The report. *)

(* bucket_scalar, for hundredths.                                            *)
Bucket(value) == Min({Max({value, 0}) \div 25, 3})

FirstLabels(pairs, threshold) ==
    SelectSeq([i \in DOMAIN pairs |-> CounterfactualLabel(pairs[i], pairs[i].first, threshold)],
              LAMBDA l : l # None)

(* summarize_counterfactual_supervision, with sums for its means.            *)
SummarizeSupervision(pairs, threshold) ==
    LET labels == FirstLabels(pairs, threshold)
        risky == SelectSeq(labels, LAMBDA l : l.highRisk)
        Families(s, Of(_)) == Tally([i \in DOMAIN s |-> Family(Of(s[i]))])
        Preferred(l) == l.preferred
        Avoided(l) == l.avoided
        Gaps(s) == FoldLeft(LAMBDA n, l : n + l.gap, 0, s)
    IN  [labelled |-> Len(labels), risky |-> Len(risky),
         avoided |-> Families(labels, Avoided), preferred |-> Families(labels, Preferred),
         riskyAvoided |-> Families(risky, Avoided), gaps |-> <<Gaps(labels), Gaps(risky)>>,
         tags |-> Tally(FlattenSeq([i \in DOMAIN labels |-> SetToSeq(labels[i].tags)]))]

(* high_risk_pair_payload: a pair as a case, with the number of its decision *)
(* and the two actions under the names that the labels give them.            *)
CaseOf(pair) ==
    LET d == pair.first
        step == IF d = None THEN None ELSE IF d.right # None THEN d.right ELSE d.left
        Action(s) == IF d = None \/ s = None THEN None ELSE s.action
    IN  [seed |-> pair.seed, seat |-> pair.seat, labels |-> pair.labels, delta |-> pair.delta,
         decision |-> IF step = None THEN None ELSE step.view.index,
         left |-> IF d = None THEN None ELSE Action(d.left),
         right |-> IF d = None THEN None ELSE Action(d.right), made |-> pair.made]

(* summarize_high_risk_trace_pairs: large losses of the right policy, those  *)
(* that are new, and the pairs it lost most on.                              *)
SummarizeHighRisk(pairs, threshold, most) ==
    LET Cases(Is(_)) == LET s == SelectSeq(pairs, Is) IN [i \in DOMAIN s |-> CaseOf(s[i])]
        Lost(p) == threshold # None /\ p.rewards[2] <= threshold
        NewlyLost(p) == Lost(p) /\ p.rewards[1] > threshold
        order == SortSeq([i \in DOMAIN pairs |-> <<pairs[i].delta, i>>],
                         LAMBDA x, y : x[1] < y[1] \/ (x[1] = y[1] /\ x[2] < y[2]))
        worst == [k \in 1..Min({most, Len(pairs)}) |-> pairs[order[k][2]]]
        worse == SelectSeq(worst, LAMBDA p : p.delta < 0)
    IN  [losses |-> Cases(Lost), newLosses |-> Cases(NewlyLost),
         worst |-> [k \in DOMAIN worse |-> CaseOf(worse[k])]]

(* summarize_trace_pairs.                                                    *)
SummarizeTracePairs(pairs, threshold, most) ==
    LET Count(Is(_)) == Len(SelectSeq(pairs, Is))
        parted == SelectSeq(pairs, LAMBDA p : p.first # None)
        FamilyOf(step) == IF step = None THEN "missing" ELSE Family(step.action)
        Context(p) == IF p.first.left # None THEN p.first.left ELSE p.first.right
    IN  [episodes |-> Len(pairs), diverged |-> Len(parted),
         better |-> Count(LAMBDA p : p.delta > 0), same |-> Count(LAMBDA p : p.delta = 0),
         families |-> Tally([i \in DOMAIN parted |->
                          <<FamilyOf(parted[i].first.left), FamilyOf(parted[i].first.right)>>]),
         contexts |-> [name \in Scalars |->
                          Tally([i \in DOMAIN parted |-> Bucket(ScalarOf(Context(parted[i]), name))])],
         supervision |-> SummarizeSupervision(pairs, threshold),
         risk |-> SummarizeHighRisk(pairs, threshold, most)]

(* The seeds and seats of a command line, in the order of the loops.         *)
Schedule(request) ==
    FlattenSeq([i \in DOMAIN request.seats |->
        [j \in DOMAIN request.seeds |-> <<request.seeds[j], request.seats[i]>>]])

Key(pair) == <<pair.seed, pair.seat>>
Keys(pairs) == {Key(pairs[i]) : i \in DOMAIN pairs}

(* deduplicate_trace_pairs: of two pairs of a seed and seat the first.       *)
Deduplicated(pairs) ==
    FoldLeft(LAMBDA kept, p : IF Key(p) \in Keys(kept) THEN kept ELSE Append(kept, p), <<>>, pairs)

(* Reading pairs under other labels than they were written with is an error. *)
Summarizable(pairs, request) == \A i \in DOMAIN pairs : pairs[i].labels = request.labels

ReportOf(pairs, request, complete) ==
    [pairs |-> pairs, labels |-> request.labels, complete |-> complete, arrays |-> request.arrays,
     keys |-> ToSet(Schedule(request)),
     summary |-> SummarizeTracePairs(pairs, request.threshold, request.worst)]

-----------------------------------------------------------------------------
(* The process. *)

TraceInit ==
    /\ build \in Builds /\ files \in [{"left", "right"} -> Checkpoints]
    /\ trace = None /\ report = None /\ events = 0

(* load_resume_pairs: a report that is missing has no pairs; nothing else of *)
(* it is compared with the command line.                                     *)
LoadResumePairs(request) ==
    IF request.resume /\ report # None THEN Deduplicated(report.pairs) ELSE <<>>

(* main loads both checkpoints and the pairs; the first match loads the      *)
(* library.                                                                  *)
StartTrace(request) ==
    /\ trace = None /\ events < MaxEvents
    /\ request.resume => report # Torn
    /\ LET pairs == LoadResumePairs(request)
       IN  trace' = [request |-> request, build |-> build, left |-> files["left"],
                     right |-> files["right"], pairs |-> pairs,
                     completed |-> Min({Len(pairs), Len(Schedule(request))})]
    /\ events' = events + 1
    /\ UNCHANGED <<build, files, report>>

(* Fault: as many as the report has pairs are skipped, whichever they are.   *)
PendingByCount(t) == SubSeq(Schedule(t.request), t.completed + 1, Len(Schedule(t.request)))

(* compare_policy_traces skips the seeds and seats that it has.              *)
Pending(t) == SelectSeq(Schedule(t.request), LAMBDA key : key \notin Keys(t.pairs))

ComparePolicies(t, key) ==
    LET config == [seats |-> {key[2]}, cap |-> t.request.cap]
        left == RunPolicyTrace(t.build, config, t.left, key[1])
        right == RunPolicyTrace(t.build, config, t.right, key[1])
    IN  CompareEpisodeTrace(left, right, t.request.labels, t.request.divergences,
            [build |-> t.build, left |-> t.left, right |-> t.right, cap |-> t.request.cap])

(* write_report: the summary comes first, and fails on pairs with other      *)
(* labels; the file is not replaced but rewritten.                           *)
WriteTraceReport(t, complete, after) ==
    IF Summarizable(t.pairs, t.request)
    THEN report' = ReportOf(t.pairs, t.request, complete) /\ trace' = after
    ELSE UNCHANGED report /\ trace' = None

(* One pair, and a partial report when the interval or the total is reached. *)
PlayPair ==
    /\ trace # None /\ Pending(trace) # <<>>
    /\ LET t == [trace EXCEPT !.pairs = Append(@, ComparePolicies(trace, Head(Pending(trace)))),
                              !.completed = @ + 1]
           total == Len(Schedule(t.request))
           due == t.request.interval > 0
                  /\ (t.completed % t.request.interval = 0 \/ t.completed = total)
       IN  IF due THEN WriteTraceReport(t, t.completed = total, t)
           ELSE trace' = t /\ UNCHANGED report
    /\ UNCHANGED <<build, files, events>>

(* The last report.                                                          *)
FinishTrace ==
    /\ trace # None /\ Pending(trace) = <<>>
    /\ WriteTraceReport(trace, TRUE, None)
    /\ UNCHANGED <<build, files, events>>

(* The process dies, between two pairs or while it writes.                   *)
CrashTrace ==
    /\ trace # None
    /\ trace' = None
    /\ report' \in {report, Torn}
    /\ UNCHANGED <<build, files, events>>

(* A report that cannot be read is deleted.                                  *)
DeleteTorn ==
    /\ trace = None /\ report = Torn
    /\ report' = None
    /\ UNCHANGED <<build, files, trace, events>>

(* The library is rebuilt or a checkpoint replaced.                          *)
ChangeInputs ==
    /\ events < MaxEvents
    /\ events' = events + 1
    /\ \/ build' \in Builds \ {build} /\ UNCHANGED files
       \/ \E side \in DOMAIN files, c \in Checkpoints :
              c # files[side] /\ files' = [files EXCEPT ![side] = c] /\ UNCHANGED build
    /\ UNCHANGED <<trace, report>>

TraceNext ==
    \/ \E request \in TraceRequests : StartTrace(request)
    \/ PlayPair \/ FinishTrace \/ CrashTrace \/ DeleteTorn \/ ChangeInputs

-----------------------------------------------------------------------------
(* All that a match pays to its seat: at its reset and at every step.        *)
MatchReward(b, config, checkpoint, seed) ==
    LET seat == CHOOSE s \in config.seats : TRUE
        ids == Ids(StepsFrom(b, config, checkpoint, seed, <<>>))
    IN  FoldLeft(LAMBDA n, i : n + View(b, config, seed, SubSeq(ids, 1, i)).rewards[seat], 0,
                 [i \in 1..Len(ids) + 1 |-> i - 1])

(* What a pair says its matches paid is what they paid from their start to   *)
(* their end, as ai/MODULES.md says of the data made from it ("actual        *)
(* anchor-vs-candidate match reward differences").  run_policy_trace keeps   *)
(* the reward of the last step only.                                         *)
PairRewardIsMatchReward ==
    report \notin {None, Torn} =>
        \A i \in DOMAIN report.pairs :
            LET p == report.pairs[i]
                Paid(checkpoint) == MatchReward(p.made.build, [seats |-> {p.seat}, cap |-> p.made.cap],
                                                checkpoint, p.seed)
            IN  p.rewards = <<Paid(p.made.left), Paid(p.made.right)>>

(* A report that says it is complete has a pair for all that was asked for.  *)
(* (Not so: pairs of other seeds in a resumed report are counted.)           *)
CompleteMeansAll ==
    report \notin {None, Torn} /\ report.complete => report.keys \subseteq Keys(report.pairs)
=============================================================================
