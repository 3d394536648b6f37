---------------------------- MODULE Supervision ----------------------------
(* Training rows made from a report of paired traces: action-risk rows       *)
(* (counterfactual_data.py), action values (paired_trace_action_ev.py),      *)
(* reward differences (paired_trace_delta.py), near states                   *)
(* (near_state_counterfactuals.py), and weights and labels that are put on   *)
(* the transitions of another dataset (risk_filter.py).  Each is a process   *)
(* that reads the report once and writes its dataset at its end; when it     *)
(* finds no row it raises and writes nothing.                                *)
EXTENDS PairedTrace

CONSTANTS
    RowRequests      \* command lines of these tools

VARIABLES
    dataset          \* the last dataset that was written, or None

rowVars == <<traceVars, dataset>>

Distance(m, n) == IF m < n THEN n - m ELSE m - n

(* selected_divergences: "first", all the "later" ones or "all".             *)
SelectedDivergences(pair, source) ==
    IF source = "first" THEN IF pair.first = None THEN <<>> ELSE <<pair.first>>
    ELSE SelectSeq(pair.divergences, LAMBDA d : source = "all" \/ d.index # pair.first.index)

(* The selected divergences that have a label, with their pair.              *)
Labelled(pairs, source, threshold) ==
    LET Of(pair) ==
            LET ds == SelectedDivergences(pair, source)
            IN  [k \in DOMAIN ds |-> [pair |-> pair, divergence |-> ds[k],
                                      label |-> CounterfactualLabel(pair, ds[k], threshold)]]
    IN  SelectSeq(FlattenSeq([i \in DOMAIN pairs |-> Of(pairs[i])]), LAMBDA x : x.label # None)

(* Fault: the observation of the other match.                                *)
StepOfOther(x, side) == IF side = 1 THEN x.divergence.right ELSE x.divergence.left

StepOf(x, side) == IF side = 1 THEN x.divergence.left ELSE x.divergence.right

Row(x, view) ==
    [seed |-> x.label.seed, seat |-> x.label.seat, decision |-> x.label.decision, view |-> view,
     preferred |-> x.label.preferred, avoided |-> x.label.avoided,
     preferredReward |-> x.label.preferredReward, avoidedReward |-> x.label.avoidedReward,
     made |-> x.pair.made]

(* build_counterfactual_risk_arrays: rows that pass the filters, at what the *)
(* match saw whose action is the target.                                     *)
RiskRows(r, request) ==
    LET Passes(x) ==
            /\ request.policy \in {None, x.label.policy}
            /\ request.family = None \/ Family(x.label.avoided) = request.family
            /\ x.label.gap >= request.gap
            /\ request.highRisk => x.label.highRisk
            /\ r.arrays
        Side(x) == IF request.target = "avoided" THEN 3 - x.label.policy ELSE x.label.policy
        xs == SelectSeq(Labelled(r.pairs, request.source, request.threshold), Passes)
    IN  [i \in DOMAIN xs |-> Row(xs[i], StepOf(xs[i], Side(xs[i])).view)]

(* build_paired_trace_action_ev_arrays: at what the preferred match saw,     *)
(* with the context of the first divergence, which are the left policy and   *)
(* the right one, and by how much the right was paid more.                   *)
ActionEVRows(r, request) ==
    LET Passes(x) ==
            /\ x.label.gap >= request.gap
            /\ request.family # None => /\ Family(x.label.preferred) = request.family
                                        /\ Family(x.label.avoided) = request.family
            /\ r.arrays
        xs == SelectSeq(Labelled(r.pairs, request.source, None), Passes)
        Full(x) == Row(x, StepOf(x, x.label.policy).view)
                   @@ [context |-> x.pair.context,
                       left |-> IF x.label.policy = 1 THEN x.label.preferred ELSE x.label.avoided,
                       right |-> IF x.label.policy = 2 THEN x.label.preferred ELSE x.label.avoided,
                       delta |-> IF x.label.policy = 2 THEN x.label.gap ELSE -x.label.gap]
    IN  [i \in DOMAIN xs |-> Full(xs[i])]

(* build_pairwise_delta_arrays: the first divergences of matches that both   *)
(* have a step there, also of those that were paid the same.                 *)
DeltaRows(r, request) ==
    LET Passes(pair) ==
            /\ pair.first # None /\ pair.first.left # None /\ pair.first.right # None
            /\ r.arrays
            /\ Distance(pair.rewards[1], pair.rewards[2]) >= request.gap
        pairs == SelectSeq(r.pairs, Passes)
        Full(pair) ==
            [seed |-> pair.seed, seat |-> pair.seat, decision |-> pair.first.left.view.index,
             view |-> pair.first.left.view, context |-> pair.context, sequence |-> pair.sequence,
             left |-> pair.first.left.action, right |-> pair.first.right.action,
             delta |-> pair.rewards[2] - pair.rewards[1], made |-> pair.made]
    IN  [i \in DOMAIN pairs |-> Full(pairs[i])]

(* visible_scalar_distance: the sum (for the mean) and the largest.          *)
ScalarGaps(u, v) == [name \in Scalars |-> Distance(u.scalars[name], v.scalars[name])]

(* action_mask_jaccard, in percent.                                          *)
Jaccard(u, v) ==
    LET either == ToSet(u.legal) \cup ToSet(v.legal)
    IN  IF either = {} THEN 100
        ELSE (100 * Cardinality(ToSet(u.legal) \cap ToSet(v.legal))) \div Cardinality(either)

(* extract_near_state_discard_cases: discard against discard, both legal in  *)
(* both views, and the views alike.                                          *)
NearRows(r, request) ==
    LET Passes(x) ==
            LET u == StepOf(x, x.label.policy).view
                v == StepOf(x, 3 - x.label.policy).view
                gaps == ScalarGaps(u, v)
            IN  /\ x.label.gap >= request.gap
                /\ Family(x.label.preferred) = "discard" /\ Family(x.label.avoided) = "discard"
                /\ r.arrays
                /\ {x.label.preferred, x.label.avoided} \subseteq ToSet(u.legal) \cap ToSet(v.legal)
                /\ Distance(u.index, v.index) <= request.decisionGap
                /\ FoldFunction(+, 0, gaps) <= request.l1 * Cardinality(Scalars)
                /\ \A name \in Scalars : gaps[name] <= request.linf
                /\ Jaccard(u, v) >= request.jaccard
        xs == SelectSeq(Labelled(r.pairs, request.source, request.threshold), Passes)
    IN  [i \in DOMAIN xs |-> Row(xs[i], StepOf(xs[i], 3 - xs[i].label.policy).view)]

-----------------------------------------------------------------------------
(* Labels on the transitions of another dataset. *)

(* risk_case_from_pair.  Without a step of the right match the position of   *)
(* the divergence, which counts from 0, stands for the decision.             *)
CaseFromPair(pair, tags) ==
    LET d == pair.first
        left == IF d = None THEN None ELSE d.left
        right == IF d = None THEN None ELSE d.right
    IN  [seed |-> pair.seed, seat |-> pair.seat,
         decision |-> IF right # None THEN right.view.index ELSE IF d # None THEN d.index - 1 ELSE None,
         action |-> IF right = None THEN None ELSE right.action,
         baseline |-> IF left = None THEN None ELSE left.action,
         gain |-> pair.rewards[1] - pair.rewards[2], tags |-> tags]

(* risk_case_from_counterfactual_label.                                      *)
CaseFromLabel(label) ==
    [seed |-> label.seed, seat |-> label.seat, decision |-> label.decision,
     action |-> label.avoided, baseline |-> label.preferred, gain |-> label.gap,
     tags |-> label.tags \cup {"counterfactual"}]

(* load_risk_cases_from_paired_trace_reports: large losses of the right      *)
(* policy, the pairs it lost most on, and the labels.                        *)
RiskCases(r, request) ==
    LET Tags(p) ==
            LET lost == request.threshold # None /\ p.rewards[2] <= request.threshold
            IN  (IF lost THEN {"right_large_loss"} ELSE {})
                \cup (IF lost /\ p.rewards[1] > request.threshold THEN {"new_right_large_loss"} ELSE {})
        lost == SelectSeq(r.pairs, LAMBDA p : Tags(p) # {})
        order == SortSeq([i \in DOMAIN r.pairs |-> <<r.pairs[i].delta, i>>],
                         LAMBDA x, y : x[1] < y[1] \/ (x[1] = y[1] /\ x[2] < y[2]))
        worst == [k \in 1..Min({request.worst, Len(order)}) |-> r.pairs[order[k][2]]]
        labels == IF request.labels
                  THEN SelectSeq(FirstLabels(r.pairs, request.threshold), LAMBDA l : l.gap >= request.gap)
                  ELSE <<>>
        all == [i \in DOMAIN lost |-> CaseFromPair(lost[i], Tags(lost[i]))]
               \o [i \in DOMAIN worst |-> CaseFromPair(worst[i], {"worst_delta"})]
               \o [i \in DOMAIN labels |-> CaseFromLabel(labels[i])]
    IN  FoldLeft(LAMBDA kept, c : IF c \in ToSet(kept) THEN kept ELSE Append(kept, c), <<>>, all)

(* The transitions of a dataset: the decisions of a checkpoint on the seats  *)
(* that it was generated with, by the number of the episode.                 *)
Transitions(request) ==
    FlattenSeq([k \in 1..request.episodes |->
        LET steps == StepsFrom(build, request.config, request.player, request.startSeed + k - 1, <<>>)
        IN  [j \in DOMAIN steps |->
                [episode |-> k - 1, seat |-> steps[j].view.seat, decision |-> steps[j].view.index,
                 action |-> steps[j].action, view |-> steps[j].view,
                 weight |-> 1, matched |-> FALSE, preferred |-> None, avoided |-> None, gain |-> 0]]])

(* A case matches by the seed and the seat, and by the decision if the       *)
(* dataset has the numbers of its decisions, otherwise by the action.        *)
CaseMatches(request, t, case) ==
    /\ t.episode = case.seed - request.startSeed /\ t.seat = case.seat
    /\ IF request.indexed /\ case.decision # None THEN t.decision = case.decision
       ELSE case.action # None /\ t.action = case.action

(* apply_risk_case_weights, case by case: a later one replaces the label.    *)
ApplyCase(request, t, case) ==
    IF ~CaseMatches(request, t, case) THEN t
    ELSE LET weighted == [t EXCEPT !.matched = TRUE, !.weight = Max({@, request.weight})]
         IN  IF case.baseline # None /\ case.action # None /\ case.baseline # case.action /\ case.gain > 0
             THEN [weighted EXCEPT !.preferred = case.baseline, !.avoided = case.action,
                                   !.gain = Max({@, case.gain})]
             ELSE weighted

WeightRows(r, request) ==
    LET ts == Transitions(request)
        cases == RiskCases(r, request)
    IN  [i \in DOMAIN ts |-> FoldLeft(LAMBDA t, case : ApplyCase(request, t, case), ts[i], cases)]

-----------------------------------------------------------------------------
RowsOf(r, request) ==
    CASE request.tool = "risk" -> RiskRows(r, request)
      [] request.tool = "actionEV" -> ActionEVRows(r, request)
      [] request.tool = "delta" -> DeltaRows(r, request)
      [] request.tool = "near" -> NearRows(r, request)
      [] request.tool = "weights" -> WeightRows(r, request)

BuildRows(request) ==
    /\ report \notin {None, Torn}
    /\ LET rows == RowsOf(report, request)
       IN  rows # <<>> /\ dataset' = [request |-> request, rows |-> rows]
    /\ UNCHANGED traceVars

RowInit == TraceInit /\ dataset = None
RowNext ==
    \/ TraceNext /\ UNCHANGED dataset
    \/ \E request \in RowRequests : BuildRows(request)

-----------------------------------------------------------------------------
(* Two matches that are one until position i, where their policies decide    *)
(* differently.                                                              *)
PartAt(left, right, i) ==
    /\ i \in DOMAIN left.steps \cap DOMAIN right.steps
    /\ left.steps[i].action # right.steps[i].action
    /\ \A j \in 1..i - 1 : left.steps[j] = right.steps[j]

TracesOf(made, seed, seat) ==
    LET Of(c) == RunPolicyTrace(made.build, [seats |-> {seat}, cap |-> made.cap], c, seed)
    IN  <<Of(made.left), Of(made.right)>>

(* A row that is made from first divergences is evidence about one state:    *)
(* both policies were there after the same decisions, its observation is     *)
(* what they saw, its two actions are what they did, and it prefers the      *)
(* action after which the match was paid more.                               *)
IsSameState(row) ==
    LET ts == TracesOf(row.made, row.seed, row.seat)
        left == ts[1]
        right == ts[2]
    IN  \E i \in DOMAIN left.steps :
            /\ PartAt(left, right, i)
            /\ row.view = left.steps[i].view /\ row.view = right.steps[i].view
            /\ row.decision = row.view.index
            /\ "preferred" \in DOMAIN row =>
                  \/ /\ row.preferred = left.steps[i].action /\ row.avoided = right.steps[i].action
                     /\ left.reward > right.reward
                  \/ /\ row.preferred = right.steps[i].action /\ row.avoided = left.steps[i].action
                     /\ right.reward > left.reward
            /\ "delta" \in DOMAIN row =>
                  /\ row.left = left.steps[i].action /\ row.right = right.steps[i].action
                  /\ row.delta = right.reward - left.reward

(* The action that a row trains at its observation.                          *)
TargetOf(row, request) ==
    IF request.tool = "actionEV" \/ (request.tool = "risk" /\ request.target = "preferred")
    THEN row.preferred ELSE row.avoided

(* Such rows are of one state each, and there is one row at most for a seed  *)
(* and a seat, however often the tracing was interrupted and resumed.  A row *)
(* of a later divergence, where the matches are no longer one, is at least   *)
(* of a state in which the action that it trains was legal.                  *)
RowsAreSameState ==
    dataset # None /\ dataset.request.tool \in {"risk", "actionEV", "delta", "near"} =>
        LET rows == dataset.rows
            request == dataset.request
        IN  /\ request.tool = "delta" \/ request.source = "first" =>
                  /\ \A i \in DOMAIN rows : IsSameState(rows[i])
                  /\ \A i, j \in DOMAIN rows : Key(rows[i]) = Key(rows[j]) => i = j
            /\ request.tool # "delta" =>
                  \A i \in DOMAIN rows : TargetOf(rows[i], request) \in ToSet(rows[i].view.legal)

(* ai/MODULES.md: risk-trace supervision requires "exact                     *)
(* seed/seat/decision/action replay matches".  (Not so: a dataset with       *)
(* decision numbers is matched without the action, and gets labels for       *)
(* actions that were not even legal there.)                                  *)
RiskMatchesReplay ==
    dataset # None /\ dataset.request.tool = "weights" =>
        \A i \in DOMAIN dataset.rows :
            LET t == dataset.rows[i] IN t.avoided # None => t.action \in {t.avoided, t.preferred}
=============================================================================
