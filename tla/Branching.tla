----------------------------- MODULE Branching -----------------------------
(* Training rows from branches: at a decision of a live match the simulator  *)
(* plays several of its actions to an end, each on a clone and with the      *)
(* heuristic on all seats, and a row prefers the best of them to the worst   *)
(* (branch_counterfactuals.py).  Three generators choose the decisions and   *)
(* the actions:                                                              *)
(*   "discards"  the discards, in matches of a checkpoint or of chance       *)
(*               (generate_branch_counterfactuals.py);                       *)
(*   "sampled"   the greedy action and a sampled one, in matches that go on  *)
(*               with the sampled one (generate_sampled_...py);              *)
(*   "targeted"  the decisions where the matches of a report of paired       *)
(*               traces part, in a replay by the anchor                      *)
(*               (generate_targeted_...py).                                  *)
EXTENDS Supervision

CONSTANTS
    Rollout(_, _, _, _, _),   \* Rollout(build, config, seed, actions, options)
    BranchRequests            \* command lines of the generators

VARIABLES
    gen          \* the process that generates, or None

branchVars == <<rowVars, gen>>

-----------------------------------------------------------------------------
(* Env.evaluateBranch: an action that cannot be executed is an error.        *)
EvaluateBranch(b, config, seed, actions, action, options) ==
    IF action \notin ToSet(View(b, config, seed, actions).legal)
    THEN [action |-> action, error |-> TRUE]
    ELSE [action |-> action, error |-> FALSE]
         @@ Rollout(b, config, seed, Append(actions, action), options)

(* Fault: rollouts that were cut are as good as finished ones.               *)
UsableCut(result, families) ==
    ~result.error /\ (families = None \/ Family(result.action) \in families)

(* A result counts if it was played to its end and is of the families.       *)
Usable(result, families) ==
    /\ ~result.error /\ ~result.truncated
    /\ families = None \/ Family(result.action) \in families

(* The discards are always compared with discards only.                      *)
FamiliesOf(request) == IF request.tool = "discards" THEN {"discard"} ELSE request.families

(* best_worst_branch_label: the first of the worst and the last of the best; *)
(* with equal rewards and no least gap these are still two actions.          *)
BestWorst(view, results, request) ==
    LET usable == SelectSeq(results, LAMBDA r : Usable(r, FamiliesOf(request)))
        Paid(i) == usable[i].rewards[view.seat]
        least == Min({Paid(i) : i \in DOMAIN usable})
        most == Max({Paid(i) : i \in DOMAIN usable})
        worst == Min({i \in DOMAIN usable : Paid(i) = least})
        best == Max({i \in DOMAIN usable : Paid(i) = most})
    IN  IF \/ Len(usable) < 2
           \/ most - least < request.gap
           \/ request.highRisk /\ least > request.threshold
        THEN None
        ELSE [preferred |-> usable[best].action, avoided |-> usable[worst].action,
              preferredReward |-> most, avoidedReward |-> least, gap |-> most - least]

-----------------------------------------------------------------------------
(* The actions to branch on. *)

Sorted(actions) == SetToSortSeq(actions, <)

(* rng.choice without replacement.                                           *)
Draws(actions, most) ==
    IF most = 0 \/ Cardinality(actions) <= most THEN {actions} ELSE kSubset(most, actions)

(* select_branch_actions: so many of the discards, and the policy's own.     *)
SelectBranchActions(view, action, most) ==
    LET discards == {a \in ToSet(view.legal) : Family(a) = "discard"}
    IN  IF most = 0 \/ Cardinality(discards) <= most THEN {Sorted(discards)}
        ELSE {Sorted(drawn \cup ({action} \cap discards)) : drawn \in Draws(discards, most)}

(* Fault: the two actions of the report are not added.                       *)
SelectTargetUnforced(view, case, families, most) ==
    {Sorted(drawn) : drawn \in
        Draws({a \in ToSet(view.legal) : families = None \/ Family(a) \in families}, most)}

(* select_target_branch_actions: so many of the families, and the two of the *)
(* report that are legal.                                                    *)
SelectTargetBranchActions(view, case, families, most) ==
    LET legal == ToSet(view.legal)
        required == {case.left, case.right} \cap legal
    IN  {Sorted(drawn \cup required) : drawn \in
            Draws({a \in legal : families = None \/ Family(a) \in families}, most)}

(* choose_greedy_and_sampled_action: the legal actions by their logits, the  *)
(* first of equals first, and the top of them that may be sampled.           *)
Candidates(checkpoint, view, topK, temperature) ==
    LET score == Logits(checkpoint, view)
        order == SortSeq(view.legal, LAMBDA a, c : score[a] > score[c] \/ (score[a] = score[c] /\ a < c))
        k == IF topK <= 0 THEN Len(order) ELSE Min({topK, Len(order)})
    IN  SubSeq(order, 1, IF temperature <= 0 THEN 1 ELSE k)

-----------------------------------------------------------------------------
(* Targets. *)

(* first_int_value knows the actions of a summary's case by these names of   *)
(* the policies; a pair has its steps.                                       *)
IsKnown(label, side) == label \in IF side = 1 THEN {"left", "anchor"} ELSE {"right", "candidate"}

(* target_case_from_payload, of a pair or of a case of the summary.          *)
TargetCase(case, source) ==
    [case EXCEPT !.left = IF source = "pairs" \/ IsKnown(case.labels[1], 1) THEN @ ELSE None,
                 !.right = IF source = "pairs" \/ IsKnown(case.labels[2], 2) THEN @ ELSE None]

(* load_target_cases: those with a decision, up to the most.                 *)
LoadTargetCases(r, source, most) ==
    LET raw == IF source = "pairs" THEN [i \in DOMAIN r.pairs |-> CaseOf(r.pairs[i])]
               ELSE r.summary.risk[source]
        cases == SelectSeq([i \in DOMAIN raw |-> TargetCase(raw[i], source)],
                           LAMBDA c : c.decision # None)
    IN  SubSeq(cases, 1, IF most > 0 THEN Min({most, Len(cases)}) ELSE Len(cases))

(* group_targets_by_seed_seat, and the pending targets of a replay: one for  *)
(* each decision, the last of several.                                       *)
GroupTargets(cases) ==
    LET keys == SetToSortSeq({<<cases[i].seed, cases[i].seat>> : i \in DOMAIN cases},
                             LAMBDA x, y : x[1] < y[1] \/ (x[1] = y[1] /\ x[2] < y[2]))
        Of(key) == {i \in DOMAIN cases : <<cases[i].seed, cases[i].seat>> = key}
        Pend(key) == [n \in {cases[i].decision : i \in Of(key)} |->
                        cases[Max({i \in Of(key) : cases[i].decision = n})]]
    IN  [k \in DOMAIN keys |-> [seed |-> keys[k][1], seats |-> {keys[k][2]}, pending |-> Pend(keys[k])]]

-----------------------------------------------------------------------------
(* A generator. *)

BranchInit == RowInit /\ gen = None

EpisodesOf(request) ==
    IF request.tool = "targeted" THEN GroupTargets(LoadTargetCases(report, request.source, request.most))
    ELSE [k \in 1..request.episodes |->
            [seed |-> request.startSeed + k - 1, seats |-> request.seats, pending |-> <<>>]]

(* The report is read and the checkpoint loaded.  Without a target the       *)
(* generator raises.                                                         *)
StartGenerator(request) ==
    /\ gen = None
    /\ request.tool = "targeted" => report \notin {None, Torn}
    /\ EpisodesOf(request) # <<>>
    /\ gen' = [request |-> request, build |-> build, checkpoint |-> files["left"],
               episodes |-> EpisodesOf(request), live |-> None, rows |-> <<>>,
               calls |-> 0, skipped |-> [why \in {"missing", "few", "noLabel"} |-> 0], stopped |-> FALSE]
    /\ UNCHANGED rowVars

Config(g, episode) == [seats |-> episode.seats, cap |-> g.request.cap]
LiveView(g) == View(g.build, Config(g, g.live), g.live.seed, g.live.actions)
Skip(g, why, n) == [g EXCEPT !.skipped[why] = @ + n]

(* The next match is reset; one that ends there is passed over, its targets  *)
(* missing.                                                                  *)
ResetEpisode ==
    /\ gen # None /\ gen.live = None /\ gen.episodes # <<>> /\ ~gen.stopped
    /\ LET episode == Head(gen.episodes)
           g == [gen EXCEPT !.episodes = Tail(@)]
           ended == Ended(View(gen.build, Config(gen, episode), episode.seed, <<>>))
       IN  gen' = IF ended THEN Skip(g, "missing", Cardinality(DOMAIN episode.pending))
                  ELSE [g EXCEPT !.live = episode @@ [actions |-> <<>>]]
    /\ UNCHANGED rowVars

(* A match is over for the generator when it ends, when nobody can decide,   *)
(* and a replay also when it has no more targets; the time limit is looked   *)
(* at once more.                                                             *)
IsDone(g) ==
    LET view == LiveView(g)
    IN  \/ Ended(view) \/ view.legal = <<>>
        \/ g.request.tool = "targeted" /\ DOMAIN g.live.pending = {}

EndEpisode ==
    /\ gen # None /\ gen.live # None /\ IsDone(gen)
    /\ \E late \in IF gen.request.clock THEN BOOLEAN ELSE {FALSE} :
          gen' = [Skip(gen, "missing", Cardinality(DOMAIN gen.live.pending)) EXCEPT
                    !.live = None, !.stopped = late]
    /\ UNCHANGED rowVars

(* Fault: the branches are evaluated after the live match has moved on.      *)
BranchesLate(g, action, branches) ==
    LET s == Append(g.live.actions, action)
    IN  [i \in DOMAIN branches |->
            EvaluateBranch(g.build, Config(g, g.live), g.live.seed, s, branches[i], g.request.options)]

(* bridge.evaluate_branches, which leaves the live match where it is.        *)
Branches(g, action, branches) ==
    [i \in DOMAIN branches |->
        EvaluateBranch(g.build, Config(g, g.live), g.live.seed, g.live.actions, branches[i],
                       g.request.options)]

(* The process after it has evaluated these branches at the live decision;   *)
(* "branched" and "at" are not in the dataset.                               *)
AfterBranches(g, action, branches, case) ==
    LET view == LiveView(g)
        label == BestWorst(view, Branches(g, action, branches), g.request)
        row == [seed |-> g.live.seed, seat |-> view.seat, decision |-> view.index, view |-> view,
                preferred |-> label.preferred, avoided |-> label.avoided,
                preferredReward |-> label.preferredReward, avoidedReward |-> label.avoidedReward,
                case |-> case, branched |-> ToSet(branches),
                at |-> [build |-> g.build, config |-> Config(g, g.live), checkpoint |-> g.checkpoint]]
        called == [g EXCEPT !.calls = @ + 1]
    IN  IF Len(branches) < 2 THEN Skip(g, "few", 1)
        ELSE IF label = None THEN Skip(called, "noLabel", 1)
        ELSE [called EXCEPT !.rows = Append(@, row)]

(* The limit on the rows ends the generator, and so may that on the time     *)
(* after a call, before the match goes on.                                   *)
Limited(g, before) ==
    LET request == g.request
        full == request.maxRows > 0 /\ Len(g.rows) >= request.maxRows /\ Len(g.rows) > Len(before.rows)
    IN  IF full THEN {TRUE}
        ELSE IF request.clock /\ g.calls > before.calls THEN BOOLEAN ELSE {FALSE}

GoOn(g, before, action) ==
    \E stop \in Limited(g, before) :
        gen' = IF stop THEN [g EXCEPT !.live = None, !.stopped = TRUE]
               ELSE [g EXCEPT !.live.actions = Append(@, action)]

(* generate_branch_counterfactual_dataset: one decision.                     *)
DecideDiscard ==
    /\ gen # None /\ gen.live # None /\ gen.request.tool = "discards" /\ ~IsDone(gen)
    /\ LET view == LiveView(gen)
           choices == IF gen.request.random THEN ToSet(view.legal) ELSE {Greedy(gen.checkpoint, view)}
       IN  \E action \in choices :
              \E branches \in SelectBranchActions(view, action, gen.request.maxActions) :
                  GoOn(AfterBranches(gen, action, branches, None), gen, action)
    /\ UNCHANGED rowVars

(* generate_sampled_branch_counterfactual_dataset: one decision.             *)
DecideSampled ==
    /\ gen # None /\ gen.live # None /\ gen.request.tool = "sampled" /\ ~IsDone(gen)
    /\ LET top == Candidates(gen.checkpoint, LiveView(gen), gen.request.topK, gen.request.temperature)
           Matches(action) == gen.request.families = None
                              \/ {Family(top[1]), Family(action)} \subseteq gen.request.families
       IN  \E action \in ToSet(top) :
              GoOn(IF action = top[1] \/ ~Matches(action) THEN gen
                   ELSE AfterBranches(gen, action, <<top[1], action>>, None), gen, action)
    /\ UNCHANGED rowVars

(* generate_targeted_branch_counterfactual_dataset: one decision of the      *)
(* replay; a target of its number is taken off the pending ones.             *)
DecideTargeted ==
    /\ gen # None /\ gen.live # None /\ gen.request.tool = "targeted" /\ ~IsDone(gen)
    /\ LET view == LiveView(gen)
           action == Greedy(gen.checkpoint, view)
           pending == gen.live.pending
           g == [gen EXCEPT !.live.pending = Restrict(@, DOMAIN @ \ {view.index})]
       IN  IF view.index \notin DOMAIN pending THEN GoOn(gen, gen, action)
           ELSE \E branches \in SelectTargetBranchActions(view, pending[view.index],
                                    gen.request.families, gen.request.maxActions) :
                    GoOn(AfterBranches(g, action, branches, pending[view.index]), g, action)
    /\ UNCHANGED rowVars

(* branch_pair_rows_to_arrays raises on no rows, after all the work.         *)
FinishGenerator ==
    /\ gen # None /\ gen.live = None /\ (gen.episodes = <<>> \/ gen.stopped)
    /\ dataset' = IF gen.rows = <<>> THEN dataset ELSE [request |-> gen.request, rows |-> gen.rows]
    /\ gen' = None
    /\ UNCHANGED traceVars

GeneratorNext ==
    \/ \E request \in BranchRequests : StartGenerator(request)
    \/ ResetEpisode \/ EndEpisode
    \/ DecideDiscard \/ DecideSampled \/ DecideTargeted
    \/ FinishGenerator

BranchNext == GeneratorNext \/ (RowNext /\ UNCHANGED gen)
BranchSpec == BranchInit /\ [][BranchNext]_branchVars

-----------------------------------------------------------------------------
(* The actions that lead from the start of the checkpoint's own match to the *)
(* position of a row, if it has been there.                                  *)
PlayedTo(row) ==
    LET steps == StepsFrom(row.at.build, row.at.config, row.at.checkpoint, row.seed, <<>>)
        at == {i \in DOMAIN steps : steps[i].view = row.view}
    IN  IF at = {} THEN None ELSE Ids(SubSeq(steps, 1, Min(at) - 1))

(* A row of branches is evidence about its state: what it says was paid is   *)
(* what follows in the simulator when its action is executed there, to an    *)
(* end, and no branched action that could be played out was paid more than   *)
(* the preferred or less than the avoided.                                   *)
IsBranched(row, request, actions) ==
    LET Of(a) == EvaluateBranch(row.at.build, row.at.config, row.seed, actions, a, request.options)
        played == {a \in row.branched : Usable(Of(a), FamiliesOf(request))}
        Paid(a) == Of(a).rewards[row.seat]
    IN  /\ row.view = View(row.at.build, row.at.config, row.seed, actions)
        /\ {row.preferred, row.avoided} \subseteq played /\ row.preferred # row.avoided
        /\ Of(row.preferred).truncated = FALSE /\ Of(row.avoided).truncated = FALSE
        /\ row.preferredReward = Paid(row.preferred) /\ row.avoidedReward = Paid(row.avoided)
        /\ \A a \in played : Paid(a) \in row.avoidedReward..row.preferredReward

(* The replay of an unchanged anchor in an unchanged simulator is at the     *)
(* state where the traces parted, and branches on what both of them did      *)
(* there, when the actions are known.                                        *)
IsOnTarget(row) ==
    LET made == row.case.made
        ts == TracesOf(made, row.seed, row.seat)
        i == CHOOSE i \in DOMAIN ts[1].steps : PartAt(ts[1], ts[2], i)
    IN  made.build = row.at.build /\ made.left = row.at.checkpoint /\ made.cap = row.at.config.cap =>
            /\ row.view = ts[1].steps[i].view /\ row.view = ts[2].steps[i].view
            /\ row.case.left # None => ts[1].steps[i].action \in row.branched
            /\ row.case.right # None => ts[2].steps[i].action \in row.branched

BranchRowsAreExact ==
    dataset # None /\ dataset.request.tool \in {"discards", "targeted"}
      /\ (dataset.request.tool = "discards" => ~dataset.request.random) =>
        \A k \in DOMAIN dataset.rows :
            LET row == dataset.rows[k]
            IN  /\ PlayedTo(row) # None
                /\ IsBranched(row, dataset.request, PlayedTo(row))
                /\ dataset.request.tool = "targeted" => IsOnTarget(row)

(* Supervision is about states that were played, whichever of the tools made *)
(* it and whatever happened to the report in the meantime.                   *)
SupervisionExact == RowsAreSameState /\ BranchRowsAreExact

(* With the default least gap a row always prefers one action to another     *)
(* that was paid less.  (Not so: equal rewards are labelled by their order.) *)
NoTiesPreferred ==
    dataset # None /\ dataset.request.tool \in {"discards", "sampled", "targeted"} =>
        \A k \in DOMAIN dataset.rows :
            dataset.rows[k].preferredReward > dataset.rows[k].avoidedReward
=============================================================================
