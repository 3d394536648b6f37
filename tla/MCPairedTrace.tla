--------------------------- MODULE MCPairedTrace ---------------------------
(* Matches of three decisions at most on seat 0 (or 0 and 1 in turn); seed 3 *)
(* ends at its reset.  Actions 1, 2 and 4 are discards, 3 is a pon.          *)
EXTENDS Branching

MCBuilds == {0, 1}
MCCheckpoints == {"c0", "c1"}
MCScalars == {"rank", "danger"}
MCFamily(a) == IF a = 3 THEN "pon" ELSE "discard"

(* A number that tells the positions apart. *)
Mix(b, seed, actions) ==
    FoldLeft(LAMBDA n, a : 3 * n + a, 2 * seed + b, actions)

MCView(b, config, seed, actions) ==
    LET n == Mix(b, seed, actions)
        depth == Len(actions)
        index == 2 * depth + seed
        end == IF depth = 3 \/ seed = 3 THEN "over"
               ELSE IF config.cap > 0 /\ index >= config.cap THEN "cut" ELSE "no"
    IN  [seat |-> IF Cardinality(config.seats) = 1 THEN CHOOSE s \in config.seats : TRUE ELSE depth % 2,
         index |-> index, end |-> end,
         legal |-> IF end # "no" THEN <<>> ELSE IF n % 2 = 0 THEN <<1, 2, 3>> ELSE <<2, 3, 4>>,
         rewards |-> [s \in 0..3 |-> IF depth = 0 /\ seed # 3 THEN 0 ELSE ((n + s) % 3) - 1],
         outcome |-> IF end = "over" THEN [discarder |-> n % 2] ELSE None,
         scalars |-> [name \in MCScalars |-> (20 * n + (IF name = "rank" THEN 0 ELSE 7)) % 101]]

MCLogits(c, view) ==
    [a \in ToSet(view.legal) |-> IF c = "c0" THEN (a + view.index) % 3 ELSE (2 * a + view.scalars["rank"]) % 3]

MCRollout(b, config, seed, actions, options) ==
    LET n == Mix(b, seed, actions)
    IN  [truncated |-> options.most > 0 /\ n % 4 = 0,
         rewards |-> [s \in 0..3 |-> ((n \div 2 + s) % 4) - 1]]

Traced == [seeds |-> <<1, 2>>, seats |-> <<0>>, cap |-> 0, divergences |-> 2, resume |-> TRUE,
           interval |-> 1, arrays |-> TRUE, labels |-> <<"anchor", "candidate">>,
           threshold |-> -1, worst |-> 2]

MCTraceRequests ==
    {Traced,
     [Traced EXCEPT !.resume = FALSE, !.interval = 0, !.cap = 4, !.seeds = <<1, 2, 1>>,
                    !.labels = <<"old", "new">>, !.threshold = None],
     [Traced EXCEPT !.seeds = <<2, 3, 4>>, !.interval = 2]}

Filter == [tool |-> "risk", source |-> "first", policy |-> None, family |-> None, gap |-> 0,
           highRisk |-> FALSE, target |-> "avoided", threshold |-> -1]
Near == [tool |-> "near", source |-> "first", gap |-> 1, threshold |-> -1, decisionGap |-> 0,
         l1 |-> 10, linf |-> 25, jaccard |-> 95]
Weigh == [tool |-> "weights", player |-> "c0", startSeed |-> 1, episodes |-> 2,
          config |-> [seats |-> {0, 1}, cap |-> 0], indexed |-> TRUE, threshold |-> 0, worst |-> 1,
          labels |-> TRUE, gap |-> 1, weight |-> 3]

MCRowRequests ==
    {Filter, [Filter EXCEPT !.target = "preferred", !.highRisk = TRUE, !.family = "discard"],
     [Filter EXCEPT !.source = "all", !.policy = 1],
     [tool |-> "actionEV", source |-> "first", gap |-> 1, family |-> None],
     [tool |-> "actionEV", source |-> "later", gap |-> 0, family |-> "discard"],
     [tool |-> "delta", gap |-> 0],
     Near, [Near EXCEPT !.source = "all", !.decisionGap = 1],
     Weigh, [Weigh EXCEPT !.indexed = FALSE, !.labels = FALSE]}

Branched == [tool |-> "targeted", source |-> "pairs", most |-> 0, cap |-> 0, families |-> None,
             maxActions |-> 0, gap |-> 1, highRisk |-> FALSE, threshold |-> 0, maxRows |-> 0,
             clock |-> FALSE, options |-> [most |-> 0], episodes |-> 0, startSeed |-> 0, seats |-> {},
             random |-> FALSE, topK |-> 0, temperature |-> 0]

MCBranchRequests ==
    {Branched, [Branched EXCEPT !.maxActions = 2, !.gap = 0],
     [Branched EXCEPT !.source = "worst", !.families = {"discard"}, !.options = [most |-> 9]],
     [Branched EXCEPT !.tool = "discards", !.episodes = 3, !.startSeed = 1, !.seats = {0, 1},
                      !.options = [most |-> 9]],
     [Branched EXCEPT !.tool = "discards", !.episodes = 2, !.startSeed = 1, !.seats = {0},
                      !.maxActions = 1, !.random = TRUE, !.maxRows = 2, !.clock = TRUE],
     [Branched EXCEPT !.tool = "sampled", !.episodes = 2, !.startSeed = 1, !.seats = {0, 1},
                      !.topK = 2, !.temperature = 1, !.highRisk = TRUE]}

(* Tools and the tracing do not touch, but for the report that a tool reads  *)
(* at its start; so no tool runs while the tracing does, one that reads no   *)
(* report runs alone, and a behaviour ends with a dataset.                   *)
MCBranchInit == BranchInit /\ build = 0 /\ files = [left |-> "c0", right |-> "c1"]
MCBranchNext ==
    /\ dataset = None
    /\ BranchNext
    /\ gen' # gen \/ dataset' # dataset => trace = None
    /\ gen' # None /\ gen'.request.tool # "targeted" => events = 0
    /\ gen # None => gen' # gen \/ dataset' # dataset
MCBranchSpec == MCBranchInit /\ [][MCBranchNext]_branchVars
=============================================================================
