----------------------------- MODULE Evaluation -----------------------------
(* A candidate and a baseline are evaluated by two processes, each in turn   *)
(* from every seat over the same wall seeds (scripts/evaluate.py,            *)
(* evaluate.py, batched_eval.py), and fh-mj-compare draws a verdict from     *)
(* their reports (scripts/compare_reports.py).  The simulator's library may  *)
(* be rebuilt, and be unreadable meanwhile, at any time.                     *)
EXTENDS RouteStudy

CONSTANTS Play(_, _, _, _, _),  \* library, policy, opponents, seat, seed -> match
          Requests,             \* command lines of fh-mj-evaluate
          Flags,                \* the --allow-... of fh-mj-compare
          Libraries,            \* contents of the library file
          Unreadable,           \* the file while it is being rebuilt
          Rebuilds              \* bound: changes of the file

ASSUME EvaluationAssumption == Unreadable \notin Libraries /\ Rebuilds \in Nat

VARIABLES library,      \* the library file
          rebuilds,
          evals,        \* side -> an evaluation
          verdicts      \* what fh-mj-compare said

evalVars == <<library, rebuilds, evals, verdicts>>

Pair == {"candidate", "baseline"}
NoEval == [at |-> "none"]
-----------------------------------------------------------------------------
(* Command lines. *)

Sampled(r) == r.sample
Batched(r) == r.slots > 0
Strong(r) == r.opponent # None
EvalOracle(r) == r.oracle /\ ~r.fromOracle

(* parse_seed_windows: START:COUNT, or START with as many as the episodes.   *)
RangeOf(start, count) == [i \in 1..count |-> start + i - 1]
SeedsOf(r) ==
    IF r.windows = <<>> THEN RangeOf(r.startSeed, r.episodes)
    ELSE FlattenSeq([i \in DOMAIN r.windows |->
            RangeOf(r.windows[i][1], IF Len(r.windows[i]) = 2 THEN r.windows[i][2] ELSE r.episodes)])

(* resolve_max_steps_per_episode                                             *)
MaxSteps(r) == IF r.maxSteps = None /\ r.mode = "chongci" THEN "4000" ELSE r.maxSteps

(* The arguments that main refuses before it plays anything: those of the    *)
(* sampler,                                                                  *)
SamplerAllowed(r) == Sampled(r) => r.duplicate

(* opponent_sampling_from_args, for opponents that sample,                   *)
OpponentSamplerAllowed(r) == r.opponentSample => Strong(r) /\ Batched(r)

(* of the batched evaluator,                                                 *)
BatchAllowed(r) ==
    IF Batched(r) THEN r.duplicate /\ ~r.search /\ ~Sampled(r) /\ ~r.oracle /\ ~r.fromOracle
    ELSE r.inference = "batched" /\ r.transform = "plain"

(* of a strong table,                                                        *)
TableAllowed(r) ==
    Strong(r) => r.duplicate /\ ~r.search /\ ~Sampled(r) /\ ~r.oracle /\ ~r.fromOracle

(* of event histories, and what the checkpoint's metadata pins of the model, *)
WindowAllowed(r) ==
    /\ r.modelWindow > 0 => ~r.offline /\ (r.episodes > 0 => r.window = r.modelWindow)
    /\ r.checkpoint.pinned # None => r.checkpoint.pinned = r.modelWindow
    /\ r.window > 0 => ~r.search /\ ~Sampled(r)

(* of the search,                                                            *)
SearchAllowed(r) == r.search => r.duplicate /\ ~Sampled(r) /\ ~EvalOracle(r)

(* and of look-ahead planes.                                                 *)
LookaheadAllowed(r) ==
    /\ r.lookahead # None => r.lookahead = r.checkpoint.lookahead
    /\ r.checkpoint.lookahead > 0 =>
          r.duplicate /\ Batched(r) /\ r.transform # "ensemble" /\ ~r.fromOracle /\ ~r.oracle
          /\ ~r.search /\ ~Sampled(r)

(* load_opponent_policy: the opponents' histories fit in the table's, and    *)
(* their planes are those of the table or a prefix of them.                  *)
OpponentsFit(r) ==
    Strong(r) => /\ r.opponent.window <= r.window
                 /\ r.opponent.lookahead \in {0, r.checkpoint.lookahead}

Admitted(r) ==
    /\ SamplerAllowed(r) /\ OpponentSamplerAllowed(r) /\ BatchAllowed(r) /\ TableAllowed(r)
    /\ WindowAllowed(r) /\ SearchAllowed(r) /\ LookaheadAllowed(r) /\ OpponentsFit(r)
-----------------------------------------------------------------------------
(* A report's account of how it was made. *)

PolicyOf(r) ==
    [checkpoint |-> r.checkpoint.id, transform |-> r.transform, fromOracle |-> r.fromOracle,
     decides |-> IF r.search THEN "search" ELSE IF Sampled(r) THEN "sampled" ELSE "greedy"]

(* The record of load_opponent_policy: hashed from the bytes it is loaded    *)
(* from.                                                                     *)
OpponentsOf(r) ==
    IF Strong(r) THEN [sha256 |-> r.opponent.id,
                       decision |-> IF r.opponentSample THEN "sampled" ELSE "greedy"]
    ELSE None

(* The blocks that are there only for a policy that is not greedy.           *)
ProtocolOf(r) == IF r.search THEN {"search"} ELSE IF Sampled(r) THEN {"sampling"} ELSE {}

(* evaluate_seats_batched: no more slots than there are matches for a pool.  *)
JobsPerPool(r) == Len(SeedsOf(r)) * (IF Strong(r) THEN Cardinality(Seats) ELSE 1)
EvaluatorOf(r) ==
    IF Batched(r) THEN [slots |-> Max({1, Min({r.slots, JobsPerPool(r)})}), inference |-> r.inference]
    ELSE None

ConfigKeys == {"mode", "seats", "maxSteps", "oracle", "threshold", "window", "bridge"}

ConfigOf(r, digest) ==
    [k \in ConfigKeys |->
        CASE k = "mode" -> r.mode [] k = "seats" -> "0123" [] k = "maxSteps" -> MaxSteps(r)
          [] k = "oracle" -> EvalOracle(r) [] k = "threshold" -> LossThreshold
          [] k = "window" -> r.window [] k = "bridge" -> digest]
-----------------------------------------------------------------------------
(* Playing. *)

(* Fault: the bridges are loaded from the library's own path.                *)
SnapshotNot(content) == [digest |-> content, private |-> None]

(* _snapshot_bridge_library: one read for the digest and for a private copy; *)
(* a library that cannot be read has no digest and no copy.                  *)
Snapshot(content) ==
    IF content = Unreadable THEN [digest |-> None, private |-> None]
    ELSE [digest |-> content, private |-> content]

(* main up to the first match.                                               *)
StartEvaluation(side) ==
    /\ evals[side].at = "none"
    /\ \E r \in Requests :
        evals' = [evals EXCEPT ![side] =
            IF ~Admitted(r) THEN [at |-> "refused", request |-> r]
            ELSE [at |-> "playing", request |-> r, snapshot |-> Snapshot(library),
                  loaded |-> <<>>]]
    /\ UNCHANGED <<library, rebuilds, verdicts>>

(* build_bridge, and CtypesGoBridge.__init__: the library at the path that   *)
(* the snapshot gave.                                                        *)
Loadable(e) == IF e.snapshot.private # None THEN e.snapshot.private ELSE library

(* Every seat has a bridge or a pool of its own, but one pool plays all      *)
(* seats of a strong table in the batched evaluator.                         *)
SeatsOfBridge(r, n) == IF Batched(r) /\ Strong(r) THEN Cardinality(Seats) - n ELSE 1

PlaySeats(side) ==
    LET e == evals[side] IN
    /\ e.at = "playing" /\ Len(e.loaded) < Cardinality(Seats)
    /\ IF Loadable(e) = Unreadable
       THEN evals' = [evals EXCEPT ![side].at = "failed"]
       ELSE evals' = [evals EXCEPT ![side].loaded =
                @ \o [i \in 1..SeatsOfBridge(e.request, Len(@)) |-> Loadable(e)]]
    /\ UNCHANGED <<library, rebuilds, verdicts>>

(* One learner's seat against the table, over the seeds.                     *)
MatchesOf(e, seat) ==
    [i \in DOMAIN SeedsOf(e.request) |->
        Play(e.loaded[seat + 1], PolicyOf(e.request), OpponentsOf(e.request), seat,
             SeedsOf(e.request)[i])]

TailArrays == {"placements", "fourth", "losses", "utility"}

(* _clustered_report_fields: the arrays of the seats must be of one length.  *)
Ragged(reports) == \E s, t \in Seats : Len(reports[s].placements) # Len(reports[t].placements)

(* Fault: the seats one after the other.                                     *)
PerSeedFlat(reports, key) ==
    LET all == reports[0][key] \o reports[1][key] \o reports[2][key] \o reports[3][key]
    IN  [i \in DOMAIN reports[0][key] |-> FoldSet(LAMBDA s, n : n + all[4 * (i - 1) + s + 1], 0, Seats)]

(* clustered_metric_stats: a seed's mean over the seats, here their sum.     *)
PerSeed(reports, key) ==
    [i \in DOMAIN reports[0][key] |-> FoldSet(LAMBDA s, n : n + reports[s][key][i], 0, Seats)]

(* aggregate_duplicate_seat_reports, for a request with --duplicate-seats.   *)
(* A report of one seat has no seed list.                                    *)
WriteReport(side) ==
    LET e == evals[side]
        r == e.request
        reports == [s \in Seats |-> SeatReport(MatchesOf(e, s), s)]
    IN
    /\ e.at = "playing" /\ Len(e.loaded) = Cardinality(Seats)
    /\ IF r.duplicate /\ Ragged(reports)
       THEN evals' = [evals EXCEPT ![side].at = "failed"]
       ELSE evals' = [evals EXCEPT ![side] =
            [at |-> "reported", request |-> r, loaded |-> e.loaded, nested |-> TRUE,
             seeds |-> IF r.duplicate THEN SeedsOf(r) ELSE None,
             config |-> ConfigOf(r, e.snapshot.digest), evaluator |-> EvaluatorOf(r),
             lookahead |-> r.checkpoint.lookahead, opponents |-> OpponentsOf(r),
             wrapper |-> ProtocolOf(r), protocol |-> ProtocolOf(r),
             perSeed |-> [k \in TailArrays |-> PerSeed(reports, k)],
             perSeat |-> [s \in Seats |-> reports[s].placements]]]
    /\ UNCHANGED <<library, rebuilds, verdicts>>

(* The duplicate-seat report is taken out of the file that main writes.      *)
ExtractReport(side) ==
    /\ evals[side].at = "reported" /\ evals[side].nested
    /\ evals' = [evals EXCEPT ![side].nested = FALSE, ![side].wrapper = {}]
    /\ UNCHANGED <<library, rebuilds, verdicts>>

(* A report of an evaluator that did not yet write the tail metrics, nor     *)
(* what it was configured with but for the match.                            *)
AgeReport(side) ==
    /\ evals[side].at = "reported" /\ DOMAIN evals[side].config = ConfigKeys
    /\ evals' = [evals EXCEPT ![side].config = Restrict(@, {"mode", "seats"}),
                              ![side].perSeed = <<>>]
    /\ UNCHANGED <<library, rebuilds, verdicts>>

Rebuild ==
    /\ rebuilds < Rebuilds
    /\ rebuilds' = rebuilds + 1
    /\ library' \in (Libraries \cup {Unreadable}) \ {library}
    /\ UNCHANGED <<evals, verdicts>>
-----------------------------------------------------------------------------
(* fh-mj-compare. *)

(* _unwrap_report: the blocks of the file and of the report in it.           *)
Protocol(x) == x.wrapper \cup x.protocol

(* Fault: reports say nothing of their opponents.                            *)
SameGameAnyTable(a, b) == Protocol(a) = Protocol(b) /\ a.evaluator = b.evaluator

(* _check_comparable, what no flag relaxes,                                  *)
SameGame(a, b) ==
    /\ Protocol(a) = Protocol(b) /\ a.opponents = b.opponents /\ a.evaluator = b.evaluator

(* the look-ahead planes,                                                    *)
SameLookahead(a, b, f) == a.lookahead = b.lookahead \/ "lookahead" \in f

(* and the keys: absent, or a digest that is none, is forgiven only by       *)
(* --allow-missing-config; different, by the flag of its own.                *)
SameKey(a, b, f, k) ==
    IF ~({k} \subseteq DOMAIN a.config /\ {k} \subseteq DOMAIN b.config) THEN "missing" \in f
    ELSE IF k = "bridge" /\ (a.config[k] = None \/ b.config[k] = None) THEN "missing" \in f
    ELSE a.config[k] = b.config[k] \/ k \in f \cap {"bridge", "window"}

Comparable(a, b, f) ==
    SameGame(a, b) /\ SameLookahead(a, b, f) /\ \A k \in ConfigKeys : SameKey(a, b, f, k)

(* Fault: seeds that come twice are two clusters.                            *)
SameSeedsTwice(a, b) == a.seeds \notin {None, <<>>} /\ a.seeds = b.seeds

(* paired_comparison: the same seeds, each of them once.                     *)
SameSeeds(a, b) ==
    /\ a.seeds \notin {None, <<>>} /\ a.seeds = b.seeds
    /\ IsInjective(a.seeds)

(* _per_seed_means: the report's own, if there is one for every seed, or     *)
(* those of its seats.                                                       *)
HasTail(x) == DOMAIN x.perSeed = TailArrays
SeedMeans(x) ==
    IF HasTail(x) /\ Len(x.perSeed["placements"]) = Len(x.seeds) THEN x.perSeed["placements"]
    ELSE IF \A s \in Seats : Len(x.perSeat[s]) = Len(x.seeds)
         THEN [i \in DOMAIN x.seeds |-> FoldSet(LAMBDA s, n : n + x.perSeat[s][i], 0, Seats)]
         ELSE None

(* _tail_metrics: in both reports or in none, one entry for a seed.          *)
TailPaired(a, b) ==
    /\ HasTail(a) = HasTail(b)
    /\ HasTail(a) => \A k \in TailArrays \ {"placements"} :
          Len(a.perSeed[k]) = Len(a.seeds) /\ Len(b.perSeed[k]) = Len(b.seeds)

Deltas(u, v) == [i \in DOMAIN u |-> u[i] - v[i]]

ConfigValue(x, k) == IF k \in DOMAIN x.config THEN x.config[k] ELSE None
Check(same) == IF same THEN "match" ELSE "mismatch-allowed"

Verdict(a, b, f) ==
    [strict |-> "missing" \notin f,
     bridge |-> Check(ConfigValue(a, "bridge") = ConfigValue(b, "bridge")),
     window |-> Check(ConfigValue(a, "window") = ConfigValue(b, "window")),
     lookahead |-> Check(a.lookahead = b.lookahead),
     deltas |-> Deltas(SeedMeans(a), SeedMeans(b)),
     tail |-> IF HasTail(a)
              THEN [k \in TailArrays \ {"placements"} |-> Deltas(a.perSeed[k], b.perSeed[k])]
              ELSE None]

Compare(f) ==
    LET a == evals["candidate"]
        b == evals["baseline"]
    IN
    /\ a.at = "reported" /\ b.at = "reported" /\ f \notin DOMAIN verdicts
    /\ verdicts' = (f :> IF /\ Comparable(a, b, f) /\ SameSeeds(a, b) /\ TailPaired(a, b)
                            /\ SeedMeans(a) # None /\ SeedMeans(b) # None
                         THEN Verdict(a, b, f) ELSE None) @@ verdicts
    /\ UNCHANGED <<library, rebuilds, evals>>
-----------------------------------------------------------------------------
EvalInit ==
    /\ library \in Libraries \cup {Unreadable} /\ rebuilds = 0
    /\ evals = [side \in Pair |-> NoEval]
    /\ verdicts = <<>>

EvalStep(side) ==
    \/ StartEvaluation(side) \/ PlaySeats(side) \/ WriteReport(side)
    \/ ExtractReport(side) \/ AgeReport(side)

EvalNext ==
    \/ \E side \in Pair : EvalStep(side)
    \/ \E f \in Flags : Compare(f)
    \/ Rebuild
-----------------------------------------------------------------------------
(* What a match is worth: the seats below less the seats above the learner,  *)
(* and the least there is if it was cut.                                     *)
Worth(match, s) ==
    LET net == [t \in Seats |-> match.reset[t] +
                    MapThenSumSet(LAMBDA i : match.steps[i].rewards[t], DOMAIN match.steps)]
    IN  IF EndOf(match) = "cut" THEN -3
        ELSE Cardinality({t \in Seats : net[t] < net[s]}) - Cardinality({t \in Seats : net[t] > net[s]})

(* A verdict for which no check was relaxed and that reports no mismatch     *)
(* compares two policies in the same simulator, which both processes really  *)
(* loaded for every seat, against the same table, and sets against each      *)
(* other, seed by seed, what all four seats of either came to ("every        *)
(* promotion or lever-verdict claim must come from this tool").              *)
VerdictPaired ==
    \A f \in DOMAIN verdicts :
        LET v == verdicts[f]
            a == evals["candidate"]
            b == evals["baseline"]
            Total(x, seed) == MapThenSumSet(
                LAMBDA s : Worth(Play(x.loaded[1], PolicyOf(x.request), OpponentsOf(x.request), s, seed), s),
                Seats)
        IN  v # None /\ v.strict /\ {v.bridge, v.window, v.lookahead} = {"match"} =>
                /\ \E l \in Libraries : ToSet(a.loaded) \cup ToSet(b.loaded) = {l}
                /\ OpponentsOf(a.request) = OpponentsOf(b.request)
                /\ PolicyOf(a.request).decides = PolicyOf(b.request).decides
                /\ a.request.window = b.request.window
                /\ \A i, j \in DOMAIN v.deltas : i # j => a.seeds[i] # a.seeds[j]
                /\ v.deltas = [i \in DOMAIN a.seeds |->
                      Twelfths * (Total(a, a.seeds[i]) - Total(b, a.seeds[i]))]
=============================================================================
