----------------------------- MODULE Benchmark -----------------------------
(* fh-mj-benchmark (scripts/benchmark.py): a checkpoint from every seat over *)
(* wall seeds of that seat's own, in this process or cut into chunks for a   *)
(* pool of worker processes, through the sequential or the batched           *)
(* evaluator, with a route study of the decisions or without.                *)
EXTENDS Evaluation

CONSTANTS Benchmarks,   \* command lines of fh-mj-benchmark
          MayBreak      \* whether a worker process may be killed

(* episodes: matches a seat; slots: 0 for the sequential evaluator; study:   *)
(* --route-study; littered: its directory is not empty; opponent: of the     *)
(* strong table, or None.                                                    *)
IsBenchmark(r) ==
    /\ r.episodes \in Nat \ {0} /\ r.workers \in Nat \ {0} /\ r.slots \in Nat
    /\ {r.study, r.littered} \subseteq BOOLEAN

ASSUME BenchmarkAssumption == (\A r \in Benchmarks : IsBenchmark(r)) /\ MayBreak \in BOOLEAN

VARIABLES bench,      \* the process
          shards      \* seat and seeds of the raw records written: file -> times opened

benchVars == <<bench, shards>>

NoBench == [at |-> "none"]

(* The guards of main.                                                       *)
BenchAllowed(r) ==
    /\ r.slots > 0 => ~r.study
    /\ r.study => ~r.littered
    /\ r.slots = 0 => r.transform # "faces" /\ ~r.opponentSample
    /\ r.opponentSample => r.opponent # None

BenchPolicy(r) == [checkpoint |-> "cand", transform |-> r.transform]
BenchTable(r) == IF r.opponent = None THEN None ELSE [sha256 |-> r.opponent.id, decision |-> "greedy"]
SeedOf(r, seat, i) == r.startSeed + seat * r.episodes + i
-----------------------------------------------------------------------------
(* Fault: a chunk begins where the last seat's began.                        *)
PlanChunksOneRange(r) ==
    LET size == Max({1, (r.episodes * 4 + 4 * r.workers - 1) \div (4 * r.workers)})
        First(i) == (i - 1) * size
    IN  FlattenSeq([s \in 1..4 |->
            [i \in 1..((r.episodes + size - 1) \div size) |->
                [seat |-> s - 1, seeds |-> [k \in 1..Min({size, r.episodes - First(i)}) |->
                    SeedOf(r, 0, First(i) + k - 1)]]]])

(* plan_chunks: the seeds of a seat in chunks of about a quarter of a        *)
(* worker's share.                                                           *)
PlanChunks(r) ==
    LET size == Max({1, (r.episodes * 4 + 4 * r.workers - 1) \div (4 * r.workers)})
        First(i) == (i - 1) * size
    IN  FlattenSeq([s \in 1..4 |->
            [i \in 1..((r.episodes + size - 1) \div size) |->
                [seat |-> s - 1, seeds |-> [k \in 1..Min({size, r.episodes - First(i)}) |->
                    SeedOf(r, s - 1, First(i) + k - 1)]]]])

(* With one worker a seat is one job, and there is no pool.                  *)
Jobs(r) ==
    IF r.workers > 1 THEN PlanChunks(r)
    ELSE [s \in 1..4 |-> [seat |-> s - 1, seeds |-> [k \in 1..r.episodes |-> SeedOf(r, s - 1, k - 1)]]]

(* _run_chunk and _run_batched_chunk; what evaluate_policy_online records    *)
(* of the study.  In the heuristic table only the learner's seat decides.    *)
Recorded(r, seat) == IF r.opponent = None THEN {seat} ELSE Seats

ChunkReport(r, job, lib) ==
    LET matches == [i \in DOMAIN job.seeds |->
                       Play(lib, BenchPolicy(r), BenchTable(r), job.seat, job.seeds[i])]
    IN  [main |-> SeatReport(matches, job.seat),
         study |-> IF r.study THEN StudyOf(matches, job.seat, Recorded(r, job.seat)) ELSE <<>>]

(* _snapshot_bridge_library is called by the batched evaluator alone; in     *)
(* either case the library is read when a job begins.                        *)
StartBenchmark ==
    /\ bench.at = "none"
    /\ \E r \in Benchmarks :
        IF ~BenchAllowed(r) \/ (r.opponent # None /\ r.opponent.window > r.window)
        THEN /\ bench' = [at |-> "refused", request |-> r]
             /\ UNCHANGED shards
        ELSE /\ bench' = [at |-> "playing", request |-> r, next |-> 1, busy |-> <<>>,
                          got |-> <<>>, loaded |-> {}]
             /\ UNCHANGED shards
    /\ UNCHANGED evalVars

(* A worker takes the first job that waits.  Each seat and range of seeds    *)
(* has a shard of raw records (route_study_shard_path).                      *)
TakeChunk(w) ==
    /\ bench.at = "playing" /\ w \notin DOMAIN bench.busy
    /\ bench.next <= Len(Jobs(bench.request)) /\ library # Unreadable
    /\ LET file == Jobs(bench.request)[bench.next] IN
       shards' = IF ~bench.request.study THEN shards
                 ELSE (file :> 1 + (IF file \in DOMAIN shards THEN shards[file] ELSE 0)) @@ shards
    /\ bench' = [bench EXCEPT !.next = @ + 1, !.loaded = @ \cup {library},
                              !.busy = (w :> [job |-> bench.next, lib |-> library]) @@ @]
    /\ UNCHANGED evalVars

(* as_completed: reports come in any order and are kept by their job.        *)
ChunkDone(w) ==
    /\ bench.at = "playing" /\ w \in DOMAIN bench.busy
    /\ LET b == bench.busy[w] IN
       bench' = [bench EXCEPT
           !.got = (b.job :> b.lib) @@ @,
           !.busy = Restrict(@, DOMAIN @ \ {w})]
    /\ UNCHANGED <<evalVars, shards>>

(* A bridge cannot be loaded, or the pool is broken by a worker that died:   *)
(* there is no report.                                                       *)
ChunkFails ==
    /\ bench.at = "playing"
    /\ \/ library = Unreadable /\ bench.next <= Len(Jobs(bench.request))
       \/ MayBreak /\ bench.request.workers > 1
    /\ bench' = [at |-> "failed"]
    /\ UNCHANGED <<evalVars, shards>>

-----------------------------------------------------------------------------
(* combine_chunk_reports: what merge_seat_reports reads of a seat.           *)
Combined(chunks) ==
    LET All(key) == FlattenSeq([i \in DOMAIN chunks |-> chunks[i].main[key]])
        Total(key) == FoldLeft(LAMBDA n, c : n + c.main[key], 0, chunks)
    IN  [main |-> [hands |-> All("hands"), placements |-> All("placements"), kinds |-> All("kinds"),
                   unknown |-> Total("unknown"), cuts |-> Total("cuts"),
                   wins |-> MergeTallies([i \in DOMAIN chunks |-> chunks[i].main.wins])],
         study |-> MergeStudies([i \in DOMAIN chunks |-> chunks[i].study])]

(* The chunks of each seat, in the order of the jobs.                        *)
ChunksOf(b) ==
    [s \in Seats |-> SelectSeq([i \in DOMAIN Jobs(b.request) |-> i],
                               LAMBDA i : Jobs(b.request)[i].seat = s)]

(* placement_rate_counts: matches by final rank; a tied rank is no rank.     *)
RankCounts(placements) ==
    [rank \in {"1st", "2nd", "3rd", "4th", "tied"} |->
        Len(SelectSeq(placements, LAMBDA p :
            rank = CASE p = Twelfths * EvalPlacement[1] -> "1st"
                     [] p = Twelfths * EvalPlacement[2] -> "2nd"
                     [] p = Twelfths * EvalPlacement[3] -> "3rd"
                     [] p = Twelfths * EvalPlacement[4] -> "4th"
                     [] OTHER -> "tied"))]

(* merge_seat_reports.  The matches in their order are what the intervals    *)
(* are drawn from (bootstrap_hand_stats_ci, with a seed of its own).         *)
Merged(seats) ==
    LET pooled == seats[0].main.hands \o seats[1].main.hands
                  \o seats[2].main.hands \o seats[3].main.hands
        unknown == FoldFunction(+, 0, [s \in Seats |-> seats[s].main.unknown])
    IN  [stats |-> HandStats(pooled, unknown), pooled |-> pooled,
         ranks |-> [s \in Seats |-> RankCounts(seats[s].main.placements)],
         cuts |-> [s \in Seats |-> seats[s].main.cuts],
         kinds |-> [s \in Seats |-> [k \in ToSet(seats[s].main.kinds) |->
                        Len(SelectSeq(seats[s].main.kinds, LAMBDA x : x = k))]],
         wins |-> MergeTallies([i \in 1..4 |-> seats[i - 1].main.wins]),
         study |-> MergeStudies([i \in 1..4 |-> seats[i - 1].study])]

WriteBenchmark ==
    /\ bench.at = "playing" /\ DOMAIN bench.got = DOMAIN Jobs(bench.request)
    /\ LET r == bench.request
           chunks == ChunksOf(bench)
           ReportOf(i) == ChunkReport(r, Jobs(r)[i], bench.got[i])
       IN  bench' = [at |-> "written", request |-> r, loaded |-> bench.loaded,
                     payload |-> Merged([s \in Seats |->
                         Combined([i \in DOMAIN chunks[s] |-> ReportOf(chunks[s][i])])])]
    /\ UNCHANGED <<evalVars, shards>>
-----------------------------------------------------------------------------
BenchInit == bench = NoBench /\ shards = <<>>

Workers == IF bench.at = "playing" THEN 1..bench.request.workers ELSE {}

BenchNext ==
    \/ StartBenchmark \/ ChunkFails \/ WriteBenchmark
    \/ \E w \in Workers : TakeChunk(w) \/ ChunkDone(w)

Init == EvalInit /\ BenchInit
Next == BenchNext \/ (EvalNext /\ UNCHANGED benchVars)

vars == <<evalVars, benchVars>>
Spec == Init /\ [][Next]_vars
-----------------------------------------------------------------------------
(* A benchmark is the same whatever the workers, the order in which they     *)
(* answer and the evaluator ("same report as --workers 1"): it counts every  *)
(* match of every seat once, with seeds no two seats share, in the order     *)
(* that the intervals are drawn in; provided that the simulator was the same *)
(* throughout.                                                               *)
BenchmarkWhole ==
    bench.at = "written" =>
        LET r == bench.request
            lib == CHOOSE l \in bench.loaded : TRUE
            MatchesAt(s) == [i \in 1..r.episodes |->
                Play(lib, BenchPolicy(r), BenchTable(r), s, r.startSeed + r.episodes * s + i - 1)]
            Counted(s) == SelectSeq(MatchesAt(s), IsRecorded)
        IN  Cardinality(bench.loaded) = 1 =>
                /\ bench.payload.pooled = FlattenSeq([k \in 1..4 |->
                      [i \in DOMAIN Counted(k - 1) |->
                          [j \in DOMAIN Delivered(Counted(k - 1)[i]) |->
                              HandRecord(Delivered(Counted(k - 1)[i])[j], k - 1)]]])
                /\ bench.payload.study =
                      IF ~r.study THEN <<>>
                      ELSE MergeStudies([k \in 1..4 |->
                              StudyOf(MatchesAt(k - 1), k - 1, Recorded(r, k - 1))])
                /\ \A file \in DOMAIN shards : shards[file] = 1

(* "Ties receive averaged values, which match no rank - they are counted in  *)
(* a separate tied bucket rather than mislabeled."                           *)
TiesApart ==
    bench.at = "written" =>
        LET r == bench.request
            lib == CHOOSE l \in bench.loaded : TRUE
            Shares(s, match) == EndOf(match) # "cut" /\ Cardinality(PlacesOf(Net(match), s)) > 1
            Tied(s) == {i \in 1..r.episodes :
                LET match == Play(lib, BenchPolicy(r), BenchTable(r), s, SeedOf(r, s, i - 1))
                IN  IsRecorded(match) /\ Shares(s, match)}
        IN  Cardinality(bench.loaded) = 1 =>
                \A s \in Seats : bench.payload.ranks[s]["tied"] = Cardinality(Tied(s))
=============================================================================
