---------------------------- MODULE MCEvaluation ----------------------------
(* Evaluations and paired traces, which have nothing in common: a behaviour  *)
(* is one of either.  Evaluated matches are of two hands at most, the first  *)
(* won by a draw, the second off a discard; some are cut, some end or are    *)
(* abandoned at their reset.                                                 *)
EXTENDS Benchmark, MCPairedTrace

CONSTANTS L1, L2

MCLossThreshold == -2

Ckpt(id, pinned, lookahead) == [id |-> id, pinned |-> pinned, lookahead |-> lookahead]
Opp(id, window) == [id |-> id, window |-> window, lookahead |-> 0]

Lib(l) == IF l = L1 THEN 0 ELSE 1
Weight(policy) == IF policy.checkpoint = "cand" THEN 0 ELSE 2
Spread(l, policy, table, seat, seed) ==
    Lib(l) + Weight(policy) + (IF policy.transform = "plain" THEN 0 ELSE 1)
    + (IF table = None THEN 0 ELSE 1) + seat + 3 * seed

Probe(n, seat, may) ==
    [routes |-> [q \in Routes |-> (IF q = "standard" THEN n ELSE n + seat) % 4],
     melds |-> IF n % 5 = 0 THEN 1 ELSE 0, wilds |-> n % 3,
     discards |-> IF ~may THEN <<>>
                  ELSE [tile \in 1..2 |-> [q \in Routes |-> IF q = "standard" THEN tile ELSE 2 - tile]]]

Outcome(type, winner, discarder, points) ==
    [draw |-> FALSE, type |-> type, winner |-> winner, discarder |-> discarder, points |-> points,
     route |-> IF points = 2 THEN "standard" ELSE "independence",
     payouts |-> IF type = "tsumo" THEN [t \in Seats |-> IF t = winner THEN 3 * points ELSE -points]
                 ELSE [t \in Seats |-> IF t = winner THEN points ELSE IF t = discarder THEN -points ELSE 0]]

Step(n, seat, outcome, end) ==
    [seat |-> seat, rewards |-> IF outcome = None THEN Zero ELSE outcome.payouts,
     outcome |-> outcome, end |-> end, probe |-> Probe(n, seat, n % 2 = 0),
     family |-> IF n % 2 = 0 THEN "discard" ELSE IF n % 3 = 0 THEN "pon" ELSE "pass",
     tile |-> 1 + ((n % 3) % 2), offer |-> n % 4 = 1]

MCPlay(l, policy, table, seat, seed) ==
    LET n == Spread(l, policy, table, seat, seed)
        other == IF table = None THEN seat ELSE (seat + 1) % 4
        won == Outcome("tsumo", n % 4, -1, 1)
        dealt == Outcome("ron", (n + 1) % 4, (n + 3) % 4, 2)
        end == IF n % 7 = 3 THEN "cut" ELSE IF seed = 3 /\ seat < 2 THEN "idle" ELSE "over"
        steps == CASE n % 3 = 0 -> <<Step(n, seat, won, end)>>
                   [] n % 3 = 1 -> <<Step(n + 1, other, won, "no"), Step(n, seat, dealt, end)>>
                   [] OTHER -> <<Step(n, seat, None, "no"), Step(n + 1, other, None, "no"),
                                 Step(n + 2, seat, IF end = "over" THEN won ELSE None, end)>>
        atReset == seed = 4 /\ seat < 3
    IN  [reset |-> IF seed % 2 = 0 THEN [t \in Seats |-> IF t = seat THEN 2 ELSE 0] ELSE Zero,
         resetEnd |-> IF atReset THEN IF seat = 0 THEN "idle" ELSE "over" ELSE "no",
         resetOutcome |-> IF atReset /\ seat = 1 THEN dealt ELSE None,
         steps |-> IF atReset THEN <<>> ELSE steps]

Plain == [checkpoint |-> Ckpt("cand", None, 0), duplicate |-> TRUE, slots |-> 0, inference |-> "batched",
          transform |-> "plain", opponent |-> None, opponentSample |-> FALSE, sample |-> FALSE,
          search |-> FALSE, oracle |-> FALSE, fromOracle |-> FALSE, window |-> 0, modelWindow |-> 0,
          lookahead |-> None, offline |-> FALSE, mode |-> "chongci", maxSteps |-> None,
          startSeed |-> 1, episodes |-> 2, windows |-> <<>>]

Strong1 == [Plain EXCEPT !.opponent = Opp("o1", 0)]

MCRequests ==
    {Plain, Strong1,
     [Plain EXCEPT !.checkpoint = Ckpt("base", None, 0)],
     [Plain EXCEPT !.window = 2, !.modelWindow = 2, !.checkpoint = Ckpt("cand", 2, 0), !.duplicate = FALSE],
     [Plain EXCEPT !.windows = <<<<1>>, <<2, 1>>>>],
     [Plain EXCEPT !.windows = <<<<3, 2>>>>, !.sample = TRUE],
     [Strong1 EXCEPT !.slots = 8, !.checkpoint = Ckpt("base", None, 0)],
     [Strong1 EXCEPT !.slots = 8, !.opponentSample = TRUE],
     [Plain EXCEPT !.slots = 2, !.transform = "suits", !.checkpoint = Ckpt("base", None, 1)],
     \* refused
     [Strong1 EXCEPT !.search = TRUE],
     [Plain EXCEPT !.modelWindow = 2, !.window = 1],
     [Plain EXCEPT !.checkpoint = Ckpt("cand", None, 1)]}

MCFlags == {{}, {"missing"}, {"bridge", "window", "lookahead"}}

Bench == [episodes |-> 2, workers |-> 1, slots |-> 0, study |-> FALSE, littered |-> FALSE, transform |-> "plain",
          opponent |-> None, opponentSample |-> FALSE, window |-> 0, startSeed |-> 1]

MCBenchmarks ==
    {Bench, [Bench EXCEPT !.workers = 2, !.study = TRUE],
     [Bench EXCEPT !.workers = 2, !.slots = 2],
     [Bench EXCEPT !.study = TRUE, !.opponent = Opp("o1", 0)],
     \* refused
     [Bench EXCEPT !.study = TRUE, !.littered = TRUE]}

(* The process is a benchmark, or there are two evaluations and one verdict. *)
(* Evaluations have nothing in common but the library, so one is played      *)
(* after the other, and verdicts do not depend on each other.                *)
Evaluating ==
    \/ (\A side \in Pair : evals[side].at = "none") /\ BenchNext
    \/ /\ verdicts = <<>>
       /\ \/ bench.at = "none" /\ evals["baseline"].at = "none" /\ EvalStep("candidate")
          \/ bench.at = "none" /\ evals["candidate"].at = "reported" /\ EvalStep("baseline")
          \/ bench.at = "none" /\ \E f \in Flags : Compare(f)
          \/ /\ {evals["baseline"].at, bench.at} \subseteq {"none", "playing"}
             /\ Rebuild
       /\ UNCHANGED benchVars

MCInit == Init /\ MCBranchInit
MCNext ==
    \/ /\ events = 0 /\ trace = None /\ gen = None /\ dataset = None
       /\ Evaluating /\ UNCHANGED branchVars
    \/ /\ library = L1 /\ rebuilds = 0 /\ verdicts = <<>> /\ bench.at = "none"
       /\ \A side \in Pair : evals[side].at = "none"
       /\ MCBranchNext /\ UNCHANGED vars
MCSpec == MCInit /\ [][MCNext]_<<vars, branchVars>>
=============================================================================
