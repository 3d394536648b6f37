------------------------------ MODULE Matches ------------------------------
(***************************************************************************)
(* What a collector records of one match.  A match is fixed by its seed:   *)
(* the seats that decide, in order, the steps that close a hand, and        *)
(* whether the step cap cut it off.  Its step j answers its j-th decision   *)
(* and pays the reward named j; step 0 is the reset.                        *)
(*                                                                         *)
(* The accumulator of `train_b2b._B2bMatchState`, which the process and the *)
(* batched collector share, stands beside a definition of the rows it must  *)
(* come to.                                                                *)
(***************************************************************************)
EXTENDS Integers, Sequences, FiniteSets, SequencesExt, FiniteSetsExt

CONSTANT Worlds  \* what the simulator may do: see IsWorld

Seats == 0 .. 3

(* `plays`: for each match of an iteration, the seats that decide (nobody   *)
(* does in a match that ends at its reset); `ends`: the steps that carry a  *)
(* round outcome; `cut`: the matches that are truncated; `broken`: those on *)
(* which the simulator fails; `draws`: what a match's own generator draws   *)
(* for the other seats.                                                     *)
IsWorld(w) ==
    /\ \A m \in DOMAIN w.plays : w.plays[m] \in Seq(Seats)
    /\ w.draws \in [DOMAIN w.plays -> [Seats \ {0} -> Nat]]
    /\ w.ends \subseteq Nat \ {0}
    /\ w.cut \subseteq DOMAIN w.plays /\ w.broken \subseteq DOMAIN w.plays

ASSUME WorldAssumption == \A w \in Worlds : IsWorld(w)

-----------------------------------------------------------------------------
(* The accumulator. *)

NewMatch == [rows |-> [k \in Seats |-> <<>>], hand |-> 0, net |-> {}]

AddCredit(rows, j) ==
    IF rows = <<>> THEN rows ELSE [rows EXCEPT ![Len(rows)].credit = @ \cup {j}]

(* Fault: only the seat that decided is credited. *)
CreditOwnSeat(ms, j) ==
    [ms EXCEPT !.net = @ \cup {j},
               !.rows = [k \in Seats |->
                   IF @[k] # <<>> /\ Last(@[k]).step = j THEN AddCredit(@[k], j) ELSE @[k]]]

(* Every step's rewards go to the match's net and to the last row of every  *)
(* seat that has acted.                                                     *)
CreditStepRewards(ms, j) ==
    [ms EXCEPT !.net = @ \cup {j}, !.rows = [k \in Seats |-> AddCredit(@[k], j)]]

RecordOutcome(ms, w, j) == IF j \in w.ends THEN [ms EXCEPT !.hand = @ + 1] ELSE ms

RecordDecision(ms, m, seat, j) ==
    [ms EXCEPT !.rows[seat] = Append(@, [match |-> m, seat |-> seat, step |-> j,
                                         hand |-> ms.hand, credit |-> {}, done |-> FALSE])]

MarkDone(rows) == IF rows = <<>> THEN rows ELSE [rows EXCEPT ![Len(rows)].done = TRUE]

(* _finalize_b2b_match: the seats' rows one seat after the other, done at   *)
(* the end of each, and one entry of telemetry.                             *)
Finalize(ms, w, m) ==
    [rows |-> MarkDone(ms.rows[0]) \o MarkDone(ms.rows[1])
                \o MarkDone(ms.rows[2]) \o MarkDone(ms.rows[3]),
     telemetry |-> <<[match |-> m, net |-> ms.net, truncated |-> m \in w.cut]>>]

Nothing == [rows |-> <<>>, telemetry |-> <<>>]
Join(a, b) == [rows |-> a.rows \o b.rows, telemetry |-> a.telemetry \o b.telemetry]
JoinAll(bs) == FoldLeft(Join, Nothing, bs)

-----------------------------------------------------------------------------
(* One process playing one match after the other. *)

(* The loop of collect_b2b_rollouts over one match. *)
PlayOut(w, m) ==
    LET Step(ms, j) == RecordOutcome(
            CreditStepRewards(RecordDecision(ms, m, w.plays[m][j], j), j), w, j)
        ms == FoldLeft(Step, CreditStepRewards(NewMatch, 0),
                       [j \in 1 .. Len(w.plays[m]) |-> j])
    IN IF w.plays[m] = <<>> THEN Nothing ELSE Finalize(ms, w, m)

(* What makes collect_b2b_rollouts raise: a simulator that fails, no        *)
(* decision at all, and with the placement bonus a match that ends at its   *)
(* reset, is truncated, or leaves a seat without a decision.                *)
Unplaceable(w, m) ==
    \/ w.plays[m] = <<>> \/ m \in w.cut
    \/ \E k \in Seats : k \notin Range(w.plays[m])

Raises(w, block, bonus) ==
    \/ \E m \in block : m \in w.broken \/ (bonus /\ Unplaceable(w, m))
    \/ \A m \in block : w.plays[m] = <<>>

CollectRollouts(w, first, count) ==
    JoinAll([i \in 1 .. count |-> PlayOut(w, first + i - 1)])

-----------------------------------------------------------------------------
(* ppo.collect_rollouts: the learner has one seat and only its decisions are  *)
(* rows; each other seat is played by a net drawn from the pool.            *)

LearningSeat == 0
Truncated(w, m) == IF m \in w.cut THEN <<TRUE>> ELSE <<>>
SeatOpponent(w, m, pool) == [s \in Seats \ {0} |-> pool[(w.draws[m][s] % Len(pool)) + 1]]

(* Rewards by a potential: <<1, j>> and <<-1, j>> are the value that the GRP  *)
(* net gives decision j, <<2, i>> the payment of step i in the final         *)
(* standings, and a match that was cut off counts as the worst place.       *)
Worst == {<<3, 0>>}
Realized(w, m, net) == IF m \in w.cut THEN Worst ELSE {<<2, i>> : i \in net}

(* _grp_match_rewards: what one decision gains upon the one before.         *)
GrpMatchRewards(rows, realized) ==
    [k \in DOMAIN rows |->
        [rows[k] EXCEPT !.credit = {<<-1, rows[k].step>>} \cup
            IF k < Len(rows) THEN {<<1, rows[k + 1].step>>} ELSE realized]]

PlayLearner(w, m, pool, shaped) ==
    LET Step(ms, j) ==
            LET row == [match |-> m, step |-> j, credit |-> {}, done |-> FALSE,
                        against |-> SeatOpponent(w, m, pool)]
                acted == IF w.plays[m][j] = LearningSeat
                         THEN [ms EXCEPT !.rows = Append(@, row)] ELSE ms
            IN [rows |-> AddCredit(acted.rows, j), net |-> ms.net \cup {j}]
        ms == FoldLeft(Step, [rows |-> <<>>, net |-> {0}], [j \in 1 .. Len(w.plays[m]) |-> j])
        rows == IF shaped THEN GrpMatchRewards(ms.rows, Realized(w, m, ms.net)) ELSE ms.rows
    IN IF w.plays[m] = <<>> THEN Nothing
       ELSE [rows |-> MarkDone(rows), telemetry |-> Truncated(w, m)]

Unlearned(w, m) == LearningSeat \notin Range(w.plays[m])

LearnerRaises(w, block) ==
    (\E m \in block : m \in w.broken) \/ \A m \in block : Unlearned(w, m)

CollectLearner(w, first, count, pool, shaped) ==
    JoinAll([i \in 1 .. count |-> PlayLearner(w, first + i - 1, pool, shaped)])

-----------------------------------------------------------------------------
(* What the rows of a match are, without the order they came to be in:      *)
(* a row is paid for every step from its decision up to the seat's next     *)
(* one, so that a seat's rows telescope to its net from its first decision. *)

NextOf(play, j) ==
    Min({i \in j + 1 .. Len(play) : play[i] = play[j]} \cup {Len(play) + 1})

RowOf(w, m, j) ==
    LET play == w.plays[m] IN
    [match |-> m, seat |-> play[j], step |-> j,
     hand |-> Cardinality({e \in w.ends : e < j}),
     credit |-> j .. NextOf(play, j) - 1,
     done |-> NextOf(play, j) = Len(play) + 1]

DecisionsOf(play, k) == SelectSeq([j \in 1 .. Len(play) |-> j], LAMBDA j : play[j] = k)

RowsOf(w, m) ==
    LET Block(k) == LET js == DecisionsOf(w.plays[m], k)
                    IN [i \in 1 .. Len(js) |-> RowOf(w, m, js[i])]
    IN Block(0) \o Block(1) \o Block(2) \o Block(3)

(* The batch of an iteration: its matches in the order of their seeds; one  *)
(* that ended at its reset leaves no trace.                                 *)
Expected(w) ==
    LET n == Cardinality(DOMAIN w.plays)
        played == SelectSeq([i \in 1 .. n |-> i - 1], LAMBDA m : w.plays[m] # <<>>)
    IN [rows |-> FlattenSeq([i \in 1 .. Len(played) |-> RowsOf(w, played[i])]),
        telemetry |-> [i \in 1 .. Len(played) |->
            [match |-> played[i], net |-> 0 .. Len(w.plays[played[i]]),
             truncated |-> played[i] \in w.cut]]]

(* The learner's rows: each names the nets it met, and its reward is that of  *)
(* RowOf, or by the potential, of which all but the first value and the      *)
(* realized one cancel out.                                                 *)
LearnerRow(w, m, j, pool, shaped) ==
    LET next == NextOf(w.plays[m], j)
        last == next = Len(w.plays[m]) + 1
    IN [match |-> m, step |-> j, done |-> last,
        against |-> SeatOpponent(w, m, pool),
        credit |-> IF ~shaped THEN j .. next - 1
                   ELSE IF ~last THEN {<<-1, j>>, <<1, next>>}
                   ELSE {<<-1, j>>} \cup Realized(w, m, 0 .. Len(w.plays[m]))]

ExpectedOfLearner(w, pool, shaped) ==
    LET n == Cardinality(DOMAIN w.plays)
        RowsIn(m) == LET js == DecisionsOf(w.plays[m], LearningSeat)
                     IN [i \in 1 .. Len(js) |-> LearnerRow(w, m, js[i], pool, shaped)]
    IN [rows |-> FlattenSeq([i \in 1 .. n |-> RowsIn(i - 1)]),
        telemetry |-> FlattenSeq([i \in 1 .. n |->
            IF w.plays[i - 1] = <<>> THEN <<>> ELSE Truncated(w, i - 1)])]
=============================================================================
