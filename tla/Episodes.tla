------------------------------ MODULE Episodes ------------------------------
(* What an evaluation records of its matches (evaluate.py, hand_stats.py,    *)
(* placement_bonus.py, route_study.py), whichever evaluator plays them.      *)
(*                                                                          *)
(* A match is what the simulator does with a seat of the learner and a wall  *)
(* seed: the rewards of its reset and how the reset ended, and then the      *)
(* steps, each with the seat that decided, its rewards, how it ended and     *)
(* the outcome of the hand that it closed.  An end is                        *)
(*   "no"       the match goes on,                                          *)
(*   "over"     it is terminated,                                           *)
(*   "cut"      it is truncated, by the cap on its steps,                   *)
(*   "idle"     it goes on, but nobody has a legal action.                  *)
(* Rewards are whole points and shares are twelfths, so that a tie of two,   *)
(* three or four seats has a whole share.                                    *)
EXTENDS Integers, Sequences, FiniteSets, SequencesExt, FiniteSetsExt, Functions

CONSTANTS None,
          LossThreshold      \* large_loss_threshold

Seats == 0..3
Zero == [s \in Seats |-> 0]
Plus(u, v) == [s \in Seats |-> u[s] + v[s]]
Twelfths == 12

(* _EVAL_PLACEMENT_VALUES in thirds, and PLACEMENT_RESHAPE_VALUES by the     *)
(* integers that they were normalised from.                                  *)
EvalPlacement == <<3, 1, -1, -3>>
ReshapeValues == <<10, 5, 1, -10>>

-----------------------------------------------------------------------------
(* Standings. *)

(* Fault: seats that are level take the first of their places.               *)
PlacesUnshared(scores, s) == {Cardinality({t \in Seats : scores[t] > scores[s]}) + 1}

(* The places that seat s takes in the descending order of the scores: one,  *)
(* or those it shares with the seats that have as much.                      *)
PlacesOf(scores, s) ==
    LET above == Cardinality({t \in Seats : scores[t] > scores[s]})
        level == Cardinality({t \in Seats : scores[t] = scores[s]})
    IN  above + 1 .. above + level

(* rank_occupancy: a seat's share of every place.                            *)
Occupancy(scores, s) ==
    LET places == PlacesOf(scores, s)
    IN  [p \in 1..4 |-> IF p \in places THEN Twelfths \div Cardinality(places) ELSE 0]

(* placement_shaped_returns: the mean value of a seat's places.              *)
Shaped(scores, values, s) ==
    FoldFunction(+, 0, [p \in 1..4 |-> Occupancy(scores, s)[p] * values[p]])

(* eval_episode_tail: a match that was cut has no standings and counts as a  *)
(* last place.                                                               *)
Tail4(net, s, cut) ==
    IF cut THEN [fourth |-> Twelfths, utility |-> Twelfths * ReshapeValues[4],
                 places |-> [p \in 1..4 |-> IF p = 4 THEN Twelfths ELSE 0]]
    ELSE [fourth |-> Occupancy(net, s)[4], utility |-> Shaped(net, ReshapeValues, s),
          places |-> Occupancy(net, s)]

-----------------------------------------------------------------------------
(* Hands. *)

(* hand_record: an outcome as the learner's seat sees it.                    *)
HandRecord(o, s) ==
    [draw |-> o.draw, win |-> ~o.draw /\ o.winner = s,
     dealIn |-> ~o.draw /\ o.type = "ron" /\ o.discarder = s /\ o.winner # s,
     payout |-> o.payouts[s]]

(* update_outcome_counts: the kind under which an outcome is counted.        *)
OutcomeKind(o, s) ==
    IF o = None THEN "unknown"
    ELSE IF o.draw THEN "draw"
    ELSE IF o.type = "tsumo" THEN IF o.winner = s THEN "tsumo_win" ELSE "tsumo_loss"
    ELSE IF o.winner = s THEN "ron_win"
    ELSE IF o.discarder = s THEN "deal_in" ELSE "ron_other_loss"

(* summarize_hand_stats, with sums for its means.                            *)
HandStats(matches, unknown) ==
    LET hands == FlattenSeq(matches)
        Count(Is(_)) == Len(SelectSeq(hands, Is))
        Payouts(Is(_)) == FoldLeft(LAMBDA n, h : n + h.payout, 0, SelectSeq(hands, Is))
        Won(h) == h.win
        DealtIn(h) == h.dealIn
        Drawn(h) == h.draw
    IN  [matches |-> Len(matches), hands |-> Len(hands), unknown |-> unknown,
         wins |-> Count(Won), dealIns |-> Count(DealtIn), draws |-> Count(Drawn),
         won |-> Payouts(Won), lost |-> Payouts(DealtIn)]

(* new_win_pattern_tally, tally_win_patterns and merge_win_pattern_tallies:  *)
(* wins, wins by self-draw and their points, of the learner and the others.  *)
NoWins == [side \in {"learner", "opponents"} |-> [wins |-> 0, tsumo |-> 0, points |-> 0]]

TallyWin(tally, o, s) ==
    IF o.draw THEN tally
    ELSE [tally EXCEPT ![IF o.winner = s THEN "learner" ELSE "opponents"] =
            [wins |-> @.wins + 1, tsumo |-> @.tsumo + (IF o.type = "tsumo" THEN 1 ELSE 0),
             points |-> @.points + o.points]]

MergeTallies(tallies) ==
    [side \in DOMAIN NoWins |->
        [k \in {"wins", "tsumo", "points"} |->
            FoldLeft(LAMBDA n, t : n + t[side][k], 0, tallies)]]

-----------------------------------------------------------------------------
(* A match in an evaluation. *)

(* Fault: a match without a decision of the reset's has no reset rewards.    *)
NetOfSteps(match) == FoldLeft(LAMBDA net, step : Plus(net, step.rewards), Zero, match.steps)

(* episode_reward_vector: all that the steps paid and, unless the match      *)
(* ended there, its reset; with no steps the rewards of the reset alone.     *)
Net(match) == FoldLeft(LAMBDA net, step : Plus(net, step.rewards), match.reset, match.steps)

EndOf(match) == IF match.steps = <<>> THEN match.resetEnd ELSE Last(match.steps).end

(* evaluate_policy_online and batched_eval._play: a match in which nobody    *)
(* has a legal action is abandoned and not recorded.                         *)
IsRecorded(match) == EndOf(match) # "idle"

(* _episode_round_outcomes: the outcomes that the steps delivered; that of   *)
(* the end only if there are no steps.                                       *)
Delivered(match) ==
    LET all == IF match.steps = <<>> THEN <<match.resetOutcome>>
               ELSE [i \in DOMAIN match.steps |-> match.steps[i].outcome]
    IN  SelectSeq(all, LAMBDA o : o # None)

LastOutcome(match) ==
    IF match.steps = <<>> THEN match.resetOutcome ELSE Last(match.steps).outcome

NewSeatReport ==
    [rewards |-> <<>>, placements |-> <<>>, fourth |-> <<>>, losses |-> <<>>,
     utility |-> <<>>, places |-> [p \in 1..4 |-> 0], decisions |-> 0, kinds |-> <<>>,
     cuts |-> 0, hands |-> <<>>, unknown |-> 0, wins |-> NoWins]

(* record_episode: the arrays are by position, one entry for a match.        *)
RecordEpisode(report, match, s) ==
    LET cut == EndOf(match) = "cut"
        net == Net(match)
        tail == Tail4(net, s, cut)
        outcomes == Delivered(match)
        kind == IF LastOutcome(match) = None THEN IF cut THEN "match_truncated" ELSE "match_end"
                ELSE OutcomeKind(LastOutcome(match), s)
    IN  [rewards |-> Append(report.rewards, net[s]),
         placements |-> Append(report.placements,
             IF cut THEN Twelfths * EvalPlacement[4] ELSE Shaped(net, EvalPlacement, s)),
         fourth |-> Append(report.fourth, tail.fourth),
         losses |-> Append(report.losses, IF net[s] <= LossThreshold THEN 1 ELSE 0),
         utility |-> Append(report.utility, tail.utility),
         places |-> [p \in 1..4 |-> report.places[p] + tail.places[p]],
         decisions |-> report.decisions
                          + Len(SelectSeq(match.steps, LAMBDA step : step.seat = s)),
         kinds |-> Append(report.kinds, kind),
         cuts |-> report.cuts + (IF cut THEN 1 ELSE 0),
         hands |-> Append(report.hands, [i \in DOMAIN outcomes |-> HandRecord(outcomes[i], s)]),
         unknown |-> report.unknown + (IF ~cut /\ outcomes = <<>> THEN 1 ELSE 0),
         wins |-> FoldLeft(LAMBDA tally, o : TallyWin(tally, o, s), report.wins, outcomes)]

(* _SeatEvalAccumulator over the matches of a seat, in the order of seeds.   *)
SeatReport(matches, s) ==
    FoldLeft(LAMBDA report, match : RecordEpisode(report, match, s),
            NewSeatReport, SelectSeq(matches, IsRecorded))
=============================================================================
