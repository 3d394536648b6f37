----------------------------- MODULE RouteStudy -----------------------------
(* The route study of a benchmark (route_study.py): for every decision of a  *)
(* recorded seat, how far it is from each kind of hand, whether its discard  *)
(* decides between two of them, and what came of the hand that it was dealt. *)
(* Everything is counted, so that the studies of parts of a benchmark add up *)
(* to the study of the whole.                                                *)
(*                                                                          *)
(* A step adds to those of Episodes its probe (the seat's routes, open melds *)
(* and wild tiles and, if it may discard, the routes after each discard),    *)
(* the family of its action, the tile, and whether it answers an offer to    *)
(* chii or pon that is none to win.                                          *)
EXTENDS Episodes

Routes == {"standard", "seven_pairs", "independence"}
Sides == {"learner", "opponents"}

Clip(n, low, high) == Max({low, Min({high, n})})
TurnBucket(turn) == IF turn <= 3 THEN "1-3" ELSE IF turn <= 6 THEN "4-6"
                    ELSE IF turn <= 9 THEN "7-9" ELSE "10+"

(* win_route                                                                 *)
WinRoute(o, s) == IF o.draw \/ o.winner # s THEN "none" ELSE o.route

(* end_route: the only route that is nearest to its end.                     *)
EndRoute(hand) ==
    LET lowest == {r \in Routes : \A q \in Routes : hand.routes[r] <= hand.routes[q]}
    IN  IF hand.routes = None THEN None
        ELSE IF hand.melds > 0 THEN "standard"
        ELSE IF Cardinality(lowest) = 1 THEN CHOOSE r \in lowest : TRUE ELSE "tie"

(* classify_fork: no discard is best for both routes; which one the chosen   *)
(* discard keeps, None if there is no fork.                                  *)
Keeps(discards, r) ==
    {t \in DOMAIN discards : \A u \in DOMAIN discards : discards[t][r] <= discards[u][r]}

ForkChoice(probe, tile) ==
    LET toIndependence == Keeps(probe.discards, "independence")
        toStandard == Keeps(probe.discards, "standard")
    IN  IF probe.melds > 0 \/ tile \notin DOMAIN probe.discards
              \/ toIndependence \cap toStandard # {} THEN None
        ELSE IF tile \in toIndependence THEN "independence"
        ELSE IF tile \in toStandard THEN "standard" ELSE "neither"
-----------------------------------------------------------------------------
(* The recorder.  `counts` is what it has counted, a function from labels,   *)
(* of which a label that is not in its domain stands at zero.                *)

NewHand == [deal |-> None, routes |-> None, melds |-> 0, discards |-> 0]
NoHands == [s \in Seats |-> NewHand]
NewRecorder == [counts |-> <<>>, hands |-> NoHands, open |-> FALSE]

Bump(counts, label) ==
    [l \in DOMAIN counts \cup {label} |->
        (IF l \in DOMAIN counts THEN counts[l] ELSE 0) + (IF l = label THEN 1 ELSE 0)]

BumpAll(counts, labels) == FoldSet(LAMBDA l, c : Bump(c, l), counts, labels)

(* merge_route_study                                                         *)
MergeStudies(studies) ==
    [l \in UNION {DOMAIN studies[i] : i \in DOMAIN studies} |->
        FoldLeft(LAMBDA n, c : n + (IF l \in DOMAIN c THEN c[l] ELSE 0), 0, studies)]

SideOf(learner, s) == IF s = learner THEN "learner" ELSE "opponents"

(* Fault: the hands of a match that was cut stay open.                       *)
KeepOpenHands(r) == r

(* start_match, and what on_match_end leaves: no hand is open.               *)
NoOpenHands(r) == [r EXCEPT !.hands = NoHands, !.open = FALSE]

(* on_decision: the first decision that may discard shows what was dealt; a  *)
(* discard may be a fork, an offer to call is counted while nothing is open. *)
OnDecision(r, learner, step) ==
    LET side == SideOf(learner, step.seat)
        probe == step.probe
        old == r.hands[step.seat]
        may == DOMAIN probe.discards # {}
        discards == IF may /\ step.family = "discard" THEN old.discards + 1 ELSE old.discards
        fork == ForkChoice(probe, step.tile)
        gap == Clip(probe.routes["independence"] - probe.routes["standard"], -3, 3)
        labels ==
            IF may /\ step.family = "discard"
            THEN IF fork = None THEN {}
                 ELSE {<<side, "fork", gap, TurnBucket(discards), k>> : k \in {"forks", fork}}
            ELSE IF may \/ probe.melds > 0 \/ ~step.offer THEN {}
            ELSE {<<side, "call", Clip(probe.routes["independence"], 0, 6), k>> :
                    k \in {"offers"} \cup (IF step.family \in {"chii", "pon", "kan"}
                                           THEN {"called"} ELSE {})}
    IN  [counts |-> BumpAll(r.counts, labels), open |-> TRUE,
         hands |-> [r.hands EXCEPT ![step.seat] =
            [deal |-> IF may /\ old.deal = None
                      THEN [routes |-> probe.routes, wilds |-> Min({2, probe.wilds})] ELSE old.deal,
             routes |-> probe.routes, melds |-> probe.melds, discards |-> discards]]]

(* on_hand_end: one record for every recorded seat.                          *)
OnHandEnd(r, learner, recorded, o) ==
    LET LabelsOf(s) ==
            LET side == SideOf(learner, s)
                hand == r.hands[s]
                cell == IF hand.deal = None THEN <<>>
                        ELSE <<s, side, "deal", hand.deal.wilds,
                               Clip(hand.deal.routes["standard"], 0, 6),
                               Clip(hand.deal.routes["independence"], 0, 6)>>
            IN  {<<s, side, "hands_recorded">>}
                \cup (IF hand.deal = None THEN {<<s, side, "hands_without_deal">>}
                      ELSE {cell \o <<"hands">>, cell \o <<"end", EndRoute(hand)>>,
                            cell \o <<"win", WinRoute(o, s)>>}
                           \cup (IF HandRecord(o, s).dealIn THEN {cell \o <<"deal_ins">>} ELSE {}))
    IN  NoOpenHands([r EXCEPT !.counts =
            FoldSet(LAMBDA l, c : Bump(c, Tail(l)), @, UNION {LabelsOf(s) : s \in recorded})])

(* on_match_end: a hand that is open when a match is cut, or abandoned, is   *)
(* counted for every recorded seat.                                          *)
OnMatchEnd(r, learner, recorded, cut) ==
    NoOpenHands(IF cut /\ r.open
        THEN [r EXCEPT !.counts = FoldSet(
                LAMBDA s, c : Bump(c, <<SideOf(learner, s), "truncated_hands">>), @, recorded)]
        ELSE r)

(* The recorder's calls in the loop of evaluate_policy_online.               *)
OnStep(r, learner, recorded, step) ==
    LET decided == IF step.seat \in recorded THEN OnDecision(r, learner, step) ELSE r
        closed == IF step.outcome = None THEN decided
                  ELSE OnHandEnd(decided, learner, recorded, step.outcome)
    IN  IF step.end = "no" THEN closed
        ELSE OnMatchEnd(closed, learner, recorded, step.end # "over")

(* Studies of matches, played one after the other.                           *)
StudyOf(matches, learner, recorded) ==
    FoldLeft(LAMBDA r, match :
                FoldLeft(LAMBDA q, step : OnStep(q, learner, recorded, step),
                        NoOpenHands(r), match.steps),
            NewRecorder, matches).counts
=============================================================================
