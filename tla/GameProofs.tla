----------------------------- MODULE GameProofs -----------------------------
(***************************************************************************)
(* For every wall, hand evaluation, score, match mode and cap: points are   *)
(* only moved between the seats, and a ron submitted in a claim window      *)
(* wins.                                                                    *)
(***************************************************************************)
EXTENDS Game, FiniteSetTheorems, TLAPS

(* Seats are seats, points are points, and only a seat other than the       *)
(* discarder has a response in an open window.                              *)
SeatsInv ==
    /\ {activePlayer, dealer} \subseteq Seats
    /\ nextDealer \in Seats \cup {None}
    /\ score \in [Seats -> Int]
    /\ phase = "WAIT_DISCARDS" => DOMAIN interruptQueue \subseteq Seats \ {activePlayer}

(* What was offered as a ron in the open window still wins: the hand, the   *)
(* discard and the wall are those the offer was computed from.  The window  *)
(* is not full, so a seat that changes its response does not close it.      *)
WindowInv ==
    phase = "WAIT_DISCARDS" =>
        /\ \A s \in Seats : \A o \in validActions[s] :
              o.type = "ron" => CanWin(wall, hands[s].closed \cup {activeDiscard}, FALSE)
        /\ \A s \in DOMAIN interruptQueue : interruptQueue[s] \in validActions[s] \cup {Pass}
        /\ ~WindowFull(interruptQueue)

-----------------------------------------------------------------------------
LEMMA SeatFacts ==
    /\ \A s \in Seats : NextSeat(s) \in Seats
    /\ DealerDraws \subseteq Seats
    /\ WinScores \subseteq Nat
    /\ None \notin Seats
    /\ StartingScore \in Int
BY GameAssumption DEF GameAssumption, Seats, NextSeat, None

(* A drawn hand moves no points. *)
LEMMA DrawMovesNothing ==
    ASSUME dealer' \in Seats, nextDealer \in Seats \cup {None}, EndRoundInDraw
    PROVE  /\ score' = score
           /\ nextDealer' \in Seats \cup {None}
           /\ phase' \in {"ROUND_END", "MATCH_END"}
BY DEF EndRoundInDraw, FinalizeRoundEnd, Successor, Drawn, Result, None

LEMMA PlayOnMovesNothing ==
    ASSUME NEW p, PlayOn(p)
    PROVE  score' = score /\ nextDealer' \in Seats \cup {None} /\ phase' = p
BY DEF PlayOn

(* Nor do draws, whatever they lead to, and they never open a window.       *)
LEMMA SettleMovesNothing ==
    ASSUME dealer' \in Seats, nextDealer \in Seats \cup {None},
           NEW seat, NEW w, NEW hs, NEW va, NEW due, Settle(seat, w, hs, va, due)
    PROVE  /\ score' = score
           /\ nextDealer' \in Seats \cup {None}
           /\ phase' # "WAIT_DISCARDS"
<1>1. EndRoundInDraw \/ PlayOn("PLAYER_TURN")
  BY DEF Settle
<1> QED
  BY <1>1, DrawMovesNothing, PlayOnMovesNothing

LEMMA SystemDrawMovesNothing ==
    ASSUME dealer' \in Seats, nextDealer \in Seats \cup {None},
           NEW seat, NEW w, NEW hs, NEW va, ExecuteSystemDraw(seat, w, hs, va)
    PROVE  /\ score' = score
           /\ nextDealer' \in Seats \cup {None}
           /\ phase' # "WAIT_DISCARDS"
<1>1. CASE EndRoundInDraw \/ PlayOn("PLAYER_TURN")
  BY <1>1, DrawMovesNothing, PlayOnMovesNothing
<1>2. CASE \E w2, hs2 : Settle(seat, w2, hs2, va, 0)
  BY <1>2, SettleMovesNothing
<1> QED
  BY <1>1, <1>2 DEF ExecuteSystemDraw

(* The turn passes to a seat. *)
LEMMA AdvanceMovesNothing ==
    ASSUME {activePlayer, dealer'} \subseteq Seats, nextDealer \in Seats \cup {None},
           NEW hs, NEW va, AdvanceTurn(hs, va)
    PROVE  /\ score' = score
           /\ nextDealer' \in Seats \cup {None}
           /\ phase' # "WAIT_DISCARDS"
           /\ activePlayer' \in Seats
BY SystemDrawMovesNothing, SeatFacts DEF AdvanceTurn

-----------------------------------------------------------------------------
Total(sc) == sc[0] + sc[1] + sc[2] + sc[3]

(* What CalculatePayouts pays sums to nothing. *)
LEMMA PayoutsBalance ==
    ASSUME NEW r, r.winner \in Seats,
           r.type = "tsumo" \/ (r.discarder \in Seats /\ r.discarder # r.winner),
           NEW S \in Int
    PROVE  /\ \A s \in Seats : Payout(s, r, S) \in Int
           /\ Payout(0, r, S) + Payout(1, r, S) + Payout(2, r, S) + Payout(3, r, S) = 0
BY SMT DEF Payout, Seats

(* A win moves the points it pays, and ends the hand. *)
LEMMA WinMovesPoints ==
    ASSUME SeatsInv, dealer' \in Seats, NEW r, r.winner \in Seats,
           r.type = "tsumo" \/ (r.discarder \in Seats /\ r.discarder # r.winner),
           NEW S \in WinScores, FinalizeRoundEnd(Paid(r, S), r)
    PROVE  /\ score' \in [Seats -> Int]
           /\ Total(score') = Total(score)
           /\ nextDealer' \in Seats \cup {None}
           /\ phase' # "WAIT_DISCARDS"
           /\ roundResult' = r
<1>1. S \in Int
  BY SeatFacts
<1>2. /\ \A s \in Seats : Payout(s, r, S) \in Int
      /\ Payout(0, r, S) + Payout(1, r, S) + Payout(2, r, S) + Payout(3, r, S) = 0
  BY <1>1, PayoutsBalance
<1>3. score' = [s \in Seats |-> score[s] + Payout(s, r, S)]
  BY DEF FinalizeRoundEnd, Paid
<1>4. score' \in [Seats -> Int]
  BY <1>2, <1>3, SMT DEF SeatsInv
<1>5. Total(score') = Total(score)
  <2>1. /\ score'[0] = score[0] + Payout(0, r, S) /\ score'[1] = score[1] + Payout(1, r, S)
        /\ score'[2] = score[2] + Payout(2, r, S) /\ score'[3] = score[3] + Payout(3, r, S)
    BY <1>3 DEF Seats
  <2>2. /\ score[0] \in Int /\ score[1] \in Int /\ score[2] \in Int /\ score[3] \in Int
        /\ Payout(0, r, S) \in Int /\ Payout(1, r, S) \in Int
        /\ Payout(2, r, S) \in Int /\ Payout(3, r, S) \in Int
    BY <1>2 DEF SeatsInv, Seats
  <2> QED
    BY <1>2, <2>1, <2>2, SMT DEF Total
<1>6. nextDealer' \in Seats \cup {None} /\ phase' # "WAIT_DISCARDS" /\ roundResult' = r
  BY DEF FinalizeRoundEnd, Successor, SeatsInv
<1> QED
  BY <1>4, <1>5, <1>6

-----------------------------------------------------------------------------
(* Among up to four claims one is the heaviest and, of those, the lowest    *)
(* seat's.                                                                  *)
Before(w, s, o) == w[s] > w[o] \/ (w[s] = w[o] /\ s < o)

LEMMA BestExists ==
    ASSUME NEW C \in SUBSET Seats, C # {}, NEW w \in [Seats -> Int]
    PROVE  \E s \in C : \A o \in C \ {s} : Before(w, s, o)
<1>1. \A s, o, p \in Seats : Before(w, s, o) /\ Before(w, o, p) => Before(w, s, p)
  BY SMT DEF Before, Seats
<1>2. \A s, o \in Seats : s # o => Before(w, s, o) \/ Before(w, o, s)
  BY SMT DEF Before, Seats
<1>3. \A D \in SUBSET Seats : \A x \in Seats :
        (\E s \in D : \A o \in D \ {s} : Before(w, s, o))
            => \E s \in D \cup {x} : \A o \in (D \cup {x}) \ {s} : Before(w, s, o)
  <2> SUFFICES ASSUME NEW D \in SUBSET Seats, NEW x \in Seats, x \notin D,
                      NEW s \in D, \A o \in D \ {s} : Before(w, s, o)
               PROVE  \E t \in D \cup {x} : \A o \in (D \cup {x}) \ {t} : Before(w, t, o)
    BY Zenon
  <2>1. CASE Before(w, s, x)
    BY <2>1
  <2>2. CASE Before(w, x, s)
    <3>1. \A o \in D : Before(w, x, o)
      BY <2>2, <1>1
    <3> QED
      BY <3>1
  <2> QED
    BY <2>1, <2>2, <1>2
<1> DEFINE Good(D) == D = {} \/ \E s \in D : \A o \in D \ {s} : Before(w, s, o)
<1>4. \A D \in SUBSET Seats : \A x \in Seats : Good(D) => Good(D \cup {x})
  BY <1>3
<1> HIDE DEF Good
<1> DEFINE D0 == C \cap {0}
           D1 == C \cap {0, 1}
           D2 == C \cap {0, 1, 2}
<1>5. Good({}) /\ 0 \in Seats /\ 1 \in Seats /\ 2 \in Seats /\ 3 \in Seats
  BY DEF Good, Seats
<1>6. D0 \in SUBSET Seats /\ D1 \in SUBSET Seats /\ D2 \in SUBSET Seats
  OBVIOUS
<1>6a. D0 = {} \/ D0 = {} \cup {0}
  OBVIOUS
<1>6b. D1 = D0 \/ D1 = D0 \cup {1}
  BY SMT
<1>6c. D2 = D1 \/ D2 = D1 \cup {2}
  BY SMT
<1>6d. C = D2 \/ C = D2 \cup {3}
  <2>1. C = C \cap {0, 1, 2, 3}
    <3>1. \A x \in Seats : x \in {0, 1, 2, 3}
      BY SMT DEF Seats
    <3> QED
      BY <3>1
  <2>2. C \cap {0, 1, 2, 3} = D2 \/ C \cap {0, 1, 2, 3} = D2 \cup {3}
    BY SMT
  <2> QED
    BY <2>1, <2>2
<1> HIDE DEF D0, D1, D2
<1>7. Good(D0)
  BY <1>4, <1>5, <1>6, <1>6a
<1>8. Good(D1)
  BY <1>4, <1>5, <1>6, <1>7, <1>6b
<1>9. Good(D2)
  BY <1>4, <1>5, <1>6, <1>8, <1>6c
<1>10. Good(C)
  BY <1>4, <1>5, <1>6, <1>9, <1>6d
<1> QED
  BY <1>10 DEF Good

LEMMA WeightIsInt == ASSUME NEW type PROVE Weight(type) \in 0 .. 4
BY SMT DEF Weight

(* The response that wins a window is a claim of a seat that responded, and *)
(* no other response weighs more.                                           *)
LEMMA PriorityWins ==
    ASSUME NEW q, DOMAIN q \subseteq Seats, NEW s, s = ResolveInterruptPriority(q), s # None
    PROVE  /\ s \in DOMAIN q
           /\ \A o \in DOMAIN q : q[o].type # "pass" /\ o # s =>
                 \/ Weight(q[s].type) > Weight(q[o].type)
                 \/ Weight(q[s].type) = Weight(q[o].type) /\ s < o
<1> DEFINE C == { o \in DOMAIN q : q[o].type # "pass" }
           w == [o \in Seats |-> IF o \in C THEN Weight(q[o].type) ELSE 0]
<1>1. C # {}
  BY DEF ResolveInterruptPriority, None
<1>2. w \in [Seats -> Int]
  BY WeightIsInt
<1>3. C \in SUBSET Seats
  OBVIOUS
<1>4. \A o \in C : w[o] = Weight(q[o].type)
  BY <1>3
<1> HIDE DEF w
<1>5. PICK b \in C : \A o \in C \ {b} : Before(w, b, o)
  BY <1>1, <1>2, <1>3, BestExists
<1>6. \A o \in C \ {b} : Weight(q[b].type) > Weight(q[o].type)
                           \/ (Weight(q[b].type) = Weight(q[o].type) /\ b < o)
  BY <1>4, <1>5 DEF Before
<1>7. s = CHOOSE t \in C : \A o \in C \ {t} :
            Weight(q[t].type) > Weight(q[o].type)
                \/ (Weight(q[t].type) = Weight(q[o].type) /\ t < o)
  BY <1>1, Zenon DEF ResolveInterruptPriority
<1>8. s \in C /\ \A o \in C \ {s} : Weight(q[s].type) > Weight(q[o].type)
                           \/ (Weight(q[s].type) = Weight(q[o].type) /\ s < o)
  BY <1>6, <1>7, Zenon
<1> QED
  BY <1>8

-----------------------------------------------------------------------------
(* A step keeps the seats in order and moves points only between them.      *)
Fair ==
    /\ SeatsInv'
    /\ Total(score') = Total(score)

(* A step that pays nobody and leaves the window, if there is one, shut. *)
LEMMA QuietStep ==
    ASSUME SeatsInv, score' = score, nextDealer' \in Seats \cup {None},
           phase' # "WAIT_DISCARDS", activePlayer' \in Seats, dealer' \in Seats
    PROVE  Fair
BY DEF Fair, SeatsInv

LEMMA ResolveFair ==
    ASSUME SeatsInv, NEW q, DOMAIN q \subseteq Seats \ {activePlayer}, ResolveInterrupts(q)
    PROVE  Fair /\ phase' # "WAIT_DISCARDS"
<1> DEFINE s == ResolveInterruptPriority(q)
<1>0. dealer' \in Seats
  BY DEF ResolveInterrupts, SeatsInv
<1>1. CASE s # None /\ \E S \in WinScores : Ron(s, S)
  <2>1. s \in Seats /\ s # activePlayer
    BY <1>1, PriorityWins
  <2>2. PICK S \in WinScores : Ron(s, S)
    BY <1>1
  <2> DEFINE r == Result("ron", s, activePlayer)
  <2>3. FinalizeRoundEnd(Paid(r, S), r) /\ activePlayer' = activePlayer
    BY <2>2 DEF Ron
  <2>4. r.winner = s /\ r.type = "ron" /\ r.discarder = activePlayer
    BY DEF Result
  <2> HIDE DEF r, s
  <2> QED
    BY <1>0, <2>1, <2>3, <2>4, WinMovesPoints DEF Fair, SeatsInv
<1>2. CASE s # None /\ Claim(s, q[s])
  <2>1. s \in Seats
    BY <1>2, PriorityWins
  <2>2. activePlayer' = s /\ \E hs, due : Settle(s, wall, hs, validActions, due)
    BY <1>2 DEF Claim
  <2>3. score' = score /\ nextDealer' \in Seats \cup {None} /\ phase' # "WAIT_DISCARDS"
    BY <1>0, <2>2, SettleMovesNothing DEF SeatsInv
  <2> QED
    BY <1>0, <2>1, <2>2, <2>3, QuietStep
<1>3. CASE AdvanceTurn(hands, validActions)
  BY <1>0, <1>3, AdvanceMovesNothing, QuietStep DEF SeatsInv
<1> QED
  BY <1>1, <1>2, <1>3 DEF ResolveInterrupts

LEMMA DealFair ==
    ASSUME SeatsInv, NEW faces, NEW d, NEW first \in Seats, Deal(faces, d, first)
    PROVE  Fair /\ phase' # "WAIT_DISCARDS"
<1>1. dealer' = first /\ activePlayer' = first
      /\ \E w, hs : ExecuteSystemDraw(first, w, hs, NoOffers)
  BY DEF Deal
<1> QED
  BY <1>1, SystemDrawMovesNothing, QuietStep DEF SeatsInv

LEMMA StepFair ==
    ASSUME SeatsInv, [Next]_vars
    PROVE  Fair
<1>1. CASE Start
  BY <1>1, DealFair, SeatFacts DEF Start
<1>2. ASSUME NEW t, HandleDiscard(t)
      PROVE  Fair
  <2>1. dealer' = dealer
    BY <1>2 DEF HandleDiscard
  <2>2. CASE \E hs, va : AdvanceTurn(hs, va)
    BY <2>1, <2>2, AdvanceMovesNothing, QuietStep DEF SeatsInv
  <2>3. CASE EndRoundInDraw /\ activePlayer' = activePlayer
    BY <2>1, <2>3, DrawMovesNothing, QuietStep DEF SeatsInv
  <2>4. CASE /\ PlayOn("WAIT_DISCARDS") /\ interruptQueue' = << >>
             /\ activePlayer' = activePlayer
    <3>1. DOMAIN interruptQueue' = {}
      BY <2>4
    <3> QED
      BY <2>1, <2>4, <3>1, PlayOnMovesNothing DEF Fair, SeatsInv
  <2> QED
    BY <1>2, <2>2, <2>3, <2>4 DEF HandleDiscard
<1>3. ASSUME NEW o, HandleKong(o)
      PROVE  Fair
  <2>1. /\ dealer' = dealer /\ activePlayer' = activePlayer
        /\ \E hs : Settle(activePlayer, wall, hs, validActions, 1)
    BY <1>3 DEF HandleKong
  <2> QED
    BY <2>1, SettleMovesNothing, QuietStep DEF SeatsInv
<1>4. ASSUME NEW S \in WinScores, HandleTsumo(S)
      PROVE  Fair
  <2> DEFINE r == Result("tsumo", activePlayer, None)
  <2>1. /\ FinalizeRoundEnd(Paid(r, S), r)
        /\ dealer' = dealer /\ activePlayer' = activePlayer
    BY <1>4 DEF HandleTsumo
  <2>2. r.winner = activePlayer /\ r.type = "tsumo"
    BY DEF Result
  <2> HIDE DEF r
  <2> QED
    BY <2>1, <2>2, WinMovesPoints DEF Fair, SeatsInv
<1>5. CASE HandleHaiteiAccept
  <2>1. /\ dealer' = dealer /\ activePlayer' = activePlayer
        /\ \E w, hs : Settle(activePlayer, w, hs, validActions, 0)
    BY <1>5 DEF HandleHaiteiAccept
  <2> QED
    BY <2>1, SettleMovesNothing, QuietStep DEF SeatsInv
<1>6. CASE HandleHaiteiRefuse
  BY <1>6, DrawMovesNothing, QuietStep DEF HandleHaiteiRefuse, SeatsInv
<1>7. ASSUME NEW s \in Seats, NEW o, HandleInterrupt(s, o)
      PROVE  Fair
  <2> DEFINE q == Respond(interruptQueue, s, o)
  <2>1. DOMAIN q \subseteq Seats \ {activePlayer}
    BY <1>7 DEF HandleInterrupt, SeatsInv, Respond
  <2>2. CASE ResolveInterrupts(q)
    BY <2>1, <2>2, ResolveFair
  <2>3. CASE /\ interruptQueue' = q
             /\ UNCHANGED <<phase, activePlayer, dealer, nextDealer, score>>
    BY <2>1, <2>3 DEF Fair, SeatsInv
  <2> QED
    BY <1>7, <2>2, <2>3 DEF HandleInterrupt
<1>8. CASE TimerResolve
  BY <1>8, ResolveFair DEF TimerResolve, SeatsInv
<1>9. ASSUME NEW s \in Seats, HandleReady(s)
      PROVE  Fair
  <2>1. CASE UNCHANGED <<phase, activePlayer, dealer, nextDealer, interruptQueue, score>>
    BY <2>1 DEF Fair, SeatsInv
  <2>2. CASE \E faces, d : \E first \in IF nextDealer = None THEN DealerDraws ELSE {nextDealer} :
                Deal(faces, d, first)
    BY <2>2, DealFair, SeatFacts DEF SeatsInv
  <2> QED
    BY <1>9, <2>1, <2>2 DEF HandleReady
<1>10. CASE UNCHANGED vars
  BY <1>10 DEF vars, Fair, SeatsInv
<1> QED
  BY <1>1, <1>2, <1>3, <1>4, <1>5, <1>6, <1>7, <1>8, <1>9, <1>10 DEF Next

-----------------------------------------------------------------------------
LEMMA InitFair == Init => SeatsInv /\ ZeroSum
BY SeatFacts, SMT DEF Init, SeatsInv, ZeroSum, ScoreSum, Seats

(* CalculatePayouts and its two callers, handleTsumo and ResolveInterrupts: *)
(* for every hand value, match mode, cap and number of hands the four       *)
(* scores sum to what the match started with.                               *)
THEOREM PointsAreConserved == Spec => []ZeroSum
<1>1. SeatsInv /\ ZeroSum /\ [Next]_vars => (SeatsInv /\ ZeroSum)'
  BY StepFair DEF Fair, Total, ZeroSum, ScoreSum
<1> QED
  BY <1>1, InitFair, PTL DEF Spec

-----------------------------------------------------------------------------
LEMMA SeatsFinite == IsFiniteSet(Seats)
<1>1. 0 \in Int /\ 3 \in Int
  BY SMT
<1>2. IsFiniteSet(0 .. 3)
  BY <1>1, FS_Interval, Zenon
<1> QED
  BY <1>2 DEF Seats

LEMMA OfferFields ==
    ASSUME NEW type, NEW tiles
    PROVE  Offer(type, tiles).type = type /\ Offer(type, tiles).tiles = tiles
BY DEF Offer

(* A ron is only offered on a hand that wins. *)
LEMMA RonOffered ==
    ASSUME NEW w, NEW hand, NEW t, NEW s, NEW d, NEW o \in GetValidInterrupts(w, hand, t, s, d),
           o.type = "ron"
    PROVE  CanWin(w, hand.closed \cup {t}, FALSE)
<1>1. \/ CanWin(w, hand.closed \cup {t}, FALSE)
      \/ \E tiles : o = Offer("kan", tiles)
      \/ \E tiles : o = Offer("pon", tiles)
      \/ \E tiles : o = Offer("chii", tiles)
  BY Zenon DEF GetValidInterrupts, Runs
<1>2. "kan" # "ron" /\ "pon" # "ron" /\ "chii" # "ron"
  OBVIOUS
<1>3. ASSUME NEW tiles, o = Offer("kan", tiles) \/ o = Offer("pon", tiles) \/ o = Offer("chii", tiles)
      PROVE  FALSE
  BY <1>2, <1>3, OfferFields
<1> QED
  BY <1>1, <1>3, Zenon

LEMMA SomebodyExpected ==
    ASSUME NEW va, NEW s \in Seats, va[s] # {}
    PROVE  Cardinality({ t \in Seats : va[t] # {} }) > 0
<1> DEFINE E == { t \in Seats : va[t] # {} }
<1>2. IsFiniteSet(E)
  BY SeatsFinite, FS_Subset
<1>3. s \in E
  OBVIOUS
<1> HIDE DEF E
<1>4. Cardinality(E) \in Nat /\ Cardinality(E) # 0
  BY <1>2, <1>3, FS_CardinalityType, FS_EmptySet
<1>5. Cardinality(E) > 0
  BY <1>4, SMT
<1> QED
  BY <1>5 DEF E

(* A window opens on offers that are true of the hands as they then are. *)
LEMMA OpenWindow ==
    ASSUME NEW t, HandleDiscard(t), phase' = "WAIT_DISCARDS", SeatsInv
    PROVE  WindowInv'
<1> DEFINE hs == [hands EXCEPT ![activePlayer].closed = @ \ {t},
                               ![activePlayer].size = @ - 1,
                               ![activePlayer].drawn = None,
                               ![activePlayer].discards = Append(@, t)]
           va == Offers(wall, hs, activePlayer, t, isHaitei)
<1>0. dealer' \in Seats
  BY DEF HandleDiscard, SeatsInv
<1>1. ~ \E h, v : AdvanceTurn(h, v)
  BY <1>0, AdvanceMovesNothing DEF SeatsInv
<1>2. ~EndRoundInDraw
  BY <1>0, DrawMovesNothing DEF SeatsInv
<1>3. /\ \E s \in Seats : va[s] # {}
      /\ validActions' = va /\ activeDiscard' = t /\ interruptQueue' = << >>
      /\ hands' = hs /\ wall' = wall
  BY <1>1, <1>2, Zenon DEF HandleDiscard
<1>4. \A s \in Seats : \A o \in va[s] : o.type = "ron" => CanWin(wall, hs[s].closed \cup {t}, FALSE)
  <2> SUFFICES ASSUME NEW s \in Seats, NEW o \in va[s], o.type = "ron"
               PROVE  CanWin(wall, hs[s].closed \cup {t}, FALSE)
    OBVIOUS
  <2> HIDE DEF hs
  <2>1. o \in GetValidInterrupts(wall, hs[s], t, s, activePlayer)
    BY DEF Offers
  <2> QED
    BY <2>1, RonOffered
<1> HIDE DEF hs, va
<1>5. DOMAIN interruptQueue' = {}
  BY <1>3
<1>6. ~WindowFull(interruptQueue)'
  <2>1. Cardinality(DOMAIN interruptQueue') = 0
    BY <1>5, FS_EmptySet
  <2>2. Cardinality(Expected') > 0
    BY <1>3, SomebodyExpected DEF Expected
  <2>3. Cardinality(Expected') \in Nat
    <3>2. IsFiniteSet(Expected')
      BY SeatsFinite, FS_Subset DEF Expected
    <3> QED
      BY <3>2, FS_CardinalityType
  <2> QED
    BY <2>1, <2>2, <2>3, SMT DEF WindowFull
<1> QED
  BY <1>3, <1>4, <1>5, <1>6 DEF WindowInv

(* In an open window only responses and the timer are accepted. *)
LEMMA OnlyResponses ==
    ASSUME phase = "WAIT_DISCARDS", Next
    PROVE  TimerResolve \/ \E s \in Seats : \E o \in validActions[s] \cup {Pass} : HandleInterrupt(s, o)
BY DEF Next, Start, HandleDiscard, HandleKong, HandleTsumo, HandleHaiteiAccept, HandleHaiteiRefuse,
       HandleReady, InTurn

LEMMA WindowStep ==
    ASSUME SeatsInv, WindowInv, [Next]_vars
    PROVE  WindowInv'
<1> SUFFICES ASSUME phase' = "WAIT_DISCARDS"
             PROVE  WindowInv'
  BY DEF WindowInv
<1>1. CASE UNCHANGED vars
  BY <1>1 DEF vars, WindowInv, WindowFull, Expected
<1>2. ASSUME NEW t, HandleDiscard(t)
      PROVE  WindowInv'
  BY <1>2, OpenWindow
<1>3. ASSUME phase = "WAIT_DISCARDS", Next
      PROVE  WindowInv'
  <2>1. ~TimerResolve
    BY <1>3, ResolveFair DEF TimerResolve, SeatsInv
  <2>2. PICK s \in Seats : \E o \in validActions[s] \cup {Pass} : HandleInterrupt(s, o)
    BY <1>3, <2>1, OnlyResponses
  <2>3. PICK o \in validActions[s] \cup {Pass} : HandleInterrupt(s, o)
    BY <2>2
  <2> DEFINE q == Respond(interruptQueue, s, o)
  <2>4. DOMAIN q \subseteq Seats \ {activePlayer}
    BY <2>3 DEF HandleInterrupt, SeatsInv, Respond
  <2>5. ~ResolveInterrupts(q)
    BY <2>4, ResolveFair
  <2>6. /\ ~WindowFull(q) /\ interruptQueue' = q
        /\ UNCHANGED <<wall, hands, validActions, activeDiscard>>
    BY <2>3, <2>5, Zenon DEF HandleInterrupt
  <2>7. \A x \in DOMAIN q : q[x] \in validActions[x] \cup {Pass}
    BY <1>3, <2>3 DEF Respond, WindowInv
  <2>8. ~WindowFull(interruptQueue)'
    BY <2>6 DEF WindowFull, Expected
  <2> HIDE DEF q
  <2> QED
    BY <1>3, <2>6, <2>7, <2>8 DEF WindowInv
<1>4. ASSUME phase # "WAIT_DISCARDS", Next, ~ \E t : HandleDiscard(t)
      PROVE  FALSE
  <2>1. \A first \in Seats : ~ \E faces, d : Deal(faces, d, first)
    BY DealFair
  <2>2. CASE Start
    BY <2>1, <2>2, SeatFacts DEF Start
  <2>3. CASE \E o : HandleKong(o)
    BY <2>3, SettleMovesNothing DEF HandleKong, SeatsInv
  <2>4. CASE \E S \in WinScores : HandleTsumo(S)
    BY <2>4 DEF HandleTsumo, FinalizeRoundEnd
  <2>5. CASE HandleHaiteiAccept
    BY <2>5, SettleMovesNothing DEF HandleHaiteiAccept, SeatsInv
  <2>6. CASE HandleHaiteiRefuse
    BY <2>6, DrawMovesNothing DEF HandleHaiteiRefuse, SeatsInv
  <2>7. CASE \E s \in Seats : HandleReady(s)
    BY <1>4, <2>1, <2>7, SeatFacts DEF HandleReady, SeatsInv
  <2> QED
    BY <1>4, <2>2, <2>3, <2>4, <2>5, <2>6, <2>7 DEF Next, TimerResolve, HandleInterrupt
<1> QED
  BY <1>1, <1>2, <1>3, <1>4

-----------------------------------------------------------------------------
(* A window resolved on responses that hold a ron ends the hand by the ron  *)
(* of the lowest seat that declared one.                                    *)
LEMMA RonResolves ==
    ASSUME SeatsInv, WindowInv, phase = "WAIT_DISCARDS",
           NEW q, DOMAIN q \subseteq Seats \ {activePlayer},
           \A y \in DOMAIN q : q[y] \in validActions[y] \cup {Pass},
           NEW x \in DOMAIN q, q[x].type = "ron", ResolveInterrupts(q)
    PROVE  roundResult'.type = "ron" /\ roundResult'.winner <= x
<1> DEFINE s == ResolveInterruptPriority(q)
<1>1. s # None
  <2>1. s # None \/ { o \in DOMAIN q : q[o].type # "pass" } = {}
    <3>1. ASSUME { o \in DOMAIN q : q[o].type # "pass" } # {}, s = None
          PROVE  FALSE
      <4> DEFINE C == { o \in DOMAIN q : q[o].type # "pass" }
                 w == [o \in Seats |-> IF o \in C THEN Weight(q[o].type) ELSE 0]
      <4>1. w \in [Seats -> Int]
        BY WeightIsInt
      <4>2. \A o \in C : w[o] = Weight(q[o].type)
        OBVIOUS
      <4>3. C \in SUBSET Seats /\ C # {}
        BY <3>1
      <4> HIDE DEF w
      <4>4. PICK b \in C : \A o \in C \ {b} : Before(w, b, o)
        BY <4>1, <4>3, BestExists
      <4>5. \A o \in C \ {b} : Weight(q[b].type) > Weight(q[o].type)
                               \/ (Weight(q[b].type) = Weight(q[o].type) /\ b < o)
        BY <4>2, <4>4 DEF Before
      <4>6. s = CHOOSE t \in C : \A o \in C \ {t} :
                  Weight(q[t].type) > Weight(q[o].type)
                      \/ (Weight(q[t].type) = Weight(q[o].type) /\ t < o)
        BY <4>3, Zenon DEF ResolveInterruptPriority
      <4>7. s \in C
        BY <4>5, <4>6, Zenon
      <4> QED
        BY <3>1, <4>3, <4>7, SeatFacts
    <3> QED
      BY <3>1
  <2> QED
    BY <2>1
<1>2. /\ s \in DOMAIN q
      /\ s # x => \/ Weight(q[s].type) > Weight(q[x].type)
                  \/ Weight(q[s].type) = Weight(q[x].type) /\ s < x
  BY <1>1, PriorityWins
<1>3. q[s].type = "ron" /\ s <= x
  <2>1. Weight(q[x].type) = 4 /\ (Weight(q[s].type) >= 4 => q[s].type = "ron")
    BY SMT DEF Weight
  <2>2. s \in 0 .. 3 /\ x \in 0 .. 3 /\ Weight(q[s].type) \in 0 .. 4
    BY <1>2, WeightIsInt DEF Seats
  <2> HIDE DEF s
  <2> QED
    BY <1>2, <2>1, <2>2, SMT
<1>4. CanWin(wall, hands[s].closed \cup {activeDiscard}, FALSE)
  <2>1. s \in Seats /\ q[s] \in validActions[s] \cup {Pass}
    BY <1>2
  <2>2. Pass.type = "pass"
    BY OfferFields DEF Pass
  <2> HIDE DEF s
  <2>3. q[s] \in validActions[s]
    BY <1>3, <2>1, <2>2
  <2> QED
    BY <1>3, <2>1, <2>3 DEF WindowInv
<1>5. PICK S \in WinScores : Ron(s, S)
  BY <1>1, <1>3, <1>4 DEF ResolveInterrupts
<1>6. roundResult' = Result("ron", s, activePlayer)
  BY <1>5 DEF Ron, FinalizeRoundEnd
<1> QED
  BY <1>3, <1>6 DEF Result

LEMMA RonWinsStep ==
    ASSUME SeatsInv, WindowInv, [Next]_vars, Closing,
           NEW x \in DOMAIN interruptQueue, interruptQueue[x].type = "ron"
    PROVE  roundResult'.type = "ron" /\ roundResult'.winner <= x
<1>1. Next /\ phase = "WAIT_DISCARDS" /\ phase' # "WAIT_DISCARDS"
  BY DEF Closing, vars
<1>2. CASE TimerResolve
  BY <1>1, <1>2, RonResolves DEF TimerResolve, SeatsInv, WindowInv
<1>3. ASSUME NEW s \in Seats, NEW o \in validActions[s] \cup {Pass}, HandleInterrupt(s, o)
      PROVE  roundResult'.type = "ron" /\ roundResult'.winner <= x
  <2> DEFINE q == Respond(interruptQueue, s, o)
  <2>1. WindowFull(q) /\ ResolveInterrupts(q)
    BY <1>1, <1>3, Zenon DEF HandleInterrupt
  <2>2. DOMAIN q \subseteq Seats \ {activePlayer} /\ x \in DOMAIN q
    BY <1>1, <1>3 DEF HandleInterrupt, SeatsInv, Respond
  <2>3. \A y \in DOMAIN q : q[y] \in validActions[y] \cup {Pass}
    BY <1>1, <1>3 DEF Respond, WindowInv
  <2>4. s \notin DOMAIN interruptQueue
    <3>1. SUFFICES ASSUME s \in DOMAIN interruptQueue
                   PROVE  FALSE
      OBVIOUS
    <3>2. DOMAIN q = DOMAIN interruptQueue
      BY <3>1 DEF Respond
    <3> QED
      BY <1>1, <2>1, <3>2 DEF WindowFull, WindowInv
  <2>5. q[x] = interruptQueue[x]
    BY <2>4 DEF Respond
  <2> HIDE DEF q
  <2> QED
    BY <1>1, <2>1, <2>2, <2>3, <2>5, RonResolves
<1> QED
  BY <1>1, <1>2, <1>3, OnlyResponses

(* ResolveInterrupts: whatever hands can win, however the other seats and   *)
(* the timer interleave, and even if a seat changes its response, a ron     *)
(* that was queued in time is the one that ends the hand.                   *)
THEOREM QueuedRonWins == Spec => RonWins
<1>1. Init => SeatsInv /\ WindowInv
  BY InitFair DEF Init, WindowInv
<1>2. SeatsInv /\ WindowInv /\ [Next]_vars => (SeatsInv /\ WindowInv)'
  BY StepFair, WindowStep DEF Fair
<1>3. SeatsInv /\ WindowInv /\ [Next]_vars =>
        [ Closing => \A s \in DOMAIN interruptQueue : interruptQueue[s].type = "ron"
              => roundResult'.type = "ron" /\ roundResult'.winner <= s ]_vars
  BY RonWinsStep
<1> QED
  BY <1>1, <1>2, <1>3, PTL DEF Spec, RonWins

-----------------------------------------------------------------------------
(* How a call moves the turn.  Each call of the engine ends in one of a few *)
(* ways, whatever the tiles are.                                            *)
IsOffers(va) == va = [s \in Seats |-> va[s]]

(* The hand is over, with a winner or without. *)
HandEnds ==
    /\ \E sc, r : FinalizeRoundEnd(sc, r) /\ (r.type = "draw" \/ r.winner \in Seats)
    /\ IsOffers(validActions')

(* A draw of seat s: it is to act and has something to do, or no tile was   *)
(* left for it.                                                             *)
Outcome(s) ==
    \/ PlayOn("PLAYER_TURN") /\ IsOffers(validActions') /\ validActions'[s] # {}
    \/ HandEnds

LEMMA NoOffersIsOffers == IsOffers(NoOffers)
BY DEF NoOffers, IsOffers

LEMMA OffersReplaced ==
    ASSUME NEW va, IsOffers(va), NEW s \in Seats, NEW o
    PROVE  IsOffers([va EXCEPT ![s] = o]) /\ [va EXCEPT ![s] = o][s] = o
<1>1. va = [q \in Seats |-> va[q]]
  BY DEF IsOffers
<1>2. [va EXCEPT ![s] = o] = [q \in Seats |-> IF q = s THEN o ELSE va[q]]
  BY <1>1
<1> QED
  BY <1>2 DEF IsOffers

LEMMA DrawEnds ==
    ASSUME EndRoundInDraw, IsOffers(validActions')
    PROVE  HandEnds
<1>1. FinalizeRoundEnd(score, Drawn) /\ Drawn.type = "draw"
  BY DEF EndRoundInDraw, Drawn, Result
<1> QED
  BY <1>1 DEF HandEnds

LEMMA AlwaysDiscard ==
    ASSUME NEW w, NEW hand, NEW haitei
    PROVE  GetValidActions(w, hand, haitei) # {}
BY DEF GetValidActions

LEMMA SettleOutcome ==
    ASSUME NEW seat \in Seats, NEW w, NEW hs, NEW va, IsOffers(va), NEW due,
           Settle(seat, w, hs, va, due)
    PROVE  Outcome(seat)
<1> DEFINE r == Replacements(w, hs[seat], due)
           hand == [Reveal(w, hs[seat], r) EXCEPT !.drawn = LastBackTile(w, r, hs[seat].drawn)]
           offer == GetValidActions(w, hand, isHaitei')
           shown == hand.flowers # hs[seat].flowers
<1>1. offer # {}
  BY AlwaysDiscard
<1>2. \/ validActions' = [va EXCEPT ![seat] = offer] /\ PlayOn("PLAYER_TURN")
      \/ /\ validActions' = [NoOffers EXCEPT ![seat] = IF shown THEN offer ELSE {}]
         /\ EndRoundInDraw
  BY Zenon DEF Settle
<1> HIDE DEF offer, shown
<1>3. CASE validActions' = [va EXCEPT ![seat] = offer] /\ PlayOn("PLAYER_TURN")
  BY <1>1, <1>3, OffersReplaced DEF Outcome
<1>4. CASE /\ validActions' = [NoOffers EXCEPT ![seat] = IF shown THEN offer ELSE {}]
           /\ EndRoundInDraw
  BY <1>4, OffersReplaced, NoOffersIsOffers, DrawEnds DEF Outcome
<1> QED
  BY <1>2, <1>3, <1>4

LEMMA SystemDrawOutcome ==
    ASSUME NEW seat \in Seats, NEW w, NEW hs, NEW va, IsOffers(va),
           ExecuteSystemDraw(seat, w, hs, va)
    PROVE  Outcome(seat)
<1>1. CASE \E w2, hs2 : Settle(seat, w2, hs2, va, 0)
  BY <1>1, SettleOutcome
<1>2. CASE validActions' = [va EXCEPT ![seat] = HaiteiOffers] /\ PlayOn("PLAYER_TURN")
  <2>1. HaiteiOffers # {}
    BY DEF HaiteiOffers
  <2> QED
    BY <1>2, <2>1, OffersReplaced DEF Outcome
<1>3. CASE validActions' = NoOffers /\ EndRoundInDraw
  BY <1>3, NoOffersIsOffers, DrawEnds DEF Outcome
<1> QED
  BY <1>1, <1>2, <1>3, Zenon DEF ExecuteSystemDraw

LEMMA AdvanceOutcome ==
    ASSUME activePlayer \in Seats, NEW hs, NEW va, IsOffers(va), AdvanceTurn(hs, va)
    PROVE  activePlayer' = NextSeat(activePlayer) /\ Outcome(NextSeat(activePlayer))
BY SystemDrawOutcome, SeatFacts DEF AdvanceTurn

(* The seats take their turns: somebody can act in a turn, and the seat     *)
(* that discarded does not respond to itself.                               *)
TurnInv ==
    /\ IsOffers(validActions)
    /\ phase = "PLAYER_TURN" => validActions[activePlayer] # {}
    /\ phase = "WAIT_DISCARDS" => validActions[activePlayer] = {}

-----------------------------------------------------------------------------
(* The ways a call ends. *)

Dealt ==
    /\ activePlayer' \in Seats /\ dealer' = activePlayer' /\ Outcome(activePlayer')
    /\ score' = score
    /\ \/ phase = "INIT" /\ handNum' = handNum
       \/ /\ phase = "ROUND_END" /\ handNum' = handNum + 1
          /\ \E s \in Seats : playerReady \cup {s} = Seats
          /\ nextDealer # None => dealer' = nextDealer

MoreReady ==
    /\ phase = "ROUND_END"
    /\ \E s \in Seats : playerReady' = playerReady \cup {s} /\ playerReady' # Seats
    /\ UNCHANGED <<phase, activePlayer, dealer, nextDealer, handNum, validActions,
                   interruptQueue, score, roundResult>>

WindowOpened ==
    /\ phase = "PLAYER_TURN" /\ PlayOn("WAIT_DISCARDS")
    /\ UNCHANGED <<activePlayer, dealer, handNum>>
    /\ interruptQueue' = << >>
    /\ IsOffers(validActions') /\ validActions'[activePlayer] = {}
    /\ \E s \in Seats : validActions'[s] # {}

Moved ==
    /\ phase = "PLAYER_TURN"
    /\ UNCHANGED <<dealer, handNum>>
    /\ \/ activePlayer' = activePlayer /\ Outcome(activePlayer)
       \/ activePlayer' = NextSeat(activePlayer) /\ Outcome(NextSeat(activePlayer))

Responded(s, o) ==
    /\ phase = "WAIT_DISCARDS"
    /\ s \in Seats \ {activePlayer} /\ o \in validActions[s] \cup {Pass}
    /\ interruptQueue' = Respond(interruptQueue, s, o)
    /\ ~WindowFull(Respond(interruptQueue, s, o))
    /\ UNCHANGED <<phase, activePlayer, dealer, nextDealer, handNum, validActions, score,
                   playerReady, roundResult>>

(* A window that closes on the responses q. *)
Closes(q) ==
    /\ phase = "WAIT_DISCARDS"
    /\ UNCHANGED <<dealer, handNum>>
    /\ \/ \E s \in DOMAIN q : validActions[s] # {} /\ activePlayer' = s /\ Outcome(s)
       \/ activePlayer' = NextSeat(activePlayer) /\ Outcome(NextSeat(activePlayer))
       \/ HandEnds

Closed ==
    \/ Closes(interruptQueue)
    \/ \E s \in Seats \ {activePlayer} : \E o \in validActions[s] \cup {Pass} :
          WindowFull(Respond(interruptQueue, s, o)) /\ Closes(Respond(interruptQueue, s, o))

LEMMA DealCases ==
    ASSUME SeatsInv, NEW faces, NEW d, NEW first \in Seats, Deal(faces, d, first)
    PROVE  activePlayer' = first /\ dealer' = first /\ score' = score /\ Outcome(first)
<1>1. dealer' = first /\ activePlayer' = first
      /\ \E w, hs : ExecuteSystemDraw(first, w, hs, NoOffers)
  BY DEF Deal
<1> QED
  BY <1>1, SystemDrawOutcome, SystemDrawMovesNothing, NoOffersIsOffers DEF SeatsInv

LEMMA OffersOfWindow ==
    ASSUME NEW w, NEW hs, NEW d \in Seats, NEW t, NEW ronOnly
    PROVE  IsOffers(Offers(w, hs, d, t, ronOnly)) /\ Offers(w, hs, d, t, ronOnly)[d] = {}
BY DEF Offers, IsOffers

LEMMA ResolveCases ==
    ASSUME SeatsInv, TurnInv, phase = "WAIT_DISCARDS",
           NEW q, DOMAIN q \subseteq Seats \ {activePlayer},
           \A y \in DOMAIN q : q[y] \in validActions[y] \cup {Pass},
           ResolveInterrupts(q)
    PROVE  Closes(q)
<1> DEFINE s == ResolveInterruptPriority(q)
<1>0. dealer' = dealer /\ handNum' = handNum
  BY DEF ResolveInterrupts
<1>1. CASE s # None /\ \E S \in WinScores : Ron(s, S)
  <2>1. s \in Seats
    BY <1>1, PriorityWins
  <2>2. PICK S \in WinScores : Ron(s, S)
    BY <1>1
  <2> DEFINE r == Result("ron", s, activePlayer)
  <2>3. FinalizeRoundEnd(Paid(r, S), r) /\ validActions' = NoOffers
    BY <2>2 DEF Ron
  <2>4. r.winner = s
    BY DEF Result
  <2> HIDE DEF r, s
  <2> QED
    BY <1>0, <2>1, <2>3, <2>4, NoOffersIsOffers DEF Closes, HandEnds
<1>2. CASE s # None /\ q[s].type \in {"chii", "pon", "kan"} /\ Claim(s, q[s])
  <2>1. s \in DOMAIN q
    BY <1>2, PriorityWins
  <2>2. activePlayer' = s /\ \E hs, due : Settle(s, wall, hs, validActions, due)
    BY <1>2 DEF Claim
  <2>3. validActions[s] # {}
    <3>1. Pass.type = "pass"
      BY OfferFields DEF Pass
    <3>2. q[s] # Pass
      BY <1>2, <3>1
    <3> HIDE DEF s
    <3> QED
      BY <2>1, <3>2
  <2>4. Outcome(s)
    BY <2>1, <2>2, SettleOutcome DEF TurnInv
  <2> HIDE DEF s
  <2> QED
    BY <1>0, <2>1, <2>2, <2>3, <2>4 DEF Closes
<1>3. CASE AdvanceTurn(hands, validActions)
  BY <1>0, <1>3, AdvanceOutcome DEF Closes, TurnInv, SeatsInv
<1> QED
  BY <1>1, <1>2, <1>3 DEF ResolveInterrupts

LEMMA StartCases ==
    ASSUME SeatsInv, Start
    PROVE  Dealt
BY DealCases, SeatFacts DEF Start, Dealt

LEMMA DiscardCases ==
    ASSUME SeatsInv, NEW t, HandleDiscard(t)
    PROVE  WindowOpened \/ Moved
<1> DEFINE hs == [hands EXCEPT ![activePlayer].closed = @ \ {t},
                               ![activePlayer].size = @ - 1,
                               ![activePlayer].drawn = None,
                               ![activePlayer].discards = Append(@, t)]
           va == Offers(wall, hs, activePlayer, t, isHaitei)
<1>1. phase = "PLAYER_TURN" /\ dealer' = dealer /\ handNum' = handNum /\ activePlayer \in Seats
  BY DEF HandleDiscard, InTurn, SeatsInv
<1>2. IsOffers(va) /\ va[activePlayer] = {}
  BY <1>1, OffersOfWindow
<1> HIDE DEF hs, va
<1>3. CASE /\ \E s \in Seats : va[s] # {}
           /\ validActions' = va /\ interruptQueue' = << >>
           /\ PlayOn("WAIT_DISCARDS") /\ activePlayer' = activePlayer
  BY <1>1, <1>2, <1>3 DEF WindowOpened
<1>4. CASE validActions' = NoOffers /\ EndRoundInDraw /\ activePlayer' = activePlayer
  BY <1>1, <1>4, NoOffersIsOffers, DrawEnds DEF Moved, Outcome
<1>5. CASE AdvanceTurn(hs, va)
  BY <1>1, <1>2, <1>5, AdvanceOutcome DEF Moved
<1> QED
  BY <1>3, <1>4, <1>5, Zenon DEF HandleDiscard, hs, va

LEMMA ReadyCases ==
    ASSUME SeatsInv, NEW s \in Seats, HandleReady(s)
    PROVE  Dealt \/ MoreReady
<1>1. CASE /\ playerReady \cup {s} # Seats /\ playerReady' = playerReady \cup {s}
           /\ UNCHANGED <<phase, activePlayer, dealer, nextDealer, handNum, validActions,
                          interruptQueue, score, roundResult>>
  BY <1>1 DEF HandleReady, MoreReady
<1>2. CASE /\ playerReady \cup {s} = Seats /\ handNum' = handNum + 1
           /\ \E faces, d : \E first \in IF nextDealer = None THEN DealerDraws ELSE {nextDealer} :
                Deal(faces, d, first)
  <2>1. PICK first \in IF nextDealer = None THEN DealerDraws ELSE {nextDealer} :
          \E faces, d : Deal(faces, d, first)
    BY <1>2
  <2>2. first \in Seats
    BY SeatFacts DEF SeatsInv
  <2>3. activePlayer' = first /\ dealer' = first /\ score' = score /\ Outcome(first)
    BY <2>1, <2>2, DealCases
  <2> QED
    BY <1>2, <2>1, <2>2, <2>3 DEF HandleReady, Dealt
<1> QED
  BY <1>1, <1>2 DEF HandleReady

LEMMA InterruptCases ==
    ASSUME SeatsInv, WindowInv, TurnInv, NEW s \in Seats, NEW o \in validActions[s] \cup {Pass},
           HandleInterrupt(s, o)
    PROVE  Responded(s, o) \/ Closed
<1> DEFINE q == Respond(interruptQueue, s, o)
<1>1. phase = "WAIT_DISCARDS" /\ s # activePlayer
  BY DEF HandleInterrupt
<1>2. DOMAIN q \subseteq Seats \ {activePlayer}
  BY <1>1 DEF SeatsInv, Respond
<1>3. \A y \in DOMAIN q : q[y] \in validActions[y] \cup {Pass}
  BY <1>1 DEF Respond, WindowInv
<1>4. CASE WindowFull(q) /\ ResolveInterrupts(q)
  BY <1>1, <1>2, <1>3, <1>4, ResolveCases DEF Closed
<1>5. CASE /\ ~WindowFull(q) /\ interruptQueue' = q
           /\ UNCHANGED <<phase, activePlayer, dealer, nextDealer, handNum, validActions, score,
                          playerReady, roundResult>>
  BY <1>1, <1>5 DEF Responded
<1> QED
  BY <1>4, <1>5, Zenon DEF HandleInterrupt

LEMMA NextCases ==
    ASSUME SeatsInv, WindowInv, TurnInv, Next
    PROVE  \/ Dealt \/ MoreReady \/ WindowOpened \/ Moved \/ Closed
           \/ \E s \in Seats : \E o \in validActions[s] \cup {Pass} : Responded(s, o)
<1>1. CASE Start
  BY <1>1, StartCases
<1>2. CASE \E t : HandleDiscard(t)
  BY <1>2, DiscardCases
<1>3. CASE \E o : HandleKong(o)
  <2>1. /\ phase = "PLAYER_TURN" /\ UNCHANGED <<activePlayer, dealer, handNum>>
        /\ \E hs : Settle(activePlayer, wall, hs, validActions, 1)
    BY <1>3 DEF HandleKong, InTurn
  <2> QED
    BY <2>1, SettleOutcome DEF Moved, SeatsInv, TurnInv
<1>4. CASE \E S \in WinScores : HandleTsumo(S)
  <2>1. PICK S \in WinScores : HandleTsumo(S)
    BY <1>4
  <2> DEFINE r == Result("tsumo", activePlayer, None)
  <2>2. /\ phase = "PLAYER_TURN" /\ UNCHANGED <<activePlayer, dealer, handNum>>
        /\ FinalizeRoundEnd(Paid(r, S), r) /\ validActions' = NoOffers
    BY <2>1 DEF HandleTsumo, InTurn
  <2>3. r.winner \in Seats
    BY DEF Result, SeatsInv
  <2> HIDE DEF r
  <2> QED
    BY <2>2, <2>3, NoOffersIsOffers DEF Moved, Outcome, HandEnds
<1>5. CASE HandleHaiteiAccept
  <2>1. /\ phase = "PLAYER_TURN" /\ UNCHANGED <<activePlayer, dealer, handNum>>
        /\ \E w, hs : Settle(activePlayer, w, hs, validActions, 0)
    BY <1>5 DEF HandleHaiteiAccept, InTurn
  <2> QED
    BY <2>1, SettleOutcome DEF Moved, SeatsInv, TurnInv
<1>6. CASE HandleHaiteiRefuse
  BY <1>6, NoOffersIsOffers, DrawEnds DEF HandleHaiteiRefuse, InTurn, Moved, Outcome
<1>7. CASE \E s \in Seats : \E o \in validActions[s] \cup {Pass} : HandleInterrupt(s, o)
  BY <1>7, InterruptCases
<1>8. CASE TimerResolve
  BY <1>8, ResolveCases DEF TimerResolve, Closed, SeatsInv, WindowInv
<1>9. CASE \E s \in Seats : HandleReady(s)
  BY <1>9, ReadyCases
<1> QED
  BY <1>1, <1>2, <1>3, <1>4, <1>5, <1>6, <1>7, <1>8, <1>9 DEF Next

-----------------------------------------------------------------------------
LEMMA OutcomePhases ==
    ASSUME NEW s, Outcome(s)
    PROVE  \/ /\ phase' = "PLAYER_TURN" /\ PlayOn("PLAYER_TURN")
              /\ IsOffers(validActions') /\ validActions'[s] # {}
           \/ /\ phase' \in {"ROUND_END", "MATCH_END"} /\ HandEnds
              /\ IsOffers(validActions')
BY DEF Outcome, HandEnds, FinalizeRoundEnd, PlayOn

LEMMA TurnStep ==
    ASSUME SeatsInv, WindowInv, TurnInv, [Next]_vars
    PROVE  TurnInv'
<1>1. ASSUME NEW s, Outcome(s), activePlayer' = s
      PROVE  TurnInv'
  BY <1>1, OutcomePhases DEF TurnInv
<1>2. ASSUME HandEnds
      PROVE  TurnInv'
  BY <1>2 DEF HandEnds, FinalizeRoundEnd, TurnInv
<1>3. CASE Dealt
  BY <1>3, <1>1 DEF Dealt
<1>4. CASE MoreReady
  BY <1>4 DEF MoreReady, TurnInv
<1>5. CASE WindowOpened
  BY <1>5 DEF WindowOpened, PlayOn, TurnInv
<1>6. CASE Moved
  BY <1>6, <1>1 DEF Moved
<1>7. CASE Closed
  BY <1>7, <1>1, <1>2 DEF Closed, Closes
<1>8. CASE \E s \in Seats : \E o \in validActions[s] \cup {Pass} : Responded(s, o)
  BY <1>8 DEF Responded, TurnInv
<1>9. CASE UNCHANGED vars
  BY <1>9 DEF vars, TurnInv
<1> QED
  BY <1>3, <1>4, <1>5, <1>6, <1>7, <1>8, <1>9, NextCases

LEMMA TurnsInvHolds == Spec => [](SeatsInv /\ WindowInv /\ TurnInv)
<1>1. Init => SeatsInv /\ WindowInv /\ TurnInv
  <2>1. Init => TurnInv
    BY NoOffersIsOffers DEF Init, TurnInv
  <2> QED
    BY <2>1, InitFair DEF Init, WindowInv
<1>2. SeatsInv /\ WindowInv /\ TurnInv /\ [Next]_vars => (SeatsInv /\ WindowInv /\ TurnInv)'
  BY StepFair, WindowStep, TurnStep DEF Fair
<1> QED
  BY <1>1, <1>2, PTL DEF Spec

LEMMA SomeSeatMissing ==
    ASSUME NEW A \in SUBSET Seats, NEW B \in SUBSET Seats, ~(Cardinality(A) >= Cardinality(B))
    PROVE  B \ A # {}
<1>1. IsFiniteSet(A) /\ IsFiniteSet(B)
  BY SeatsFinite, FS_Subset
<1>2. Cardinality(A) \in Nat /\ Cardinality(B) \in Nat
  BY <1>1, FS_CardinalityType
<1>3. B \subseteq A => Cardinality(B) <= Cardinality(A)
  BY <1>1, FS_Subset
<1> QED
  BY <1>2, <1>3

(* handleDiscard, handleInterruptAction and the draws: an open window       *)
(* always waits for a seat that was offered a claim and has not responded,  *)
(* however often seats change their responses or answer late; and whoever   *)
(* gets the turn can act in it.                                             *)
THEOREM WindowWaitsForSomebody == Spec => []SomebodyToAct
<1>1. SeatsInv /\ WindowInv /\ TurnInv => SomebodyToAct
  <2> SUFFICES ASSUME SeatsInv, WindowInv, TurnInv, phase = "WAIT_DISCARDS"
               PROVE  Expected \ (DOMAIN interruptQueue \cup {activePlayer}) # {}
    BY DEF SomebodyToAct, TurnInv
  <2>1. Expected \in SUBSET Seats /\ DOMAIN interruptQueue \in SUBSET Seats
    BY DEF Expected, SeatsInv
  <2>2. Expected \ DOMAIN interruptQueue # {}
    BY <2>1, SomeSeatMissing DEF WindowInv, WindowFull
  <2>3. activePlayer \notin Expected
    BY DEF Expected, TurnInv
  <2> QED
    BY <2>2, <2>3
<1> QED
  BY <1>1, TurnsInvHolds, PTL

-----------------------------------------------------------------------------
(* Hands and matches. *)

(* The next dealer is settled when a hand ends, and the cap is looked at    *)
(* then: no hand of a match whose cap is reached begins.                    *)
MatchInv ==
    /\ phase \in {"INIT", "PLAYER_TURN", "WAIT_DISCARDS", "ROUND_END", "MATCH_END"}
    /\ handNum \in Nat \ {0}
    /\ playerReady \subseteq Seats /\ (phase # "ROUND_END" => playerReady = {})
    /\ phase = "ROUND_END" /\ Chongci =>
          nextDealer = (IF roundResult.type = "draw" THEN dealer ELSE roundResult.winner)
              /\ nextDealer \in Seats
    /\ phase = "ROUND_END" => ~MatchOver(score, handNum)
    /\ phase = "MATCH_END" => MatchOver(score, handNum)
    /\ Capped /\ MaxHands > 0 => handNum <= MaxHands
    /\ Capped /\ StartingScore > BustThreshold /\ phase \notin {"ROUND_END", "MATCH_END"}
          => \A s \in Seats : score[s] > BustThreshold

LEMMA CapFacts ==
    /\ BustThreshold \in Int /\ StartingScore \in Int /\ MaxHands \in Nat
    /\ Chongci => Capped
BY GameAssumption DEF GameAssumption

(* The hand that is over is counted, and its winner or dealer deals next.   *)
LEMMA HandEndsMatch ==
    ASSUME MatchInv, SeatsInv, dealer' \in Seats, HandEnds,
           handNum' = handNum \/ (phase = "ROUND_END" /\ handNum' = handNum + 1)
    PROVE  MatchInv'
<1>1. PICK sc, r : FinalizeRoundEnd(sc, r) /\ (r.type = "draw" \/ r.winner \in Seats)
  BY DEF HandEnds
<1>2. /\ score' = sc /\ roundResult' = r /\ nextDealer' = Successor(r) /\ playerReady' = {}
      /\ phase' = IF MatchOver(sc, handNum') THEN "MATCH_END" ELSE "ROUND_END"
  BY <1>1 DEF FinalizeRoundEnd
<1>3. Chongci => nextDealer' = (IF roundResult'.type = "draw" THEN dealer' ELSE roundResult'.winner)
                    /\ nextDealer' \in Seats
  BY <1>1, <1>2 DEF Successor
<1>4. handNum' \in Nat \ {0}
  BY DEF MatchInv
<1>5. Capped /\ MaxHands > 0 => handNum' <= MaxHands
  <2>1. phase = "ROUND_END" /\ Capped /\ MaxHands > 0 => ~(handNum >= MaxHands)
    BY DEF MatchInv, MatchOver
  <2>2. handNum \in Nat /\ MaxHands \in Nat
    BY CapFacts DEF MatchInv
  <2> QED
    BY <2>1, <2>2 DEF MatchInv
<1>6. /\ phase' = "ROUND_END" => ~MatchOver(score', handNum')
      /\ phase' = "MATCH_END" => MatchOver(score', handNum')
      /\ phase' \in {"ROUND_END", "MATCH_END"}
  BY <1>2
<1> QED
  BY <1>2, <1>3, <1>4, <1>5, <1>6 DEF MatchInv

(* A hand goes on, or begins, only in a match that is not over.             *)
LEMMA PlayOnMatch ==
    ASSUME MatchInv, SeatsInv, NEW p \in {"PLAYER_TURN", "WAIT_DISCARDS"}, PlayOn(p),
           phase # "MATCH_END",
           \/ handNum' = handNum /\ phase # "ROUND_END"
           \/ phase = "ROUND_END" /\ handNum' = handNum + 1
    PROVE  MatchInv'
<1>1. phase' = p /\ playerReady' = {} /\ score' = score
  BY DEF PlayOn
<1>2. handNum' \in Nat \ {0}
  BY DEF MatchInv
<1>3. Capped /\ MaxHands > 0 => handNum' <= MaxHands
  <2>1. phase = "ROUND_END" /\ Capped /\ MaxHands > 0 => ~(handNum >= MaxHands)
    BY DEF MatchInv, MatchOver
  <2>2. handNum \in Nat /\ MaxHands \in Nat
    BY CapFacts DEF MatchInv
  <2> QED
    BY <2>1, <2>2 DEF MatchInv
<1>4. Capped /\ StartingScore > BustThreshold => \A s \in Seats : score[s] > BustThreshold
  <2>1. phase = "ROUND_END" /\ Capped => \A s \in Seats : ~(score[s] <= BustThreshold)
    BY DEF MatchInv, MatchOver
  <2>2. \A s \in Seats : score[s] \in Int /\ BustThreshold \in Int
    BY CapFacts DEF SeatsInv
  <2> QED
    BY <2>1, <2>2 DEF MatchInv
<1> QED
  BY <1>1, <1>2, <1>3, <1>4 DEF MatchInv

LEMMA OutcomeMatch ==
    ASSUME MatchInv, SeatsInv, dealer' \in Seats, NEW s, Outcome(s), phase # "MATCH_END",
           \/ handNum' = handNum /\ phase # "ROUND_END"
           \/ phase = "ROUND_END" /\ handNum' = handNum + 1
    PROVE  MatchInv'
BY HandEndsMatch, PlayOnMatch DEF Outcome

LEMMA MatchStep ==
    ASSUME SeatsInv, WindowInv, TurnInv, MatchInv, [Next]_vars
    PROVE  MatchInv'
<1>1. CASE Dealt
  BY <1>1, OutcomeMatch DEF Dealt
<1>2. CASE MoreReady
  <2>1. playerReady' \subseteq Seats
    BY <1>2 DEF MoreReady, MatchInv
  <2> QED
    BY <1>2, <2>1 DEF MoreReady, MatchInv
<1>3. CASE WindowOpened
  BY <1>3, PlayOnMatch DEF WindowOpened
<1>4. CASE Moved
  BY <1>4, OutcomeMatch DEF Moved, SeatsInv
<1>5. CASE Closed
  <2>1. /\ phase = "WAIT_DISCARDS" /\ dealer' = dealer /\ handNum' = handNum
        /\ HandEnds \/ \E s : Outcome(s)
    BY <1>5 DEF Closed, Closes
  <2> QED
    BY <2>1, OutcomeMatch, HandEndsMatch DEF SeatsInv
<1>6. CASE \E s \in Seats : \E o \in validActions[s] \cup {Pass} : Responded(s, o)
  BY <1>6 DEF Responded, MatchInv
<1>7. CASE UNCHANGED vars
  BY <1>7 DEF vars, MatchInv
<1> QED
  BY <1>1, <1>2, <1>3, <1>4, <1>5, <1>6, <1>7, NextCases

LEMMA MatchInvHolds == Spec => [](SeatsInv /\ WindowInv /\ TurnInv /\ MatchInv)
<1>1. Init => MatchInv
  <2> SUFFICES ASSUME Init PROVE MatchInv
    OBVIOUS
  <2>1. handNum = 1 /\ MaxHands \in Nat /\ StartingScore \in Int /\ BustThreshold \in Int
    BY CapFacts DEF Init
  <2>2. Capped /\ StartingScore > BustThreshold => \A s \in Seats : score[s] > BustThreshold
    BY DEF Init
  <2> QED
    BY <2>1, <2>2 DEF Init, MatchInv
<1>2. SeatsInv /\ WindowInv /\ TurnInv /\ MatchInv /\ [Next]_vars => MatchInv'
  BY MatchStep
<1> QED
  BY <1>1, <1>2, TurnsInvHolds, PTL DEF Spec

(* handNum moves with a deal only. *)
LEMMA DealStep ==
    ASSUME SeatsInv, WindowInv, TurnInv, MatchInv, [Next]_vars, handNum' # handNum
    PROVE  /\ Chongci => dealer' = IF roundResult.type = "draw" THEN dealer ELSE roundResult.winner
           /\ score' = score /\ activePlayer' = dealer'
<1>1. Next
  BY DEF vars
<1>2. Dealt /\ phase = "ROUND_END"
  <2>1. Dealt
    BY <1>1, NextCases DEF MoreReady, WindowOpened, Moved, Closed, Closes, Responded
  <2> QED
    BY <2>1 DEF Dealt
<1>3. Chongci => dealer' = nextDealer
  BY <1>2, SeatFacts DEF Dealt, MatchInv
<1> QED
  BY <1>2, <1>3 DEF Dealt, MatchInv

(* finalizeRoundEnd, shouldEndChongciMatch and startNextRound: in a match   *)
(* that does not start busted, whatever its cap, scores and hands are, the  *)
(* hand that busts a seat or reaches the cap is the last one, and the next  *)
(* hand is dealt by the seat that is entitled to it.                        *)
THEOREM HandsFollow ==
    ASSUME StartingScore > BustThreshold
    PROVE  Spec => MatchProceeds
<1>1. SeatsInv /\ MatchInv => MatchEndsOnTime
  <2> SUFFICES ASSUME SeatsInv, MatchInv, Capped PROVE MatchEndsOnTime
    BY DEF MatchEndsOnTime
  <2>1. /\ MaxHands \in Nat /\ handNum \in Nat \ {0} /\ BustThreshold \in Int
        /\ \A s \in Seats : score[s] \in Int
    BY CapFacts DEF SeatsInv, MatchInv
  <2>2. phase = "MATCH_END" => (\E s \in Seats : score[s] <= BustThreshold) \/ handNum = MaxHands
    BY <2>1 DEF MatchInv, MatchOver
  <2>3. InPlay => /\ \A s \in Seats : ~(score[s] <= BustThreshold)
                  /\ MaxHands > 0 => handNum <= MaxHands
    BY <2>1 DEF MatchInv, InPlay
  <2>4. phase = "ROUND_END" => /\ \A s \in Seats : ~(score[s] <= BustThreshold)
                               /\ MaxHands > 0 => handNum < MaxHands
    BY <2>1 DEF MatchInv, MatchOver
  <2> QED
    BY <2>2, <2>3, <2>4 DEF MatchEndsOnTime
<1>2. SeatsInv /\ WindowInv /\ TurnInv /\ MatchInv /\ [Next]_vars =>
        [ handNum' # handNum =>
            /\ Chongci => dealer' = IF roundResult.type = "draw" THEN dealer ELSE roundResult.winner
            /\ score' = score /\ activePlayer' = dealer' ]_vars
  BY DealStep
<1> QED
  BY <1>1, <1>2, MatchInvHolds, PTL DEF Spec, MatchProceeds, DealSucceeds

-----------------------------------------------------------------------------
(* Module Game implements module Turns: its steps are those of Turns, or    *)
(* leave the phase, the turn, the offers, the responses and the READYs as   *)
(* they are.                                                                *)
LEMMA HandOverMapped ==
    ASSUME HandEnds
    PROVE  T!HandOver
BY DEF HandEnds, FinalizeRoundEnd, T!HandOver, InPlay

LEMMA TurnMapped ==
    ASSUME NEW s, PlayOn("PLAYER_TURN"), activePlayer' = s
    PROVE  T!TurnOf(s)
BY DEF PlayOn, T!TurnOf, InPlay

LEMMA OutcomeMapped ==
    ASSUME NEW s, Outcome(s), activePlayer' = s
    PROVE  T!TurnOf(s) \/ T!HandOver
BY HandOverMapped, TurnMapped DEF Outcome

LEMMA ClosesMapped ==
    ASSUME SeatsInv, NEW q, DOMAIN q \subseteq Seats, Closes(q)
    PROVE  T!Resolve(DOMAIN q)
<1>1. InPlay /\ phase = "WAIT_DISCARDS"
  BY DEF Closes, InPlay
<1>2. CASE \E s \in DOMAIN q : validActions[s] # {} /\ activePlayer' = s /\ Outcome(s)
  <2>1. PICK s \in DOMAIN q : validActions[s] # {} /\ activePlayer' = s /\ Outcome(s)
    BY <1>2
  <2>2. s \in DOMAIN q \cap (IF phase = "WAIT_DISCARDS" THEN Expected ELSE {})
    BY <1>1, <2>1 DEF Expected
  <2> QED
    BY <2>1, <2>2, OutcomeMapped DEF T!Resolve
<1>3. CASE activePlayer' = NextSeat(activePlayer) /\ Outcome(NextSeat(activePlayer))
  <2>1. T!NextSeat(IF InPlay THEN activePlayer ELSE 0) = NextSeat(activePlayer)
    BY <1>1 DEF T!NextSeat, NextSeat
  <2> QED
    BY <1>3, <2>1, OutcomeMapped DEF T!Resolve
<1>4. CASE HandEnds
  BY <1>4, HandOverMapped DEF T!Resolve
<1> QED
  BY <1>2, <1>3, <1>4 DEF Closes

LEMMA CardinalityMapped == \A S : T!Cardinality(S) = Cardinality(S)
BY DEF T!Cardinality, Cardinality, T!IsFiniteSet, IsFiniteSet

LEMMA WindowMapped ==
    ASSUME phase = "WAIT_DISCARDS"
    PROVE  /\ InPlay
           /\ (IF phase = "WAIT_DISCARDS" THEN Expected ELSE {}) = Expected
           /\ (IF phase = "WAIT_DISCARDS" THEN DOMAIN interruptQueue ELSE {}) = DOMAIN interruptQueue
           /\ (IF InPlay THEN activePlayer ELSE 0) = activePlayer
BY DEF InPlay

LEMMA DealtMapped ==
    ASSUME Dealt
    PROVE  T!Start \/ \E s \in T!Seats : T!Ready(s)
<1>1. T!HandStarts
  BY OutcomeMapped DEF Dealt, T!HandStarts, T!Seats, Seats
<1> QED
  BY <1>1 DEF Dealt, T!Start, T!Ready, T!Seats, Seats

LEMMA MoreReadyMapped ==
    ASSUME MoreReady
    PROVE  \E s \in T!Seats : T!Ready(s)
<1>1. PICK s \in Seats : playerReady' = playerReady \cup {s} /\ playerReady' # Seats
  BY DEF MoreReady
<1> QED
  BY <1>1 DEF MoreReady, T!Ready, T!Seats, Seats, InPlay, Expected

LEMMA OpenedMapped ==
    ASSUME SeatsInv, WindowOpened
    PROVE  T!Discard(activePlayer)
<1>1. /\ phase = "PLAYER_TURN" /\ phase' = "WAIT_DISCARDS" /\ playerReady' = {}
      /\ activePlayer' = activePlayer /\ InPlay /\ InPlay'
      /\ validActions'[activePlayer] = {} /\ \E s \in Seats : validActions'[s] # {}
      /\ interruptQueue' = << >>
  BY DEF WindowOpened, PlayOn, InPlay
<1>2. Expected' \in (SUBSET (T!Seats \ {activePlayer})) \ {{}}
  BY <1>1 DEF Expected, T!Seats, Seats
<1>3. DOMAIN interruptQueue' = {}
  BY <1>1
<1> QED
  BY <1>1, <1>2, <1>3 DEF T!Discard, T!WindowOpens

LEMMA MovedMapped ==
    ASSUME SeatsInv, MatchInv, Moved
    PROVE  \/ UNCHANGED T!turnVars
           \/ T!Discard(activePlayer) \/ T!Declare(activePlayer)
<1>1. phase = "PLAYER_TURN" /\ InPlay /\ playerReady = {}
  BY DEF Moved, InPlay, MatchInv
<1>2. CASE activePlayer' = activePlayer /\ PlayOn("PLAYER_TURN")
  <2>1. phase' = "PLAYER_TURN" /\ InPlay' /\ playerReady' = {}
    BY <1>2 DEF PlayOn, InPlay
  <2> QED
    BY <1>1, <1>2, <2>1 DEF T!turnVars
<1>3. CASE HandEnds
  BY <1>1, <1>3, HandOverMapped DEF T!Declare
<1>4. CASE activePlayer' = NextSeat(activePlayer) /\ Outcome(NextSeat(activePlayer))
  <2>1. T!NextSeat(activePlayer) = NextSeat(activePlayer)
    BY DEF T!NextSeat, NextSeat
  <2> QED
    BY <1>1, <1>4, <2>1, OutcomeMapped DEF T!Discard
<1> QED
  BY <1>2, <1>3, <1>4 DEF Moved, Outcome

(* The window is full in Game when it is in Turns. *)
LEMMA FullMapped ==
    ASSUME SeatsInv, phase = "WAIT_DISCARDS", NEW q, DOMAIN q \subseteq Seats
    PROVE  WindowFull(q) <=> ~(Cardinality(DOMAIN q) < Cardinality(Expected))
<1>1. IsFiniteSet(DOMAIN q) /\ IsFiniteSet(Expected)
  BY SeatsFinite, FS_Subset DEF Expected
<1>2. Cardinality(DOMAIN q) \in Nat /\ Cardinality(Expected) \in Nat
  BY <1>1, FS_CardinalityType
<1> QED
  BY <1>2 DEF WindowFull

LEMMA RespondedMapped ==
    ASSUME SeatsInv, NEW s, NEW o, Responded(s, o)
    PROVE  T!Respond(s)
<1> DEFINE q == Respond(interruptQueue, s, o)
<1>1. phase = "WAIT_DISCARDS" /\ phase' = phase /\ s \in Seats /\ s # activePlayer
  BY DEF Responded
<1>2. DOMAIN q = DOMAIN interruptQueue \cup {s} /\ DOMAIN q \subseteq Seats
  BY <1>1 DEF Respond, SeatsInv
<1>3. Cardinality(DOMAIN q) < Cardinality(Expected)
  BY <1>1, <1>2, FullMapped DEF Responded
<1>4. /\ DOMAIN interruptQueue' = DOMAIN interruptQueue \cup {s}
      /\ UNCHANGED <<phase, activePlayer, validActions, playerReady>>
  BY <1>2 DEF Responded
<1>5. Expected' = Expected
  BY <1>4 DEF Expected
<1> HIDE DEF q
<1>6. Cardinality(DOMAIN interruptQueue \cup {s}) < Cardinality(Expected)
  BY <1>2, <1>3
<1> DEFINE offered == IF phase = "WAIT_DISCARDS" THEN Expected ELSE {}
           responded == IF phase = "WAIT_DISCARDS" THEN DOMAIN interruptQueue ELSE {}
<1>7. offered = Expected /\ responded = DOMAIN interruptQueue
  BY <1>1
<1>8. /\ responded' = responded \cup {s} /\ offered' = offered
      /\ UNCHANGED <<phase, playerReady, IF InPlay THEN activePlayer ELSE 0>>
      /\ (IF InPlay THEN activePlayer ELSE 0) = activePlayer
  BY <1>1, <1>4, <1>5 DEF InPlay
<1>9. Cardinality(responded \cup {s}) < Cardinality(offered)
  BY <1>6, <1>7
<1> HIDE DEF offered, responded
<1> QED
  BY <1>1, <1>8, <1>9, CardinalityMapped DEF T!Respond, offered, responded

LEMMA ClosedMapped ==
    ASSUME SeatsInv, Closed
    PROVE  T!TimeOut \/ \E s \in T!Seats : T!Respond(s)
<1>1. phase = "WAIT_DISCARDS" /\ DOMAIN interruptQueue \subseteq Seats
  BY DEF Closed, Closes, SeatsInv
<1>2. CASE Closes(interruptQueue)
  BY <1>1, <1>2, ClosesMapped, WindowMapped DEF T!TimeOut
<1>3. ASSUME NEW s \in Seats \ {activePlayer}, NEW o,
             WindowFull(Respond(interruptQueue, s, o)), Closes(Respond(interruptQueue, s, o))
      PROVE  T!Respond(s) /\ s \in T!Seats
  <2> DEFINE q == Respond(interruptQueue, s, o)
  <2>1. DOMAIN q = DOMAIN interruptQueue \cup {s} /\ DOMAIN q \subseteq Seats
    BY <1>1 DEF Respond
  <2>2. ~(Cardinality(DOMAIN q) < Cardinality(Expected)) /\ T!Resolve(DOMAIN q)
    BY <1>1, <1>3, <2>1, FullMapped, ClosesMapped
  <2> HIDE DEF q
  <2>3. /\ ~(Cardinality(DOMAIN interruptQueue \cup {s}) < Cardinality(Expected))
        /\ T!Resolve(DOMAIN interruptQueue \cup {s})
    BY <2>1, <2>2
  <2> DEFINE offered == IF phase = "WAIT_DISCARDS" THEN Expected ELSE {}
             responded == IF phase = "WAIT_DISCARDS" THEN DOMAIN interruptQueue ELSE {}
  <2>4. offered = Expected /\ responded = DOMAIN interruptQueue
    BY <1>1
  <2>5. /\ ~(Cardinality(responded \cup {s}) < Cardinality(offered))
        /\ T!Resolve(responded \cup {s})
    BY <2>3, <2>4
  <2>6. s # IF InPlay THEN activePlayer ELSE 0
    BY <1>1, <1>3, WindowMapped
  <2> HIDE DEF offered, responded
  <2> QED
    BY <1>1, <1>3, <2>5, <2>6, CardinalityMapped DEF T!Respond, T!Seats, Seats, offered, responded
<1> QED
  BY <1>2, <1>3 DEF Closed

LEMMA TurnsStep ==
    ASSUME SeatsInv, WindowInv, TurnInv, MatchInv, [Next]_vars
    PROVE  [T!TurnsNext]_(T!turnVars)
<1>0. activePlayer \in T!Seats
  BY DEF SeatsInv, Seats, T!Seats
<1>1. CASE Dealt
  BY <1>1, DealtMapped DEF T!TurnsNext
<1>2. CASE MoreReady
  BY <1>2, MoreReadyMapped DEF T!TurnsNext
<1>3. CASE WindowOpened
  BY <1>0, <1>3, OpenedMapped DEF T!TurnsNext
<1>4. CASE Moved
  BY <1>0, <1>4, MovedMapped DEF T!TurnsNext
<1>5. CASE Closed
  BY <1>5, ClosedMapped DEF T!TurnsNext
<1>6. CASE \E s \in Seats : \E o \in validActions[s] \cup {Pass} : Responded(s, o)
  BY <1>6, RespondedMapped DEF T!TurnsNext, T!Seats, Seats
<1>7. CASE UNCHANGED vars
  BY <1>7 DEF vars, T!turnVars, InPlay, Expected
<1> QED
  BY <1>1, <1>2, <1>3, <1>4, <1>5, <1>6, <1>7, NextCases

(* ProcessPlayerAction and ResolveInterrupts as the room sees them: the     *)
(* engine implements module Turns, for every wall and hand evaluation.      *)
THEOREM GameImplementsTurns == Spec => TurnsSpec
<1>1. Init => T!TurnsInit
  BY DEF Init, T!TurnsInit, InPlay
<1>2. SeatsInv /\ WindowInv /\ TurnInv /\ MatchInv /\ [Next]_vars => [T!TurnsNext]_(T!turnVars)
  BY TurnsStep
<1> QED
  BY <1>1, <1>2, MatchInvHolds, PTL DEF Spec, TurnsSpec, T!TurnsSpec
=============================================================================
